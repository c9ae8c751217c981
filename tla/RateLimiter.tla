----------------------------- MODULE RateLimiter -----------------------------
(***************************************************************************)
(* FixedWindowRateLimiter (src/providers/rate_limiter.ts), the gate every  *)
(* network request of the wallet passes.                                   *)
(*                                                                         *)
(* Each method runs to completion on the JavaScript thread, so each is one *)
(* action.  What interleaves is the order of method calls and timer        *)
(* callbacks: a callback runs at its due time or later, never before.      *)
(*                                                                         *)
(* The code only compares Date.now() - windowStart with windowMs, so the   *)
(* clock is kept as that difference (elapsed), and a timer as the time it  *)
(* still has to wait.  elapsed saturates at ClockCap, which no window      *)
(* exceeds, so every comparison has the value it has in the code.          *)
(***************************************************************************)
EXTENDS Integers, FiniteSets, Sequences, SequencesExt

CONSTANTS
    Calls,              \* the calls of acquire(); each gets one promise
    MaxRequestsInputs,  \* values typed or stored for maxRequests
    WindowMsInputs,     \* values typed or stored for windowMs
    PauseMsInputs,      \* durations pause() is called with
    ClockCap,           \* elapsed is not told apart beyond this
    MaxPendingResumes   \* bound: timers of pause() pending at one time

ASSUME InputsAssumption ==
    /\ MaxRequestsInputs \subseteq Nat
    /\ \E m \in MaxRequestsInputs : m >= 1
    /\ ClockCap \in Nat
    /\ WindowMsInputs \subseteq 0..ClockCap
    /\ \E w \in WindowMsInputs : w >= 1
    /\ PauseMsInputs \subseteq Nat
    /\ MaxPendingResumes \in Nat

VARIABLES
    maxRequests, windowMs,   \* the configuration in force
    count,                   \* slots taken in the current window
    elapsed,                 \* Date.now() - windowStart, at most ClockCap
    queue,                   \* calls waiting for a slot
    resetDue,                \* time left of resetTimer, or NoTimer
    isBlocked, isPaused,
    pauseQueue,              \* calls waiting for resume()
    resumeDue,               \* time left of pause()'s timers, oldest first
    outcome,                 \* [Calls -> state of the promise of the call]
    window                   \* history of the current window, see below

config   == <<maxRequests, windowMs>>
switches == <<isBlocked, isPaused>>
vars == <<maxRequests, windowMs, count, elapsed, queue, resetDue, isBlocked,
          isPaused, pauseQueue, resumeDue, outcome, window>>

NoTimer  == -1
Outcomes == {"idle", "waiting", "granted", "rejected"}

(***************************************************************************)
(* window is not in the code.  It records, since windowStart: the largest  *)
(* maxRequests and the smallest windowMs that were in force, and the calls *)
(* that were let through.  The properties speak about it.                  *)
(***************************************************************************)
Window == [limit : Nat, span : Nat, admitted : SUBSET Calls]

NewlyGranted ==
    {c \in Calls : outcome'[c] = "granted" /\ outcome[c] # "granted"}

WindowOpens ==
    window' = [limit |-> maxRequests, span |-> windowMs, admitted |-> NewlyGranted]

WindowGoesOn ==
    window' = [window EXCEPT !.admitted = @ \cup NewlyGranted]

-----------------------------------------------------------------------------
(* Queues, promises and the reset timer.                                   *)

Settle(S, o) ==
    outcome' = [c \in Calls |-> IF c \in S THEN o ELSE outcome[c]]

\* scheduleReset(): a timer that is already armed is left alone.
ScheduleReset(due, age) ==
    IF due # NoTimer THEN due ELSE Max({0, windowMs - age})

\* How many of a line of n calls get the slots that c taken ones leave free.
Released(n, c) == Min({n, Max({0, maxRequests - c})})

\* flushQueue() on the line q, with c slots taken, age after windowStart.
FlushQueue_pop(q, c, age, due) ==
    LET n == Released(Len(q), c) IN
    /\ queue' = SubSeq(q, 1, Len(q) - n)
    /\ count' = c + n
    /\ Settle(ToSet(SubSeq(q, Len(q) - n + 1, Len(q))), "granted")
    /\ resetDue' = IF n < Len(q) THEN ScheduleReset(due, age) ELSE due
FlushQueue(q, c, age, due) ==
    LET n == Released(Len(q), c) IN
    /\ queue' = SubSeq(q, n + 1, Len(q))
    /\ count' = c + n
    /\ Settle(ToSet(SubSeq(q, 1, n)), "granted")
    /\ resetDue' = IF n < Len(q) THEN ScheduleReset(due, age) ELSE due

-----------------------------------------------------------------------------
Init ==
    /\ maxRequests \in {m \in MaxRequestsInputs : m >= 1}
    /\ windowMs \in {w \in WindowMsInputs : w >= 1}
    /\ count = 0
    /\ elapsed = 0
    /\ queue = <<>>
    /\ resetDue = NoTimer
    /\ isBlocked = FALSE
    /\ isPaused = FALSE
    /\ pauseQueue = <<>>
    /\ resumeDue = <<>>
    /\ outcome = [c \in Calls |-> "idle"]
    /\ window = [limit |-> maxRequests, span |-> windowMs, admitted |-> {}]

\* The settings form: refuses values below 1, then configure().  Neither the
\* window in progress nor an armed timer is touched.
Configure_unchecked(m, w) ==
    /\ maxRequests' = m
    /\ windowMs' = w
    /\ window' = [window EXCEPT !.limit = Max({@, m}), !.span = Min({@, w})]
    /\ UNCHANGED <<count, elapsed, queue, resetDue, switches, pauseQueue, resumeDue, outcome>>
Configure(m, w) ==
    /\ m >= 1 /\ w >= 1
    /\ maxRequests' = m
    /\ windowMs' = w
    /\ window' = [window EXCEPT !.limit = Max({@, m}), !.span = Min({@, w})]
    /\ UNCHANGED <<count, elapsed, queue, resetDue, switches, pauseQueue, resumeDue, outcome>>

(* acquire(), one action for each of its four exits. *)

AcquireBlocked(c) ==
    /\ outcome[c] = "idle"
    /\ isBlocked
    /\ Settle({c}, "rejected")
    /\ UNCHANGED <<config, count, elapsed, queue, resetDue, switches, pauseQueue, resumeDue, window>>

AcquirePaused(c) ==
    /\ outcome[c] = "idle"
    /\ ~isBlocked /\ isPaused
    /\ pauseQueue' = Append(pauseQueue, c)
    /\ Settle({c}, "waiting")
    /\ UNCHANGED <<config, count, elapsed, queue, resetDue, switches, resumeDue, window>>

\* A call that finds the window over opens the next one itself and disarms
\* resetTimer, whoever waits in queue.
WindowOver == elapsed >= windowMs
Taken      == IF WindowOver THEN 0 ELSE count

HasSlot_offByOne == Taken <= maxRequests
HasSlot          == Taken < maxRequests

AcquireSlot(c) ==
    /\ outcome[c] = "idle"
    /\ ~isBlocked /\ ~isPaused
    /\ HasSlot
    /\ elapsed' = IF WindowOver THEN 0 ELSE elapsed
    /\ resetDue' = IF WindowOver THEN NoTimer ELSE resetDue
    /\ count' = Taken + 1
    /\ Settle({c}, "granted")
    /\ IF WindowOver THEN WindowOpens ELSE WindowGoesOn
    /\ UNCHANGED <<config, queue, switches, pauseQueue, resumeDue>>

\* maxRequests is at least 1, so a call without a slot is inside a window.
AcquireQueued(c) ==
    /\ outcome[c] = "idle"
    /\ ~isBlocked /\ ~isPaused
    /\ ~HasSlot
    /\ resetDue' = ScheduleReset(resetDue, elapsed)
    /\ queue' = Append(queue, c)
    /\ Settle({c}, "waiting")
    /\ UNCHANGED <<config, count, elapsed, switches, pauseQueue, resumeDue, window>>

Acquire(c) ==
    AcquireBlocked(c) \/ AcquirePaused(c) \/ AcquireSlot(c) \/ AcquireQueued(c)

\* The callback of resetTimer.
FireReset_keepsCount ==
    /\ resetDue = 0
    /\ elapsed' = 0
    /\ FlushQueue(queue, count, 0, NoTimer)
    /\ WindowOpens
    /\ UNCHANGED <<config, switches, pauseQueue, resumeDue>>
FireReset ==
    /\ resetDue = 0
    /\ elapsed' = 0
    /\ FlushQueue(queue, 0, 0, NoTimer)
    /\ WindowOpens
    /\ UNCHANGED <<config, switches, pauseQueue, resumeDue>>

\* pause(d): moves everybody who waits behind the pause and arms a timer of
\* its own, which nothing ever disarms.
Pause_copies(d) ==
    /\ ~isPaused
    /\ Len(resumeDue) < MaxPendingResumes
    /\ isPaused' = TRUE
    /\ resetDue' = NoTimer
    /\ pauseQueue' = pauseQueue \o queue
    /\ resumeDue' = Append(resumeDue, d)
    /\ UNCHANGED <<config, count, elapsed, queue, isBlocked, outcome, window>>
Pause_keepsResetTimer(d) ==
    /\ ~isPaused
    /\ Len(resumeDue) < MaxPendingResumes
    /\ isPaused' = TRUE
    /\ pauseQueue' = pauseQueue \o queue
    /\ queue' = <<>>
    /\ resumeDue' = Append(resumeDue, d)
    /\ UNCHANGED <<config, count, elapsed, resetDue, isBlocked, outcome, window>>
Pause_noTimer(d) ==
    /\ ~isPaused
    /\ isPaused' = TRUE
    /\ resetDue' = NoTimer
    /\ pauseQueue' = pauseQueue \o queue
    /\ queue' = <<>>
    /\ UNCHANGED <<config, count, elapsed, isBlocked, resumeDue, outcome, window>>
Pause(d) ==
    /\ ~isPaused
    /\ Len(resumeDue) < MaxPendingResumes
    /\ isPaused' = TRUE
    /\ resetDue' = NoTimer
    /\ pauseQueue' = pauseQueue \o queue
    /\ queue' = <<>>
    /\ resumeDue' = Append(resumeDue, d)
    /\ UNCHANGED <<config, count, elapsed, isBlocked, outcome, window>>

\* resume(): a fresh window, and the paused calls in front of the line.
ResumeTraffic ==
    /\ isPaused' = FALSE
    /\ elapsed' = 0
    /\ FlushQueue(pauseQueue \o queue, 0, 0, resetDue)
    /\ pauseQueue' = <<>>
    /\ WindowOpens
    /\ UNCHANGED <<config, isBlocked>>

\* resume() called by the failover, before the pause's own timer.
Resume ==
    /\ isPaused
    /\ ResumeTraffic
    /\ UNCHANGED resumeDue

\* The i-th pending timer of pause() fires and calls resume(), which does
\* nothing when traffic already flows.
FireResume(i) ==
    /\ resumeDue[i] = 0
    /\ resumeDue' = RemoveAt(resumeDue, i)
    /\ \/ isPaused /\ ResumeTraffic
       \/ /\ ~isPaused
          /\ UNCHANGED <<config, count, elapsed, queue, resetDue, switches, pauseQueue, outcome, window>>

\* block(): rejects everybody who waits; there is no way back.
Block_forgetsPaused ==
    /\ ~isBlocked
    /\ isBlocked' = TRUE
    /\ resetDue' = NoTimer
    /\ queue' = <<>>
    /\ Settle(ToSet(queue), "rejected")
    /\ UNCHANGED <<config, count, elapsed, isPaused, pauseQueue, resumeDue, window>>
Block ==
    /\ ~isBlocked
    /\ isBlocked' = TRUE
    /\ resetDue' = NoTimer
    /\ queue' = <<>>
    /\ pauseQueue' = <<>>
    /\ Settle(ToSet(queue \o pauseQueue), "rejected")
    /\ UNCHANGED <<config, count, elapsed, isPaused, resumeDue, window>>

\* Time passes for windowStart and for every pending timer.
Down(t) == IF t > 0 THEN t - 1 ELSE t

Tick ==
    /\ elapsed' = Min({elapsed + 1, ClockCap})
    /\ resetDue' = Down(resetDue)
    /\ resumeDue' = [i \in DOMAIN resumeDue |-> Down(resumeDue[i])]
    /\ UNCHANGED <<config, count, queue, switches, pauseQueue, outcome, window>>

Next ==
    \/ \E c \in Calls : Acquire(c)
    \/ \E m \in MaxRequestsInputs, w \in WindowMsInputs : Configure(m, w)
    \/ \E d \in PauseMsInputs : Pause(d)
    \/ Resume
    \/ Block
    \/ FireReset
    \/ \E i \in DOMAIN resumeDue : FireResume(i)
    \/ Tick

\* Time passes and a timer that is due is run by the event loop.  Nobody is
\* obliged to call anything.
Fairness ==
    /\ WF_vars(Tick)
    /\ WF_vars(FireReset)
    /\ WF_vars(\E i \in DOMAIN resumeDue : FireResume(i))

Spec     == Init /\ [][Next]_vars
FairSpec == Spec /\ Fairness

-----------------------------------------------------------------------------
(* Properties.                                                             *)

TypeOK ==
    /\ maxRequests \in Nat \ {0}
    /\ windowMs \in 1..ClockCap
    /\ count \in Nat
    /\ elapsed \in 0..ClockCap
    /\ queue \in Seq(Calls)
    /\ resetDue \in Nat \cup {NoTimer}
    /\ isBlocked \in BOOLEAN
    /\ isPaused \in BOOLEAN
    /\ pauseQueue \in Seq(Calls)
    /\ resumeDue \in Seq(Nat)
    /\ outcome \in [Calls -> Outcomes]
    /\ window \in Window

Line == pauseQueue \o queue

Waiting == {c \in Calls : outcome[c] = "waiting"}

\* The calls that wait are exactly those that stand in one of the two queues,
\* and none stands there twice: moving the queues around on pause, resume and
\* block neither loses a promise nor settles one twice.
EveryCallAccountedFor ==
    /\ ToSet(Line) = Waiting
    /\ \A i, j \in DOMAIN Line : Line[i] = Line[j] => i = j

\* While traffic is held nobody stands in the window's queue and no window
\* timer runs, and while it flows nobody stands behind the pause: the moves
\* between the queues and the disarming of timers leave nothing behind.
QueuesMatchMode ==
    /\ isPaused => queue = <<>> /\ resetDue = NoTimer
    /\ ~isPaused => pauseQueue = <<>>
    /\ isBlocked => Line = <<>> /\ resetDue = NoTimer

\* The server never sees more calls in a window than the largest maxRequests
\* that was in force during it, through every mix of immediate grants, timer
\* releases, resumes and changes of configuration.
BudgetPerWindow == Cardinality(window.admitted) <= window.limit

\* Outside resume(), a window is replaced only after the smallest windowMs
\* that was in force during it: a timer that survived a pause or a resume
\* would cut a window short and double the rate.
WindowsDoNotOverlap ==
    [][elapsed' < elapsed /\ isPaused' = isPaused => elapsed >= window.span]_vars

\* Those who wait are served in the order they came, across the move behind a
\* pause and back: when a call is released, so is everyone who stood before it.
WaitersReleasedInOrder ==
    [][\A i, j \in DOMAIN Line :
          i < j /\ outcome'[Line[j]] = "granted" => outcome'[Line[i]] = "granted"]_vars

\* The limiter keeps the promises of AdmissionGate: no grant while paused, no
\* grant after block(), block() settles everybody, a promise settles once.
Gate == INSTANCE AdmissionGate WITH held <- isPaused, closed <- isBlocked
GateSpec == Gate!GateSpec

\* Every pause ends, by a resume() or by the timer it armed.
PauseEnds == isPaused ~> ~isPaused

\* A call that waits is let through or refused in the end, provided the queue
\* is never left without its reset timer: with the timer kept, no pattern of
\* pauses, resumes, blocks and new settings starves a waiter.
ServedWhileTimerKept ==
    [](queue # <<>> => resetDue # NoTimer)
        => \A c \in Calls : outcome[c] = "waiting" ~> outcome[c] # "waiting"

\* acquire() "waits until the next window opens": everyone who waits is let
\* through or refused in the end.  The code does not keep this: a call that
\* finds the window over disarms the timer the queue depends on.
EveryWaiterServed ==
    \A c \in Calls : outcome[c] = "waiting" ~> outcome[c] # "waiting"

=============================================================================
