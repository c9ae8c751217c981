------------------------------ MODULE SwapRecords ------------------------------
(***************************************************************************)
(* Bitcoin swaps and the records that track them:                          *)
(* src/src/bitcoinSwap/flows.ts and the page that runs, polls, continues   *)
(* and removes them, src/src/views/wallet/BitcoinSwaps.vue.                *)
(*                                                                         *)
(* A swap sends one or two transactions and ends there, or waits for       *)
(* Lombard to mint or to pay out; a quick swap to AVAX then has a second   *)
(* step that the user starts.  The list and its copy in localStorage are   *)
(* written together, so a reload loses what is under way and no record.    *)
(* Swaps are numbered in the order of their createdAt.                     *)
(***************************************************************************)
EXTENDS Naturals, FiniteSets

CONSTANTS
    NumSwaps,
    Legs,              \* [1..NumSwaps -> transactions of the run]
    Waits,             \* swaps that wait for Lombard after them
    Quick,             \* of those, the ones with a second step
    MaxKept,           \* MAX_KEPT
    MaxLooks,          \* bound: refreshSwap() calls of a swap under way
    MaxContinues,      \* bound: clicks on the second step
    MaxReloads         \* bound

Swaps == 1..NumSwaps

ASSUME SwapsAssumption ==
    /\ NumSwaps \in Nat
    /\ Legs \in [Swaps -> Nat \ {0}]
    /\ Quick \subseteq Waits /\ Waits \subseteq Swaps
    /\ MaxKept \in Nat \ {0} /\ MaxLooks \in Nat /\ MaxContinues \in Nat /\ MaxReloads \in Nat

VARIABLES
    list,              \* btcSwaps: [Swaps -> status or "absent"]
    open,              \* the page is mounted
    busy,              \* its busy
    continuing,        \* its continuing
    started,           \* swaps started so far
    run,               \* [Swaps -> "new", "sending", "sent", "over" or "lost"]
    leg,               \* [Swaps -> transactions the run knows to be out]
    settled,           \* Lombard minted or paid
    early, late,       \* [Swaps -> refreshes sent before and after that]
    clicks,            \* [Swaps -> clicks on its second step awaiting the gate]
    taken,             \* swaps whose clicked record was set to running
    checks,            \* [Swaps -> continuations awaiting btcbBalance()]
    seconds,           \* [Swaps -> second steps about to be sent]
    sentSeconds,       \* [Swaps -> second steps sent, not yet answered]
    out,               \* history: [Swaps -> second steps sent]
    entered,           \* history: clicks on a second step
    regressed,         \* history: a refresh overwrote a later status
    doubled,           \* history: two continuations awaited the balance
    removed,           \* history: removed by the user
    reloads

view == <<open, busy, continuing>>
flow == <<started, run, leg>>
looks == <<early, late>>
second == <<clicks, taken, checks, seconds, sentSeconds, out, entered, doubled>>
history == <<regressed, removed, reloads>>
vars == <<list, view, flow, settled, looks, second, history>>

Statuses == {"running", "waiting", "ready", "done", "failed"}

Init ==
    /\ list = [s \in Swaps |-> "absent"]
    /\ open = TRUE /\ busy = FALSE /\ continuing = FALSE
    /\ started = 0
    /\ run = [s \in Swaps |-> "new"]
    /\ leg = [s \in Swaps |-> 0]
    /\ settled = {}
    /\ early = [s \in Swaps |-> 0] /\ late = [s \in Swaps |-> 0]
    /\ clicks = [s \in Swaps |-> 0] /\ taken = {}
    /\ checks = [s \in Swaps |-> 0]
    /\ seconds = [s \in Swaps |-> 0] /\ sentSeconds = [s \in Swaps |-> 0]
    /\ out = [s \in Swaps |-> 0]
    /\ entered = 0
    /\ regressed = {} /\ doubled = {} /\ removed = {}
    /\ reloads = 0

-----------------------------------------------------------------------------
\* saveSwap(): replaced or added, and the oldest beyond MAX_KEPT dropped.
Save_dropsNewest(s, status) ==
    LET there == {x \in Swaps : list[x] # "absent"} \cup {s}
        kept == {x \in there : Cardinality({y \in there : y < x}) < MaxKept}
    IN list' = [x \in Swaps |-> IF x \notin kept THEN "absent"
                                ELSE IF x = s THEN status ELSE list[x]]
Save(s, status) ==
    LET there == {x \in Swaps : list[x] # "absent"} \cup {s}
        kept == {x \in there : Cardinality({y \in there : y > x}) < MaxKept}
    IN list' = [x \in Swaps |-> IF x \notin kept THEN "absent"
                                ELSE IF x = s THEN status ELSE list[x]]

-----------------------------------------------------------------------------
(* The run of a swap.                                                      *)

Start ==
    /\ open /\ ~busy
    /\ started + 1 \in Swaps
    /\ started' = started + 1
    /\ run' = [run EXCEPT ![started + 1] = "sending"]
    /\ busy' = TRUE
    /\ UNCHANGED <<list, open, continuing, leg, settled, looks, second, history>>

\* The transaction is accepted by its chain; the answer is on its way.
Broadcast(s) ==
    /\ run[s] = "sending"
    /\ run' = [run EXCEPT ![s] = "sent"]
    /\ UNCHANGED <<list, view, started, leg, settled, looks, second, history>>

MoreLegs_offByOne(s) == leg[s] + 1 <= Legs[s]
MoreLegs(s) == leg[s] + 1 < Legs[s]

\* A leg of several is saved as running, the last one as waiting or done.
Answered(s) ==
    /\ run[s] = "sent"
    /\ leg' = [leg EXCEPT ![s] = @ + 1]
    /\ IF MoreLegs(s)
       THEN /\ Save(s, "running")
            /\ run' = [run EXCEPT ![s] = "sending"]
            /\ UNCHANGED busy
       ELSE /\ Save(s, IF s \in Waits THEN "waiting" ELSE "done")
            /\ run' = [run EXCEPT ![s] = "over"]
            /\ busy' = FALSE
    /\ UNCHANGED <<open, continuing, started, settled, looks, second, history>>

\* fail(): before the transaction, or because its answer is lost.
RunFails(s) ==
    /\ run[s] \in {"sending", "sent"}
    /\ run' = [run EXCEPT ![s] = "lost"]
    /\ Save(s, "failed")
    /\ busy' = FALSE
    /\ UNCHANGED <<open, continuing, started, leg, settled, looks, second, history>>

\* Lombard's work, once the last transaction is out.
Settle(s) ==
    /\ s \in Waits \ settled
    /\ \/ leg[s] = Legs[s]
       \/ leg[s] + 1 = Legs[s] /\ run[s] = "sent"
    /\ settled' = settled \cup {s}
    /\ UNCHANGED <<list, view, flow, looks, second, history>>

-----------------------------------------------------------------------------
(* Refreshes.                                                              *)

Looked(s) ==
    IF s \in settled
    THEN late[s] < MaxLooks /\ late' = [late EXCEPT ![s] = @ + 1] /\ UNCHANGED early
    ELSE early[s] < MaxLooks /\ early' = [early EXCEPT ![s] = @ + 1] /\ UNCHANGED late

\* refreshAll() on mount, on the timer and by the button, for one of its swaps.
Look(s) ==
    /\ open
    /\ list[s] = "waiting"
    /\ Looked(s)
    /\ UNCHANGED <<list, view, flow, settled, second, history>>

Arrived(s) == IF s \in Quick THEN "ready" ELSE "done"

\* The copy taken when it was waiting is saved, whatever the record is now.
Copy_detailOnly(s, status) ==
    /\ Save(s, "waiting")
    /\ regressed' = IF list[s] = "waiting" THEN regressed ELSE regressed \cup {s}
    /\ UNCHANGED <<view, flow, settled, second, removed, reloads>>
Copy(s, status) ==
    /\ Save(s, status)
    /\ regressed' = IF list[s] = "waiting" THEN regressed ELSE regressed \cup {s}
    /\ UNCHANGED <<view, flow, settled, second, removed, reloads>>

\* Lombard's answer to a request it got before it was done may still say so.
EarlyAnswer(s) ==
    /\ early[s] > 0
    /\ early' = [early EXCEPT ![s] = @ - 1]
    /\ \E status \in {"waiting"} \cup (IF s \in settled THEN {Arrived(s)} ELSE {}) : Copy(s, status)
    /\ UNCHANGED late

LateAnswer(s) ==
    /\ late[s] > 0
    /\ late' = [late EXCEPT ![s] = @ - 1]
    /\ Copy(s, Arrived(s))
    /\ UNCHANGED early

LookFails(s) ==
    /\ \/ early[s] > 0 /\ early' = [early EXCEPT ![s] = @ - 1] /\ UNCHANGED late
       \/ late[s] > 0 /\ late' = [late EXCEPT ![s] = @ - 1] /\ UNCHANGED early
    /\ UNCHANGED <<list, view, flow, settled, second, history>>

-----------------------------------------------------------------------------
(* The second step of a quick swap: continueQuickBtcToAvax().              *)

\* The button is disabled while a continuation of this page is under way; from
\* the click on it is gatedAction()'s, which reads the chain first.
Click(s) ==
    /\ open /\ ~continuing
    /\ s \in Quick /\ list[s] = "ready"
    /\ entered < MaxContinues
    /\ entered' = entered + 1
    /\ clicks' = [clicks EXCEPT ![s] = @ + 1]
    /\ UNCHANGED <<list, view, flow, settled, looks, taken, checks, seconds, sentSeconds, out, doubled, history>>

\* The status of the record that was clicked: a refresh that overwrote it since
\* has put another one in the list.
StillReady(s) == s \notin taken \/ s \in regressed

\* The gate is passed, perhaps after the page was left (which has a continuing
\* of its own): continueSwap() tests nothing but the status.
Continue(s) ==
    /\ clicks[s] > 0 /\ StillReady(s)
    /\ clicks' = [clicks EXCEPT ![s] = @ - 1]
    /\ continuing' = TRUE \/ UNCHANGED continuing
    /\ doubled' = IF checks[s] > 0 THEN doubled \cup {s} ELSE doubled
    /\ checks' = [checks EXCEPT ![s] = @ + 1]
    /\ UNCHANGED <<list, open, busy, flow, settled, looks, taken, seconds, sentSeconds, out, entered, history>>

\* The gate refuses or there is no signer, or the record is not ready any more.
ClickFails(s) ==
    /\ clicks[s] > 0
    /\ clicks' = [clicks EXCEPT ![s] = @ - 1]
    /\ UNCHANGED continuing \/ (s \in taken /\ continuing' = FALSE)
    /\ UNCHANGED <<list, open, busy, flow, settled, looks, taken, checks, seconds, sentSeconds, out, entered, doubled, history>>

Proceed_savesLater(s) ==
    /\ checks[s] > 0
    /\ checks' = [checks EXCEPT ![s] = @ - 1]
    /\ seconds' = [seconds EXCEPT ![s] = @ + 1]
    /\ UNCHANGED <<list, view, flow, settled, looks, clicks, taken, sentSeconds, out, entered, doubled, history>>
\* The balance is there: the record is running, and the quote and the prompt follow.
Proceed(s) ==
    /\ checks[s] > 0
    /\ checks' = [checks EXCEPT ![s] = @ - 1]
    /\ seconds' = [seconds EXCEPT ![s] = @ + 1]
    /\ taken' = taken \cup {s}
    /\ Save(s, "running")
    /\ UNCHANGED <<view, flow, settled, looks, clicks, sentSeconds, out, entered, doubled, history>>

\* No answer, another account, or no BTC.b: nothing is recorded.
ProceedFails(s) ==
    /\ checks[s] > 0
    /\ checks' = [checks EXCEPT ![s] = @ - 1]
    /\ continuing' = FALSE
    /\ UNCHANGED <<list, open, busy, flow, settled, looks, clicks, taken, seconds, sentSeconds, out, entered, doubled, history>>

SendSecond(s) ==
    /\ seconds[s] > 0
    /\ seconds' = [seconds EXCEPT ![s] = @ - 1]
    /\ sentSeconds' = [sentSeconds EXCEPT ![s] = @ + 1]
    /\ out' = [out EXCEPT ![s] = @ + 1]
    /\ UNCHANGED <<list, view, flow, settled, looks, clicks, taken, checks, entered, doubled, history>>

SecondDone(s) ==
    /\ sentSeconds[s] > 0
    /\ sentSeconds' = [sentSeconds EXCEPT ![s] = @ - 1]
    /\ continuing' = FALSE
    /\ Save(s, "done")
    /\ UNCHANGED <<open, busy, flow, settled, looks, clicks, taken, checks, seconds, out, entered, doubled, history>>

\* A cancelled prompt, the quote, the chain, or an answer that is lost.
SecondFails(s) ==
    /\ \/ seconds[s] > 0 /\ seconds' = [seconds EXCEPT ![s] = @ - 1] /\ UNCHANGED sentSeconds
       \/ sentSeconds[s] > 0 /\ sentSeconds' = [sentSeconds EXCEPT ![s] = @ - 1] /\ UNCHANGED seconds
    /\ continuing' = FALSE
    /\ Save(s, "failed")
    /\ UNCHANGED <<open, busy, flow, settled, looks, clicks, taken, checks, out, entered, doubled, history>>

-----------------------------------------------------------------------------
(* The page and the browser.                                               *)

\* The button is there for a swap that is done or failed.
Remove(s) ==
    /\ open
    /\ list[s] \in {"done", "failed"}
    /\ list' = [list EXCEPT ![s] = "absent"]
    /\ removed' = removed \cup {s}
    /\ UNCHANGED <<view, flow, settled, looks, second, regressed, reloads>>

\* What the page was waiting for goes on without it.
Leave ==
    /\ open
    /\ open' = FALSE
    /\ UNCHANGED <<list, busy, continuing, flow, settled, looks, second, history>>

Return ==
    /\ ~open
    /\ open' = TRUE /\ busy' = FALSE /\ continuing' = FALSE
    /\ UNCHANGED <<list, flow, settled, looks, second, history>>

Reload ==
    /\ reloads < MaxReloads
    /\ reloads' = reloads + 1
    /\ open' = FALSE /\ busy' = FALSE /\ continuing' = FALSE
    /\ run' = [s \in Swaps |-> IF run[s] \in {"sending", "sent"} THEN "lost" ELSE run[s]]
    /\ early' = [s \in Swaps |-> 0] /\ late' = [s \in Swaps |-> 0]
    /\ clicks' = [s \in Swaps |-> 0] /\ checks' = [s \in Swaps |-> 0]
    /\ seconds' = [s \in Swaps |-> 0] /\ sentSeconds' = [s \in Swaps |-> 0]
    /\ UNCHANGED <<list, started, leg, settled, taken, out, entered, doubled, regressed, removed>>

Next ==
    \/ Start \/ Leave \/ Return \/ Reload
    \/ \E s \in Swaps :
          \/ Broadcast(s) \/ Answered(s) \/ RunFails(s) \/ Settle(s)
          \/ Look(s) \/ EarlyAnswer(s) \/ LateAnswer(s) \/ LookFails(s)
          \/ Click(s) \/ Continue(s) \/ ClickFails(s) \/ Proceed(s) \/ ProceedFails(s)
          \/ SendSecond(s) \/ SecondDone(s) \/ SecondFails(s) \/ Remove(s)

Spec == Init /\ [][Next]_vars

\* The poll comes back every minute, a request ends, and Lombard can be reached
\* again and again.
FairSpec ==
    /\ Spec
    /\ \A s \in Swaps : /\ WF_vars(Look(s))
                        /\ WF_vars(EarlyAnswer(s) \/ LookFails(s))
                        /\ SF_vars(LateAnswer(s))

-----------------------------------------------------------------------------
(* Properties.                                                             *)

TypeOK ==
    /\ list \in [Swaps -> Statuses \cup {"absent"}]
    /\ open \in BOOLEAN /\ busy \in BOOLEAN /\ continuing \in BOOLEAN
    /\ started \in Nat
    /\ run \in [Swaps -> {"new", "sending", "sent", "over", "lost"}]
    /\ leg \in [Swaps -> Nat] /\ \A s \in Swaps : leg[s] <= Legs[s]
    /\ settled \subseteq Waits
    /\ early \in [Swaps -> 0..MaxLooks] /\ late \in [Swaps -> 0..MaxLooks]
    /\ clicks \in [Swaps -> 0..MaxContinues] /\ taken \subseteq Swaps
    /\ checks \in [Swaps -> 0..MaxContinues]
    /\ seconds \in [Swaps -> 0..MaxContinues] /\ sentSeconds \in [Swaps -> 0..MaxContinues]
    /\ out \in [Swaps -> 0..MaxContinues]
    /\ entered \in 0..MaxContinues
    /\ regressed \subseteq Swaps /\ doubled \subseteq Swaps /\ removed \subseteq Swaps
    /\ reloads \in 0..MaxReloads

\* The second step of a quick swap is sent once at most, across failures,
\* reloads, visits to the page and clicks that wait at the gate.  Two races are
\* left to the code, and named: a slow refresh that overwrote the record, and
\* two continuations that awaited the balance at once - by a double click, or
\* with a click of a page that was left - which both found the record ready.
SecondStepOnce ==
    \A s \in Swaps \ (regressed \cup doubled) : out[s] <= 1

\* A swap whose run is over is in the list, and says no more than what is
\* true: done only after Lombard and the second step.  It leaves the list only
\* by the user or for MAX_KEPT newer ones.
Tracked ==
    \A s \in Swaps :
        /\ list[s] = "absent" /\ run[s] = "over" =>
              s \in removed \/ Cardinality({x \in Swaps : s < x /\ x <= started}) >= MaxKept
        /\ list[s] = "done" => /\ s \in Waits => s \in settled
                               /\ s \in Quick => out[s] > 0
        /\ list[s] = "ready" => s \in settled

\* With the page open, a record that still waits for what Lombard has done
\* does not wait for ever.
MintedIsNoticed ==
    \A s \in Swaps :
        (s \in settled /\ list[s] = "waiting") ~> (list[s] # "waiting" \/ ~open)

=============================================================================
