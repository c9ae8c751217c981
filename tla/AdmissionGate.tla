---------------------------- MODULE AdmissionGate ----------------------------
(***************************************************************************)
(* What a network call may expect of the wallet's request limiter,         *)
(* whatever windows, timers and queues implement it.                       *)
(*                                                                         *)
(* A call asks once.  It is let through, refused, or made to wait, and a   *)
(* call that waits is later let through or refused.  The gate can be held  *)
(* (nobody passes) and released, and it can be closed for good: closing    *)
(* refuses everybody who waits and everybody who asks from then on.        *)
(***************************************************************************)

CONSTANT Calls         \* the calls of acquire()

VARIABLES
    outcome,           \* [Calls -> the state of the promise the call got]
    held,              \* nobody may pass
    closed             \* nobody will ever pass again

gateVars == <<outcome, held, closed>>

Outcomes == {"idle", "waiting", "granted", "rejected"}

GateTypeOK ==
    /\ outcome \in [Calls -> Outcomes]
    /\ held \in BOOLEAN
    /\ closed \in BOOLEAN

Waiting == {c \in Calls : outcome[c] = "waiting"}

\* The promises of the calls in S take the state o, the others keep theirs.
Settle(S, o) ==
    outcome' = [c \in Calls |-> IF c \in S THEN o ELSE outcome[c]]

GateInit ==
    /\ outcome = [c \in Calls |-> "idle"]
    /\ held = FALSE
    /\ closed = FALSE

Pass(c) ==
    /\ outcome[c] = "idle" /\ ~held /\ ~closed
    /\ Settle({c}, "granted")
    /\ UNCHANGED <<held, closed>>

Wait(c) ==
    /\ outcome[c] = "idle" /\ ~closed
    /\ Settle({c}, "waiting")
    /\ UNCHANGED <<held, closed>>

Refuse(c) ==
    /\ outcome[c] = "idle" /\ closed
    /\ Settle({c}, "rejected")
    /\ UNCHANGED <<held, closed>>

Hold ==
    /\ held' = TRUE
    /\ UNCHANGED <<outcome, closed>>

\* The gate is, or becomes, open and some of those who wait go through.
Release(S) ==
    /\ S \subseteq Waiting
    /\ closed => S = {}
    /\ held' = FALSE
    /\ Settle(S, "granted")
    /\ UNCHANGED closed

Close ==
    /\ closed' = TRUE
    /\ Settle(Waiting, "rejected")
    /\ UNCHANGED held

GateNext ==
    \/ \E c \in Calls : Pass(c) \/ Wait(c) \/ Refuse(c)
    \/ \E S \in SUBSET Calls : Release(S)
    \/ Hold
    \/ Close

GateSpec == GateInit /\ [][GateNext]_gateVars

=============================================================================
