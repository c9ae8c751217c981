--------------------------- MODULE Failover_proofs ---------------------------
(***************************************************************************)
(* Proofs about Failover, for every list of networks, every number of      *)
(* users and escalations, and any number of 503 pauses.                    *)
(***************************************************************************)
EXTENDS Failover, WellFoundedInduction, TLAPS

-----------------------------------------------------------------------------
(* The inductive invariant.                                                *)

\* The run in flight is that of an escalation that probes or connects, and only
\* an escalation that connects calls setNetwork().
RunsBelong ==
    \A e \in Escalations :
        /\ failoverPromise = e => escalation[e].phase \in {"probing", "connecting"}
        /\ switch[e].stage # "idle" => escalation[e].phase = "connecting"
        /\ escalation[e].phase = "probing" => escalation[e].at \in DOMAIN Registered

\* A switch that is under way has a network to go to.
SwitchesGoSomewhere ==
    \A c \in Callers : switch[c].stage # "idle" => switch[c].net \in Networks

\* What a run probes or connects to has not been found dead.
AimsAtLiving ==
    \A e \in Escalations :
        /\ escalation[e].phase = "probing" => HostOf[Probed(e)] \notin deadHosts
        /\ switch[e].stage # "idle" => HostOf[switch[e].net] \notin deadHosts

FailoverInv ==
    /\ TypeOK
    /\ OneEscalation
    /\ RunsBelong
    /\ SwitchesGoSomewhere
    /\ AimsAtLiving
    /\ FlowsDuringReconnect
    /\ NoHoldLeftBehind

-----------------------------------------------------------------------------
(* Lemmas about the operators.                                             *)

\* A set of positions that is not empty has a smallest one.
LEMMA MinInSet ==
    ASSUME NEW S \in SUBSET DOMAIN Registered, S # {}
    PROVE  Min(S) \in S /\ \A k \in S : Min(S) <= k
<1> DEFINE Less == OpToRel(<, Nat)
<1>1. S \subseteq Nat
    BY FailoverAssumption
<1>2. \E x \in S : \A y \in S : ~ (<<y, x>> \in Less)
    <2>1. IsWellFoundedOn(Less, Nat)
        BY NatLessThanWellFounded
    <2> HIDE DEF Less
    <2>2. QED
        BY <1>1, <2>1, WFMin
<1>3. \E x \in S : \A y \in S : x =< y
    <2>1. PICK x \in S : \A y \in S : ~ (<<y, x>> \in Less)
        BY <1>2
    <2>2. \A y \in S : ~ (y < x)
        BY <1>1, <2>1 DEF OpToRel
    <2>3. QED
        BY <1>1, <2>2
<1>4. QED
    BY <1>3 DEF Min

LEMMA RegisteredNetworks ==
    /\ \A k \in DOMAIN Registered : Registered[k] \in Networks
    /\ \A n \in Networks : HostOf[n] \in Hosts
    /\ 0 \notin DOMAIN Registered
BY FailoverAssumption DEF Networks, Hosts

LEMMA TargetIdType ==
    ASSUME TypeOK, NEW host
    PROVE  TargetId(host) \in {NetId[n] : n \in Networks} \cup {None}
<1>1. NetworksAt(host) # {} => Registered[Min(NetworksAt(host))] \in Networks
    BY MinInSet, RegisteredNetworks DEF NetworksAt
<1>2. QED
    BY <1>1 DEF TargetId, TypeOK

\* resume() lets waiting requests through and does nothing else.
LEMMA ResumedType ==
    ASSUME TypeOK
    PROVE  /\ Resumed(switch) \in [Callers -> SwitchType]
           /\ \A c \in Callers : /\ Resumed(switch)[c].stage = switch[c].stage
                                 /\ Resumed(switch)[c].net = switch[c].net
BY DEF Resumed, TypeOK, SwitchType

\* With one escalation a run has no other to settle with it.
LEMMA SettlesAlone ==
    ASSUME FailoverInv, NEW e \in Escalations, NEW switched \in BOOLEAN,
           NEW id \in {NetId[n] : n \in Networks} \cup {None}, Settles(e, id, switched)
    PROVE  /\ escalation' \in [Escalations -> EscalationType]
           /\ escalation'[e].phase = "settled"
           /\ \A x \in Escalations \ {e} : escalation'[x] = escalation[x]
           /\ failoverPromise' = None
<1>1. \A x \in Escalations : escalation[x] \in EscalationType /\ escalation[x].phase # "sharing"
    BY DEF FailoverInv, TypeOK, OneEscalation
<1> DEFINE r(x) == [escalation[x] EXCEPT !.phase = "settled", !.id = id, !.switched = switched]
<1>2. \A x \in Escalations : r(x) \in EscalationType /\ r(x).phase = "settled"
    BY <1>1 DEF EscalationType, Phases
<1>3. /\ escalation' = [x \in Escalations |-> IF x = e THEN r(x) ELSE escalation[x]]
      /\ failoverPromise' = None
    BY <1>1 DEF Settles
<1> HIDE DEF r
<1>4. QED
    BY <1>1, <1>2, <1>3

\* The run in flight, unless a user's switch reset it, is that of e.
LEMMA OwnPromise ==
    ASSUME FailoverInv, NEW e \in Escalations, escalation[e].phase # "idle"
    PROVE  failoverPromise \in {e, None}
BY DEF FailoverInv, OneEscalation

\* The loop goes on with a candidate that is not dead, or settles.
LEMMA GoesOnResult ==
    ASSUME FailoverInv, NEW e \in Escalations, NEW i, NEW dead, NEW promise,
           NEW id \in {NetId[n] : n \in Networks} \cup {None},
           GoesOn(e, id, i, dead, promise)
    PROVE  /\ escalation' \in [Escalations -> EscalationType]
           /\ \A x \in Escalations \ {e} : escalation'[x] = escalation[x]
           /\ \/ escalation'[e].phase = "settled" /\ failoverPromise' = None
              \/ /\ escalation'[e].phase = "probing" /\ failoverPromise' = promise
                 /\ escalation'[e].at \in DOMAIN Registered
                 /\ HostOf[Registered[escalation'[e].at]] \notin dead
<1>1. CASE AliveFrom(id, i, dead) = {}
    BY <1>1, SettlesAlone DEF GoesOn
<1>2. CASE AliveFrom(id, i, dead) # {}
    <2> DEFINE k == Min(AliveFrom(id, i, dead))
    <2>1. k \in AliveFrom(id, i, dead)
        BY <1>2, MinInSet DEF AliveFrom, Candidates
    <2>2. k \in DOMAIN Registered /\ HostOf[Registered[k]] \notin dead
        BY <2>1 DEF AliveFrom, Candidates
    <2>3. /\ escalation' = [escalation EXCEPT ![e].phase = "probing", ![e].id = id, ![e].at = k]
          /\ failoverPromise' = promise
        BY <1>2 DEF GoesOn
    <2> DEFINE r == [escalation[e] EXCEPT !.phase = "probing", !.id = id, !.at = k]
    <2>4. escalation \in [Escalations -> EscalationType]
        BY DEF FailoverInv, TypeOK
    <2>5. escalation' = [escalation EXCEPT ![e] = r]
        BY <2>3, <2>4 DEF EscalationType
    <2> HIDE DEF k
    <2>6. r \in EscalationType /\ r.phase = "probing" /\ r.at = k
        BY <2>2, <2>4 DEF EscalationType, Phases
    <2> HIDE DEF r
    <2>7. escalation'[e] = r /\ \A x \in Escalations \ {e} : escalation'[x] = escalation[x]
        BY <2>4, <2>5
    <2>8. escalation' \in [Escalations -> EscalationType]
        BY <2>4, <2>5, <2>6
    <2>9. QED
        BY <2>2, <2>3, <2>6, <2>7, <2>8
<1>3. QED
    BY <1>1, <1>2

-----------------------------------------------------------------------------
(* Every step preserves the invariant.                                     *)

LEMMA FailoverInit == Init => FailoverInv
<1> SUFFICES ASSUME Init PROVE FailoverInv
    OBVIOUS
<1>1. TypeOK
    <2>1. NoEscalation \in EscalationType /\ NoSwitch \in SwitchType
        BY DEF EscalationType, SwitchType, NoEscalation, NoSwitch, Phases, Stages
    <2>2. 0 \in 0..MaxShortTimers
        BY FailoverAssumption
    <2>3. QED
        BY <2>1, <2>2 DEF Init, TypeOK
<1>2. OneEscalation
    BY FailoverAssumption DEF Init, OneEscalation, NoEscalation
<1>3. RunsBelong /\ SwitchesGoSomewhere /\ AimsAtLiving
    BY FailoverAssumption DEF Init, RunsBelong, SwitchesGoSomewhere, AimsAtLiving, NoEscalation,
       NoSwitch, Callers
<1>4. FlowsDuringReconnect /\ NoHoldLeftBehind
    BY DEF Init, FlowsDuringReconnect, NoHoldLeftBehind
<1>5. QED
    BY <1>1, <1>2, <1>3, <1>4 DEF FailoverInv

\* Nothing but the pauses, their timers and the requests they let through.
LEMMA PausesKeepInv ==
    ASSUME FailoverInv, TypeOK',
           UNCHANGED <<isBlocked, escalationPromise, escalation, failoverPromise, deadHosts>>,
           heldBy' # "429" \/ heldBy' = heldBy,
           \A c \in Callers : switch'[c].stage = switch[c].stage /\ switch'[c].net = switch[c].net
    PROVE  FailoverInv'
<1>1. OneEscalation'
    BY DEF FailoverInv, OneEscalation
<1>2. RunsBelong' /\ SwitchesGoSomewhere' /\ AimsAtLiving'
    BY DEF FailoverInv, RunsBelong, SwitchesGoSomewhere, AimsAtLiving, Callers, Probed
<1>3. FlowsDuringReconnect' /\ NoHoldLeftBehind'
    BY DEF FailoverInv, FlowsDuringReconnect, NoHoldLeftBehind
<1>4. QED
    BY <1>1, <1>2, <1>3 DEF FailoverInv

LEMMA ClassifiedInv ==
    ASSUME FailoverInv, NEW h \in Hosts, Classified(h)
    PROVE  FailoverInv'
<1>1. CASE UNCHANGED <<heldBy, longTimers, escalationPromise, escalation>>
    <2>1. TypeOK'
        BY <1>1 DEF Classified, FailoverInv, TypeOK, network
    <2>2. QED
        BY <1>1, <2>1, PausesKeepInv DEF Classified
<1>2. CASE ~ UNCHANGED <<heldBy, longTimers, escalationPromise, escalation>>
    <2> DEFINE r == [NoEscalation EXCEPT !.phase = "resolving", !.host = h]
    <2>1. PICK e \in Escalations :
              /\ escalationPromise = None /\ escalationPromise' = e
              /\ escalation' = [escalation EXCEPT ![e] = r]
              /\ heldBy' = IF Held THEN heldBy ELSE "429"
              /\ longTimers' = IF Held THEN longTimers ELSE longTimers \cup {e}
        BY <1>2 DEF Classified
    <2>2. UNCHANGED <<isBlocked, shortTimers, failoverPromise, deadHosts, switch, network>>
          /\ classifying' = classifying \ {h}
        BY DEF Classified
    <2>3. r \in EscalationType /\ r.phase = "resolving"
        BY DEF EscalationType, NoEscalation, Phases
    <2> HIDE DEF r
    <2>4. TypeOK'
        BY <2>1, <2>2, <2>3 DEF FailoverInv, TypeOK, network
    <2>5. \A x \in Escalations : escalation[x].phase = "idle" /\ switch[x].stage = "idle"
        BY <2>1, FailoverAssumption DEF FailoverInv, OneEscalation, RunsBelong
    <2>6. /\ escalation'[e].phase = "resolving"
          /\ \A x \in Escalations \ {e} : escalation'[x] = escalation[x]
        BY <2>1, <2>3 DEF FailoverInv, TypeOK
    <2>7. failoverPromise' = None
        BY <2>1, <2>2 DEF FailoverInv, OneEscalation
    <2>8. OneEscalation'
        BY <2>1, <2>5, <2>6, <2>7 DEF OneEscalation
    <2>9. RunsBelong' /\ SwitchesGoSomewhere' /\ AimsAtLiving'
        BY <2>2, <2>5, <2>6, <2>7, FailoverAssumption
        DEF FailoverInv, RunsBelong, SwitchesGoSomewhere, AimsAtLiving, Probed
    <2>10. FlowsDuringReconnect' /\ NoHoldLeftBehind'
        BY <2>1, <2>5, <2>6, FailoverAssumption DEF FlowsDuringReconnect, NoHoldLeftBehind
    <2>11. QED
        BY <2>4, <2>8, <2>9, <2>10 DEF FailoverInv
<1>3. QED
    BY <1>1, <1>2

\* The one escalation e moves on, by itself or with the end of its run.
LEMMA EscalationMoves ==
    ASSUME FailoverInv, TypeOK', NEW e \in Escalations, escalation[e].phase # "idle",
           UNCHANGED <<isBlocked, escalationPromise, heldBy>>,
           \A x \in Escalations \ {e} : escalation'[x] = escalation[x],
           \A c \in Callers \ {e} : switch'[c] = switch[c],
           switch'[e].stage = "idle",
           \/ escalation'[e].phase = "settled" /\ failoverPromise' = None
           \/ /\ escalation'[e].phase = "probing" /\ failoverPromise' \in {e, None}
              /\ escalation'[e].at \in DOMAIN Registered
              /\ HostOf[Probed(e)'] \notin deadHosts'
    PROVE  FailoverInv'
<1>1. escalationPromise = e
    BY DEF FailoverInv, OneEscalation
<1>2. \A x \in Escalations \ {e} :
          /\ escalation[x].phase = "idle" /\ escalation'[x].phase = "idle"
          /\ switch[x].stage = "idle" /\ switch'[x].stage = "idle"
    BY <1>1 DEF FailoverInv, OneEscalation, RunsBelong, Callers
<1>3. OneEscalation'
    BY <1>1, <1>2, FailoverAssumption DEF OneEscalation
<1>4. RunsBelong'
    BY <1>2, FailoverAssumption DEF RunsBelong
<1>5. SwitchesGoSomewhere'
    BY DEF FailoverInv, SwitchesGoSomewhere, Callers
<1>6. AimsAtLiving'
    BY <1>2 DEF AimsAtLiving
<1>7. FlowsDuringReconnect'
    BY <1>2 DEF FlowsDuringReconnect
<1>8. NoHoldLeftBehind'
    BY DEF FailoverInv, NoHoldLeftBehind
<1>9. QED
    BY <1>3, <1>4, <1>5, <1>6, <1>7, <1>8 DEF FailoverInv

LEMMA NotConnecting ==
    ASSUME FailoverInv, NEW e \in Escalations, escalation[e].phase # "connecting"
    PROVE  switch[e].stage = "idle"
BY DEF FailoverInv, RunsBelong

LEMMA ResolveInv ==
    ASSUME FailoverInv, NEW e \in Escalations, Resolve(e)
    PROVE  FailoverInv'
<1> DEFINE host == escalation[e].host
           id == TargetId(host)
           dead == deadHosts \cup {host}
<1>1. /\ escalation[e].phase = "resolving"
      /\ UNCHANGED <<limiter, classifying, escalationPromise, switch, network>>
    BY DEF Resolve
<1>2. id \in {NetId[n] : n \in Networks} \cup {None}
    BY TargetIdType DEF FailoverInv
<1>3. failoverPromise = None
    BY <1>1 DEF FailoverInv, OneEscalation, RunsBelong
<1>4. switch[e].stage = "idle"
    BY <1>1, NotConnecting
<1>5. CASE ~ Eligible(host)
    <2>1. Settles(e, None, FALSE) /\ deadHosts' = deadHosts
        BY <1>5 DEF Resolve
    <2>2. /\ escalation' \in [Escalations -> EscalationType]
          /\ escalation'[e].phase = "settled"
          /\ \A x \in Escalations \ {e} : escalation'[x] = escalation[x]
          /\ failoverPromise' = None
        BY <2>1, SettlesAlone
    <2>3. TypeOK'
        BY <1>1, <2>1, <2>2 DEF FailoverInv, TypeOK, limiter, network
    <2>4. QED
        BY <1>1, <1>4, <2>2, <2>3, EscalationMoves DEF limiter
<1>6. CASE Eligible(host)
    <2>1. deadHosts' = dead /\ (Settles(e, id, TRUE) \/ GoesOn(e, id, 1, dead, e))
        BY <1>3, <1>6 DEF Resolve
    <2>2. host \in Hosts
        <3>1. PICK k \in DOMAIN Registered : HostOf[Registered[k]] = host
            BY <1>6 DEF Eligible, NetworksAt
        <3>2. QED
            BY <3>1, RegisteredNetworks
    <2> HIDE DEF id
    <2>3. /\ escalation' \in [Escalations -> EscalationType]
          /\ \A x \in Escalations \ {e} : escalation'[x] = escalation[x]
          /\ \/ escalation'[e].phase = "settled" /\ failoverPromise' = None
             \/ /\ escalation'[e].phase = "probing" /\ failoverPromise' \in {e, None}
                /\ escalation'[e].at \in DOMAIN Registered
                /\ HostOf[Registered[escalation'[e].at]] \notin dead
        BY <1>2, <2>1, SettlesAlone, GoesOnResult
    <2>4. TypeOK'
        BY <1>1, <2>1, <2>2, <2>3 DEF FailoverInv, TypeOK, limiter, network
    <2>5. QED
        BY <1>1, <1>4, <2>1, <2>3, <2>4, EscalationMoves DEF limiter, Probed
<1>7. QED
    BY <1>5, <1>6

LEMMA ProbeFailsInv ==
    ASSUME FailoverInv, NEW e \in Escalations, ProbeFails(e)
    PROVE  FailoverInv'
<1>1. /\ escalation[e].phase = "probing"
      /\ deadHosts' = deadHosts \cup {HostOf[Probed(e)]}
      /\ UNCHANGED <<limiter, classifying, escalationPromise, switch, network>>
    BY DEF ProbeFails
<1>2. GoesOn(e, escalation[e].id, escalation[e].at + 1, deadHosts', failoverPromise)
    BY DEF ProbeFails
<1>3. /\ HostOf[Probed(e)] \in Hosts
      /\ escalation[e].id \in {NetId[n] : n \in Networks} \cup {None}
    BY <1>1, RegisteredNetworks DEF FailoverInv, RunsBelong, Probed, TypeOK, EscalationType
<1>4. /\ escalation' \in [Escalations -> EscalationType]
      /\ \A x \in Escalations \ {e} : escalation'[x] = escalation[x]
      /\ \/ escalation'[e].phase = "settled" /\ failoverPromise' = None
         \/ /\ escalation'[e].phase = "probing" /\ failoverPromise' = failoverPromise
            /\ escalation'[e].at \in DOMAIN Registered
            /\ HostOf[Registered[escalation'[e].at]] \notin deadHosts'
    BY <1>2, <1>3, GoesOnResult
<1>5. switch[e].stage = "idle"
    BY <1>1, NotConnecting
<1>6. TypeOK'
    BY <1>1, <1>3, <1>4 DEF FailoverInv, TypeOK, limiter, network
<1>7. failoverPromise \in {e, None}
    BY <1>1, OwnPromise
<1>8. QED
    BY <1>1, <1>4, <1>5, <1>6, <1>7, EscalationMoves DEF limiter, Probed

LEMMA FailoverSwitchFailsInv ==
    ASSUME FailoverInv, NEW e \in Escalations, FailoverSwitchFails(e)
    PROVE  FailoverInv'
<1>1. /\ switch[e].stage # "idle"
      /\ status' = "disconnected"
      /\ switch' = [switch EXCEPT ![e] = NoSwitch]
      /\ deadHosts' = deadHosts \cup {HostOf[switch[e].net]}
      /\ UNCHANGED <<limiter, classifying, escalationPromise, selectedNetwork, endpoint>>
    BY DEF FailoverSwitchFails, Disconnects
<1>2. GoesOn(e, escalation[e].id, escalation[e].at + 1, deadHosts', failoverPromise)
    BY DEF FailoverSwitchFails
<1>3. /\ HostOf[switch[e].net] \in Hosts
      /\ escalation[e].id \in {NetId[n] : n \in Networks} \cup {None}
    BY <1>1, RegisteredNetworks
    DEF FailoverInv, SwitchesGoSomewhere, Callers, TypeOK, EscalationType
<1>4. /\ escalation' \in [Escalations -> EscalationType]
      /\ \A x \in Escalations \ {e} : escalation'[x] = escalation[x]
      /\ \/ escalation'[e].phase = "settled" /\ failoverPromise' = None
         \/ /\ escalation'[e].phase = "probing" /\ failoverPromise' = failoverPromise
            /\ escalation'[e].at \in DOMAIN Registered
            /\ HostOf[Registered[escalation'[e].at]] \notin deadHosts'
    BY <1>2, <1>3, GoesOnResult
<1>5. NoSwitch \in SwitchType /\ NoSwitch.stage = "idle"
    BY DEF NoSwitch, SwitchType, Stages
<1>6. /\ switch' \in [Callers -> SwitchType]
      /\ switch'[e].stage = "idle"
      /\ \A c \in Callers \ {e} : switch'[c] = switch[c]
    BY <1>1, <1>5 DEF FailoverInv, TypeOK, Callers
<1>7. TypeOK'
    BY <1>1, <1>3, <1>4, <1>6 DEF FailoverInv, TypeOK, limiter
<1>8. escalation[e].phase = "connecting"
    BY <1>1 DEF FailoverInv, RunsBelong
<1>9. failoverPromise \in {e, None}
    BY <1>8, OwnPromise
<1>10. QED
    BY <1>1, <1>4, <1>6, <1>7, <1>8, <1>9, EscalationMoves DEF limiter, Probed

\* A step of a switch that is not the end of a failover run.
LEMMA SwitchKeepsInv ==
    ASSUME FailoverInv, TypeOK',
           UNCHANGED <<heldBy, isBlocked, escalationPromise, escalation>>,
           failoverPromise' \in {failoverPromise, None}, deadHosts' \subseteq deadHosts,
           \A c \in Callers : switch'[c].stage # "idle" => switch'[c].net \in Networks,
           \A e \in Escalations : switch'[e].stage # "idle" =>
               switch[e].stage # "idle" /\ switch'[e].net = switch[e].net
    PROVE  FailoverInv'
<1>1. OneEscalation'
    BY DEF FailoverInv, OneEscalation
<1>2. RunsBelong'
    BY FailoverAssumption DEF FailoverInv, RunsBelong
<1>3. SwitchesGoSomewhere'
    BY DEF SwitchesGoSomewhere
<1>4. AimsAtLiving'
    BY DEF FailoverInv, AimsAtLiving, Probed
<1>5. FlowsDuringReconnect' /\ NoHoldLeftBehind'
    BY DEF FailoverInv, FlowsDuringReconnect, NoHoldLeftBehind
<1>6. QED
    BY <1>1, <1>2, <1>3, <1>4, <1>5 DEF FailoverInv

LEMMA PausesInv ==
    ASSUME FailoverInv,
           \/ \E h \in Hosts : Throttled(h)
           \/ Unavailable
           \/ FireShort
           \/ \E e \in Escalations : FireLong(e)
    PROVE  FailoverInv'
<1> USE FailoverAssumption
<1>1. TypeOK
    BY DEF FailoverInv
<1>2. ASSUME NEW h \in Hosts, Throttled(h) PROVE FailoverInv'
    <2>1. TypeOK'
        BY <1>1, <1>2 DEF Throttled, TypeOK, limiter, network
    <2>2. QED
        BY <1>2, <2>1, PausesKeepInv DEF Throttled, limiter
<1>3. CASE Unavailable
    <2>1. TypeOK'
        BY <1>1, <1>3 DEF Unavailable, TypeOK, network
    <2>2. QED
        BY <1>3, <2>1, PausesKeepInv DEF Unavailable
<1>4. CASE FireShort
    <2>1. TypeOK'
        BY <1>1, <1>4, ResumedType DEF FireShort, TypeOK, network
    <2>2. QED
        BY <1>1, <1>4, <2>1, ResumedType, PausesKeepInv DEF FireShort
<1>5. ASSUME NEW e \in Escalations, FireLong(e) PROVE FailoverInv'
    <2>1. TypeOK'
        BY <1>1, <1>5, ResumedType DEF FireLong, TypeOK, network
    <2>2. QED
        BY <1>1, <1>5, <2>1, ResumedType, PausesKeepInv DEF FireLong
<1>6. QED
    BY <1>2, <1>3, <1>4, <1>5

LEMMA ProbeSucceedsInv ==
    ASSUME FailoverInv, NEW e \in Escalations, ProbeSucceeds(e)
    PROVE  FailoverInv'
<1> DEFINE s == [NoSwitch EXCEPT !.stage = "loading", !.net = Probed(e)]
           r == [escalation[e] EXCEPT !.phase = "connecting"]
<1>1. /\ escalation[e].phase = "probing" /\ heldBy' = "nobody" /\ status' = "connecting"
      /\ UNCHANGED <<isBlocked, shortTimers, longTimers, classifying, escalationPromise,
                     failoverPromise, deadHosts, selectedNetwork, endpoint>>
    BY DEF ProbeSucceeds
<1>2. TypeOK
    BY DEF FailoverInv
<1>3. escalation' = [escalation EXCEPT ![e] = r]
    BY <1>2 DEF ProbeSucceeds, TypeOK, EscalationType
<1>4. switch' = [Resumed(switch) EXCEPT ![e] = s]
    BY DEF ProbeSucceeds
<1>5. Probed(e) \in Networks /\ HostOf[Probed(e)] \notin deadHosts
    BY <1>1, RegisteredNetworks DEF FailoverInv, RunsBelong, AimsAtLiving, Probed
<1>6. s \in SwitchType /\ s.net = Probed(e)
    BY <1>5 DEF NoSwitch, SwitchType, Stages
<1>7. r \in EscalationType /\ r.phase = "connecting"
    BY <1>2 DEF TypeOK, EscalationType, Phases
<1> HIDE DEF s, r
<1>8. /\ escalation' \in [Escalations -> EscalationType]
      /\ escalation'[e].phase = "connecting"
      /\ \A x \in Escalations \ {e} : escalation'[x] = escalation[x]
    BY <1>2, <1>3, <1>7 DEF TypeOK
<1>9. /\ switch' \in [Callers -> SwitchType]
      /\ switch'[e].net = Probed(e)
      /\ \A c \in Callers \ {e} :
            switch'[c].stage = switch[c].stage /\ switch'[c].net = switch[c].net
    BY <1>2, <1>4, <1>6, ResumedType DEF Callers
<1>10. TypeOK'
    BY <1>1, <1>2, <1>8, <1>9 DEF TypeOK
<1>11. escalationPromise = e
    BY <1>1 DEF FailoverInv, OneEscalation
<1>12. \A x \in Escalations \ {e} :
           escalation[x].phase = "idle" /\ switch[x].stage = "idle" /\ switch'[x].stage = "idle"
    BY <1>9, <1>11 DEF FailoverInv, OneEscalation, RunsBelong, Callers
<1>13. OneEscalation'
    BY <1>1, <1>8, <1>11, <1>12 DEF FailoverInv, OneEscalation
<1>14. RunsBelong'
    BY <1>1, <1>8, <1>12 DEF FailoverInv, RunsBelong
<1>15. SwitchesGoSomewhere'
    BY <1>5, <1>9 DEF FailoverInv, SwitchesGoSomewhere
<1>16. AimsAtLiving'
    BY <1>1, <1>5, <1>8, <1>9, <1>12 DEF AimsAtLiving
<1>17. FlowsDuringReconnect' /\ NoHoldLeftBehind'
    BY <1>1 DEF FlowsDuringReconnect, NoHoldLeftBehind
<1>18. QED
    BY <1>10, <1>13, <1>14, <1>15, <1>16, <1>17 DEF FailoverInv

LEMMA ConcludeInv ==
    ASSUME FailoverInv, NEW e \in Escalations, Conclude(e)
    PROVE  FailoverInv'
<1>1. /\ escalation[e].phase = "settled"
      /\ escalation' = [escalation EXCEPT ![e] = NoEscalation]
      /\ escalationPromise' = None
      /\ UNCHANGED <<shortTimers, longTimers, classifying, failoverPromise, deadHosts, network>>
      /\ \/ heldBy' = "nobody" /\ switch' = Resumed(switch) /\ isBlocked' = isBlocked
         \/ isBlocked' = TRUE /\ heldBy' = heldBy /\ switch' = switch
    BY DEF Conclude
<1>2. TypeOK
    BY DEF FailoverInv
<1>3. NoEscalation \in EscalationType /\ NoEscalation.phase = "idle"
    BY DEF NoEscalation, EscalationType, Phases
<1>4. /\ switch' \in [Callers -> SwitchType]
      /\ \A c \in Callers : switch'[c].stage = switch[c].stage /\ switch'[c].net = switch[c].net
    BY <1>1, <1>2, ResumedType DEF TypeOK
<1>5. /\ escalation' \in [Escalations -> EscalationType]
      /\ \A x \in Escalations \ {e} : escalation'[x] = escalation[x]
      /\ escalation'[e].phase = "idle"
    BY <1>1, <1>2, <1>3 DEF TypeOK
<1>6. TypeOK'
    BY <1>1, <1>2, <1>4, <1>5 DEF TypeOK, network
<1>7. escalationPromise = e
    BY <1>1 DEF FailoverInv, OneEscalation
<1>8. \A x \in Escalations : escalation'[x].phase = "idle" /\ switch'[x].stage = "idle"
    BY <1>1, <1>4, <1>5, <1>7 DEF FailoverInv, OneEscalation, RunsBelong, Callers
<1>9. failoverPromise' = None
    BY <1>1, <1>7 DEF FailoverInv, OneEscalation, RunsBelong
<1>10. OneEscalation'
    BY <1>1, <1>8, <1>9, FailoverAssumption DEF OneEscalation
<1>11. RunsBelong' /\ AimsAtLiving'
    BY <1>8, <1>9, FailoverAssumption DEF RunsBelong, AimsAtLiving
<1>12. SwitchesGoSomewhere'
    BY <1>4 DEF FailoverInv, SwitchesGoSomewhere
<1>13. FlowsDuringReconnect' /\ NoHoldLeftBehind'
    BY <1>1, <1>8 DEF FlowsDuringReconnect, NoHoldLeftBehind
<1>14. QED
    BY <1>6, <1>10, <1>11, <1>12, <1>13 DEF FailoverInv

\* setNetwork() with a new record s of caller c.
LEMMA SwitchMoves ==
    ASSUME FailoverInv, NEW c \in Callers, NEW s \in SwitchType,
           switch' = [switch EXCEPT ![c] = s]
    PROVE  /\ switch' \in [Callers -> SwitchType]
           /\ switch'[c] = s
           /\ \A x \in Callers \ {c} : switch'[x] = switch[x]
BY DEF FailoverInv, TypeOK

LEMMA UserSwitchInv ==
    ASSUME FailoverInv, NEW u \in Users, NEW n \in Networks, UserSwitch(u, n)
    PROVE  FailoverInv'
<1> DEFINE s == [NoSwitch EXCEPT !.stage = "loading", !.net = n]
<1>1. /\ switch' = [switch EXCEPT ![u] = s]
      /\ status' = "connecting"
      /\ UNCHANGED <<limiter, classifying, escalationPromise, escalation, failoverPromise,
                     deadHosts, selectedNetwork, endpoint>>
    BY DEF UserSwitch
<1>2. s \in SwitchType /\ s.net = n
    BY DEF NoSwitch, SwitchType, Stages
<1> HIDE DEF s
<1>3. /\ switch' \in [Callers -> SwitchType] /\ switch'[u] = s
      /\ \A x \in Callers \ {u} : switch'[x] = switch[x]
    BY <1>1, <1>2, SwitchMoves DEF Callers
<1>4. TypeOK'
    BY <1>1, <1>3 DEF FailoverInv, TypeOK, limiter
<1>5. \A c \in Callers : switch'[c].stage # "idle" => switch'[c].net \in Networks
    BY <1>2, <1>3 DEF FailoverInv, SwitchesGoSomewhere
<1>6. \A e \in Escalations : switch'[e] = switch[e]
    BY <1>3, FailoverAssumption DEF Callers
<1>7. QED
    BY <1>1, <1>4, <1>5, <1>6, SwitchKeepsInv DEF limiter

\* The steps of setNetwork() between its first and its last.
LEMMA StageInv ==
    ASSUME FailoverInv, NEW c \in Callers, Loaded(c) \/ Credentials(c) \/ AssetArrives(c)
    PROVE  FailoverInv'
<1>1. TypeOK /\ switch[c] \in SwitchType
    BY DEF FailoverInv, TypeOK
<1>2. switch[c].stage # "idle"
    BY DEF Loaded, Credentials, AssetArrives
<1>3. switch[c].net \in Networks
    BY <1>2 DEF FailoverInv, SwitchesGoSomewhere
<1>4. PICK stage \in Stages \ {"idle"} :
          switch' = [switch EXCEPT ![c] = Asks(stage, switch[c].net)]
    BY DEF Loaded, Credentials, AssetArrives, Stages
<1> DEFINE s == Asks(stage, switch[c].net)
<1>5. s \in SwitchType /\ s.net = switch[c].net
    BY <1>1, <1>3 DEF Asks, SwitchType, Held, TypeOK
<1> HIDE DEF s
<1>6. /\ switch' \in [Callers -> SwitchType] /\ switch'[c] = s
      /\ \A x \in Callers \ {c} : switch'[x] = switch[x]
    BY <1>4, <1>5, SwitchMoves DEF s
<1>7. /\ UNCHANGED <<limiter, classifying, escalationPromise, escalation, status>>
      /\ failoverPromise' \in {failoverPromise, None}
      /\ deadHosts' \subseteq deadHosts
      /\ endpoint' \in {endpoint, switch[c].net}
      /\ selectedNetwork' \in {selectedNetwork, switch[c].net}
    BY DEF Loaded, Credentials, AssetArrives, network
<1>8. TypeOK'
    BY <1>1, <1>3, <1>6, <1>7 DEF TypeOK, limiter
<1>9. \A x \in Callers : switch'[x].stage # "idle" => switch'[x].net \in Networks
    BY <1>3, <1>5, <1>6 DEF FailoverInv, SwitchesGoSomewhere
<1>10. \A e \in Escalations : switch'[e].stage # "idle" =>
               switch[e].stage # "idle" /\ switch'[e].net = switch[e].net
    BY <1>2, <1>5, <1>6 DEF Callers
<1>11. QED
    BY <1>7, <1>8, <1>9, <1>10, SwitchKeepsInv DEF limiter

\* setNetwork() is over and was not the last hope of a failover run.
LEMMA SwitchOverInv ==
    ASSUME FailoverInv, NEW c \in Callers, Connected(c) \/ UserSwitchFails(c)
    PROVE  FailoverInv'
<1>1. /\ switch' = [switch EXCEPT ![c] = NoSwitch]
      /\ UNCHANGED <<limiter, classifying, escalationPromise, deadHosts, endpoint>>
      /\ status' \in {"connected", "disconnected"}
      /\ selectedNetwork' \in {selectedNetwork, None}
      /\ switch[c].stage # "idle"
    BY DEF Connected, UserSwitchFails, Disconnects
<1>2. NoSwitch \in SwitchType /\ NoSwitch.stage = "idle"
    BY DEF NoSwitch, SwitchType, Stages
<1>3. /\ switch' \in [Callers -> SwitchType]
      /\ switch'[c].stage = "idle"
      /\ \A x \in Callers \ {c} : switch'[x] = switch[x]
    BY <1>1, <1>2, SwitchMoves
<1>4. CASE c \in Users
    <2>1. UNCHANGED <<escalation, failoverPromise>>
        BY <1>4 DEF Connected, UserSwitchFails
    <2>2. TypeOK'
        BY <1>1, <1>3, <2>1 DEF FailoverInv, TypeOK, limiter
    <2>3. \A x \in Callers : switch'[x].stage # "idle" => switch'[x].net \in Networks
        BY <1>3 DEF FailoverInv, SwitchesGoSomewhere
    <2>4. \A e \in Escalations : switch'[e].stage # "idle" =>
               switch[e].stage # "idle" /\ switch'[e].net = switch[e].net
        BY <1>3, <1>4, FailoverAssumption DEF Callers
    <2>5. QED
        BY <1>1, <2>1, <2>2, <2>3, <2>4, SwitchKeepsInv DEF limiter
<1>5. CASE c \notin Users
    <2>1. c \in Escalations
        BY <1>5 DEF Callers
    <2>2. Settles(c, escalation[c].id, TRUE)
        BY <1>5 DEF Connected, UserSwitchFails
    <2>3. escalation[c].id \in {NetId[n] : n \in Networks} \cup {None}
        BY <2>1 DEF FailoverInv, TypeOK, EscalationType
    <2>4. /\ escalation' \in [Escalations -> EscalationType]
          /\ escalation'[c].phase = "settled"
          /\ \A x \in Escalations \ {c} : escalation'[x] = escalation[x]
          /\ failoverPromise' = None
        BY <2>1, <2>2, <2>3, SettlesAlone
    <2>5. TypeOK'
        BY <1>1, <1>3, <2>4 DEF FailoverInv, TypeOK, limiter
    <2>6. escalation[c].phase # "idle"
        BY <1>1, <2>1 DEF FailoverInv, RunsBelong
    <2>7. QED
        BY <1>1, <1>3, <2>1, <2>4, <2>5, <2>6, EscalationMoves DEF limiter
<1>6. QED
    BY <1>4, <1>5

LEMMA FailoverNext == FailoverInv /\ [Next]_vars => FailoverInv'
<1> SUFFICES ASSUME FailoverInv, [Next]_vars PROVE FailoverInv'
    OBVIOUS
<1>1. CASE UNCHANGED vars
    <2>1. TypeOK'
        BY <1>1 DEF FailoverInv, TypeOK, vars, limiter, network
    <2>2. QED
        BY <1>1, <2>1, PausesKeepInv DEF vars, limiter, network
<1>2. ASSUME NEW h \in Hosts, Throttled(h) \/ Classified(h) PROVE FailoverInv'
    BY <1>2, PausesInv, ClassifiedInv
<1>3. CASE Unavailable \/ FireShort
    BY <1>3, PausesInv
<1>4. ASSUME NEW e \in Escalations, FireLong(e) \/ EscalationStep(e) PROVE FailoverInv'
    BY <1>4, PausesInv, ResolveInv, ProbeFailsInv, ProbeSucceedsInv, ConcludeInv DEF EscalationStep
<1>5. ASSUME NEW u \in Users, NEW n \in Networks, UserSwitch(u, n) PROVE FailoverInv'
    BY <1>5, UserSwitchInv
<1>6. ASSUME NEW c \in Callers, SwitchStep(c) PROVE FailoverInv'
    <2>1. CASE Loaded(c) \/ Credentials(c) \/ AssetArrives(c)
        BY <2>1, StageInv
    <2>2. CASE Connected(c) \/ UserSwitchFails(c)
        BY <2>2, SwitchOverInv
    <2>3. CASE FailoverSwitchFails(c)
        <3>1. c \in Escalations
            BY <2>3 DEF FailoverSwitchFails
        <3>2. QED
            BY <2>3, <3>1, FailoverSwitchFailsInv
    <2>4. QED
        BY <1>6, <2>1, <2>2, <2>3 DEF SwitchStep
<1>7. QED
    BY <1>1, <1>2, <1>3, <1>4, <1>5, <1>6 DEF Next

-----------------------------------------------------------------------------
(* The theorems.                                                           *)

\* The inductive invariant holds of every behaviour.
THEOREM FailoverInvariant == Spec => []FailoverInv
<1>1. QED
    BY FailoverInit, FailoverNext, PTL DEF Spec

\* The escalation, the failover run and setNetwork() stay within their types.
THEOREM TypeCorrect == Spec => []TypeOK
<1>1. FailoverInv => TypeOK
    BY DEF FailoverInv
<1>2. QED
    BY <1>1, FailoverInvariant, PTL

\* However many 429s arrive while one is handled, one escalation is under way
\* and one failover run, which is its own.
THEOREM OneAtATime == Spec => []OneEscalation
<1>1. FailoverInv => OneEscalation
    BY DEF FailoverInv
<1>2. QED
    BY <1>1, FailoverInvariant, PTL

\* A failover run that reconnects is not held back by its own escalation.
THEOREM ReconnectFlows == Spec => []FlowsDuringReconnect
<1>1. FailoverInv => FlowsDuringReconnect
    BY DEF FailoverInv
<1>2. QED
    BY <1>1, FailoverInvariant, PTL

\* An escalation ends with the traffic resumed or blocked, never held.
THEOREM HoldIsLifted == Spec => []NoHoldLeftBehind
<1>1. FailoverInv => NoHoldLeftBehind
    BY DEF FailoverInv
<1>2. QED
    BY <1>1, FailoverInvariant, PTL

\* A failover run does not select a network whose host is marked dead.
THEOREM DeadStayDeselected == Spec => NeverReconnectsToDead
<1>1. FailoverInv /\ [Next]_vars =>
          [\A e \in Escalations :
              selectedNetwork' # selectedNetwork /\ AssetArrives(e)
                 => HostOf[switch[e].net] \notin deadHosts]_vars
    <2>1. ASSUME FailoverInv, NEW e \in Escalations, AssetArrives(e)
          PROVE  HostOf[switch[e].net] \notin deadHosts
        BY <2>1 DEF FailoverInv, AimsAtLiving, AssetArrives
    <2>2. QED
        BY <2>1
<1>2. QED
    BY <1>1, FailoverInvariant, PTL DEF Spec, NeverReconnectsToDead

-----------------------------------------------------------------------------
(* What the two findings about overlapping calls of setNetwork() leave     *)
(* standing: without the overlap, the SDK and the store agree, and the     *)
(* block is only put up when every candidate is dead.                      *)

\* No two calls of setNetwork() are under way at one time.
Alone ==
    \A c, d \in Callers : switch[c].stage # "idle" /\ switch[d].stage # "idle" => c = d

\* A switch points the SDK at its network before it selects it, and the wallet
\* is connected when the switch is over.
SwitchInOrder ==
    /\ status = "connected" => /\ endpoint = selectedNetwork
                               /\ \A c \in Callers : switch[c].stage = "idle"
    /\ \A c \in Callers :
          /\ switch[c].stage \in {"asset", "refresh"} => endpoint = switch[c].net
          /\ switch[c].stage = "refresh" => selectedNetwork = switch[c].net

\* Steps that take no switch from one stage to the next.
LEMMA StagesKept ==
    ASSUME SwitchInOrder, UNCHANGED network,
           \A c \in Callers : switch'[c].stage = switch[c].stage /\ switch'[c].net = switch[c].net
    PROVE  SwitchInOrder'
BY DEF SwitchInOrder, network

\* setNetwork() is called.
LEMMA StartInOrder ==
    ASSUME SwitchInOrder, NEW c \in Callers, status' = "connecting",
           UNCHANGED <<selectedNetwork, endpoint>>, switch'[c].stage = "loading",
           \A d \in Callers \ {c} :
              switch'[d].stage = switch[d].stage /\ switch'[d].net = switch[d].net
    PROVE  SwitchInOrder'
BY DEF SwitchInOrder

\* The switch that is alone moves on or is over.
LEMMA StageInOrder ==
    ASSUME FailoverInv, SwitchInOrder, Alone, NEW c \in Callers, SwitchStep(c)
    PROVE  SwitchInOrder'
<1>1. switch \in [Callers -> SwitchType] /\ switch[c].stage # "idle"
    BY DEF FailoverInv, TypeOK, SwitchStep, Loaded, Credentials, AssetArrives, Connected,
       UserSwitchFails, FailoverSwitchFails, Disconnects
<1>2. \A d \in Callers \ {c} : switch[d].stage = "idle"
    BY <1>1 DEF Alone
<1>3. status # "connected"
    BY <1>1 DEF SwitchInOrder
<1>4. /\ \A d \in Callers \ {c} : switch'[d] = switch[d]
      /\ switch'[c] \in {NoSwitch} \cup {Asks(stage, switch[c].net) : stage \in Stages}
    BY <1>1 DEF SwitchStep, Loaded, Credentials, AssetArrives, Connected, UserSwitchFails,
       FailoverSwitchFails, Disconnects, Stages
<1>5. \A stage \in Stages : \A n : Asks(stage, n).stage = stage /\ Asks(stage, n).net = n
    BY DEF Asks
<1>6. NoSwitch.stage = "idle"
    BY DEF NoSwitch
<1>7. CASE Loaded(c)
    <2>1. switch'[c] = Asks("credentials", switch[c].net) /\ UNCHANGED network
        BY <1>1, <1>7 DEF Loaded
    <2>2. QED
        BY <1>2, <1>3, <1>4, <1>5, <2>1 DEF SwitchInOrder, network, Stages
<1>8. CASE Credentials(c)
    <2>1. /\ switch'[c] = Asks("asset", switch[c].net) /\ endpoint' = switch[c].net
          /\ UNCHANGED status
        BY <1>1, <1>8 DEF Credentials
    <2>2. QED
        BY <1>2, <1>3, <1>4, <1>5, <2>1 DEF SwitchInOrder, Stages
<1>9. CASE AssetArrives(c)
    <2>1. /\ switch'[c] = Asks("refresh", switch[c].net) /\ selectedNetwork' = switch[c].net
          /\ UNCHANGED <<status, endpoint>>
          /\ switch[c].stage = "asset"
        BY <1>1, <1>9 DEF AssetArrives
    <2>2. QED
        BY <1>2, <1>3, <1>4, <1>5, <2>1 DEF SwitchInOrder, Stages
<1>10. CASE Connected(c)
    <2>1. /\ switch'[c] = NoSwitch /\ UNCHANGED <<selectedNetwork, endpoint>>
          /\ switch[c].stage = "refresh"
        BY <1>1, <1>10 DEF Connected
    <2>2. endpoint = selectedNetwork
        BY <2>1 DEF SwitchInOrder
    <2>3. QED
        BY <1>2, <1>4, <1>6, <2>1, <2>2 DEF SwitchInOrder
<1>11. CASE UserSwitchFails(c) \/ FailoverSwitchFails(c)
    <2>1. switch'[c] = NoSwitch /\ status' = "disconnected"
        BY <1>1, <1>11 DEF UserSwitchFails, FailoverSwitchFails, Disconnects
    <2>2. QED
        BY <1>2, <1>4, <1>6, <2>1 DEF SwitchInOrder
<1>12. QED
    BY <1>7, <1>8, <1>9, <1>10, <1>11 DEF SwitchStep

LEMMA SwitchInOrderNext ==
    ASSUME FailoverInv, SwitchInOrder, Alone, [Next]_vars
    PROVE  SwitchInOrder'
<1>1. TypeOK
    BY DEF FailoverInv
<1>2. CASE UNCHANGED vars \/ Unavailable \/ \E h \in Hosts : Throttled(h) \/ Classified(h)
    BY <1>2, StagesKept DEF vars, network, Unavailable, Throttled, Classified
<1>3. CASE FireShort \/ \E e \in Escalations : FireLong(e) \/ Conclude(e)
    <2>1. UNCHANGED network /\ switch' \in {switch, Resumed(switch)}
        BY <1>3 DEF FireShort, FireLong, Conclude
    <2>2. QED
        BY <1>1, <2>1, ResumedType, StagesKept
<1>4. ASSUME NEW e \in Escalations, Resolve(e) \/ ProbeFails(e) PROVE SwitchInOrder'
    BY <1>4, StagesKept DEF Resolve, ProbeFails
<1>5. ASSUME NEW e \in Escalations, ProbeSucceeds(e) PROVE SwitchInOrder'
    <2> DEFINE s == [NoSwitch EXCEPT !.stage = "loading", !.net = Probed(e)]
    <2>1. /\ switch' = [Resumed(switch) EXCEPT ![e] = s]
          /\ status' = "connecting" /\ UNCHANGED <<selectedNetwork, endpoint>>
        BY <1>5 DEF ProbeSucceeds
    <2>2. s.stage = "loading"
        BY DEF NoSwitch
    <2> HIDE DEF s
    <2>3. /\ switch'[e].stage = "loading"
          /\ \A d \in Callers \ {e} :
                switch'[d].stage = switch[d].stage /\ switch'[d].net = switch[d].net
        BY <1>1, <2>1, <2>2, ResumedType DEF Callers
    <2>4. QED
        BY <2>1, <2>3, StartInOrder DEF Callers
<1>6. ASSUME NEW u \in Users, NEW n \in Networks, UserSwitch(u, n) PROVE SwitchInOrder'
    <2> DEFINE s == [NoSwitch EXCEPT !.stage = "loading", !.net = n]
    <2>1. /\ switch' = [switch EXCEPT ![u] = s]
          /\ status' = "connecting" /\ UNCHANGED <<selectedNetwork, endpoint>>
        BY <1>6 DEF UserSwitch
    <2>2. s.stage = "loading" /\ s.net = n
        BY DEF NoSwitch
    <2> HIDE DEF s
    <2>3. /\ switch'[u].stage = "loading"
          /\ \A d \in Callers \ {u} : switch'[d] = switch[d]
        BY <1>1, <2>1, <2>2 DEF TypeOK, Callers
    <2>4. QED
        BY <2>1, <2>3, StartInOrder DEF Callers
<1>7. QED
    BY <1>2, <1>3, <1>4, <1>5, <1>6, StageInOrder DEF Next, EscalationStep

\* When no two calls of setNetwork() overlap, a connected wallet sends its
\* requests to the network it shows as selected: the user's switches, the runs
\* of the failover and their failures keep the SDK and the store together, and
\* overlap is all that ConnectedToSelected fails for.
THEOREM AloneConnectedToSelected == Spec /\ []Alone => []ConnectedToSelected
<1>1. Init => SwitchInOrder
    BY DEF Init, SwitchInOrder, NoSwitch
<1>2. FailoverInv /\ SwitchInOrder /\ Alone /\ [Next]_vars => SwitchInOrder'
    BY SwitchInOrderNext
<1>3. SwitchInOrder => ConnectedToSelected
    BY DEF SwitchInOrder, ConnectedToSelected
<1>4. QED
    BY <1>1, <1>2, <1>3, FailoverInvariant, PTL DEF Spec

\* While an escalation is under way no user switches networks.
Undisturbed == escalationPromise # None => \A u \in Users : switch[u].stage = "idle"

\* Every network with networkId id has failed.
Exhausted(id) == \A k \in Candidates(id) : HostOf[Registered[k]] \in deadHosts

\* A failover run looks among the networks with the networkId of the selected
\* one, has found those before the present one dead, and gives up on them all.
Searches(e) ==
    LET r == escalation[e] IN
    /\ r.phase = "resolving" => Eligible(r.host)
    /\ r.phase \in {"probing", "connecting"} =>
          /\ r.at \in Candidates(r.id)
          /\ \A k \in Candidates(r.id) : k < r.at => HostOf[Registered[k]] \in deadHosts
    /\ r.phase = "connecting" => switch[e].net = Probed(e)
    /\ r.phase \in {"probing", "connecting", "settled"} /\ selectedNetwork # None =>
          r.id = NetId[selectedNetwork]
    /\ r.phase = "settled" /\ ~r.switched => Exhausted(r.id)

SearchInv == \A e \in Escalations : Searches(e)

LEMMA CandidatePositions ==
    ASSUME NEW id PROVE Candidates(id) \subseteq Nat
BY FailoverAssumption DEF Candidates

\* The loop that goes on past dead candidates leaves only dead ones behind.
LEMMA GoesOnSearches ==
    ASSUME FailoverInv, NEW e \in Escalations, NEW i \in Nat, NEW dead, NEW id,
           NEW promise, GoesOn(e, id, i, dead, promise),
           \A k \in Candidates(id) : k < i => HostOf[Registered[k]] \in dead
    PROVE  /\ escalation'[e].id = id
           /\ \/ /\ escalation'[e].phase = "settled"
                 /\ \A k \in Candidates(id) : HostOf[Registered[k]] \in dead
              \/ /\ escalation'[e].phase = "probing"
                 /\ escalation'[e].at \in Candidates(id)
                 /\ \A k \in Candidates(id) :
                       k < escalation'[e].at => HostOf[Registered[k]] \in dead
<1>1. escalation \in [Escalations -> EscalationType]
    BY DEF FailoverInv, TypeOK
<1>2. \A k \in Candidates(id) \ AliveFrom(id, i, dead) : HostOf[Registered[k]] \in dead
    BY CandidatePositions DEF AliveFrom
<1>3. CASE AliveFrom(id, i, dead) = {}
    <2>1. escalation'[e].id = id /\ escalation'[e].phase = "settled"
        BY <1>1, <1>3 DEF GoesOn, Settles, EscalationType
    <2>2. QED
        BY <1>2, <1>3, <2>1
<1>4. CASE AliveFrom(id, i, dead) # {}
    <2> DEFINE first == Min(AliveFrom(id, i, dead))
    <2>1. /\ first \in AliveFrom(id, i, dead)
          /\ \A k \in AliveFrom(id, i, dead) : first <= k
        BY <1>4, MinInSet DEF AliveFrom, Candidates
    <2>2. escalation' = [escalation EXCEPT ![e].phase = "probing", ![e].id = id, ![e].at = first]
        BY <1>4 DEF GoesOn
    <2> HIDE DEF first
    <2>3. escalation'[e].id = id /\ escalation'[e].phase = "probing" /\ escalation'[e].at = first
        BY <1>1, <2>2 DEF EscalationType
    <2>4. first \in Candidates(id)
        BY <2>1 DEF AliveFrom
    <2>5. \A k \in Candidates(id) : k < first => HostOf[Registered[k]] \in dead
        BY <1>2, <2>1, <2>4, CandidatePositions
    <2>6. QED
        BY <2>3, <2>4, <2>5
<1>5. QED
    BY <1>3, <1>4

\* Steps that move no escalation and select no network.
LEMMA SearchKept ==
    ASSUME SearchInv, UNCHANGED <<escalation, selectedNetwork>>, deadHosts \subseteq deadHosts',
           \A e \in Escalations :
              escalation[e].phase = "connecting" => switch'[e].net = switch[e].net
    PROVE  SearchInv'
<1> SUFFICES ASSUME NEW e \in Escalations PROVE Searches(e)'
    BY DEF SearchInv
<1>1. Searches(e)
    BY DEF SearchInv
<1>2. Exhausted(escalation[e].id) => Exhausted(escalation[e].id)'
    BY DEF Exhausted, Candidates
<1>3. QED
    BY <1>1, <1>2 DEF Searches, Eligible, TargetId, NetworksAt, Candidates, Probed

\* A step of the escalation that is under way; the others are idle.
LEMMA SearchMoves ==
    ASSUME FailoverInv, NEW e \in Escalations, escalation[e].phase # "idle",
           \A x \in Escalations \ {e} : escalation'[x] = escalation[x], Searches(e)'
    PROVE  SearchInv'
<1> SUFFICES ASSUME NEW x \in Escalations \ {e} PROVE Searches(x)'
    BY DEF SearchInv
<1>1. escalation'[x].phase = "idle"
    BY DEF FailoverInv, OneEscalation
<1>2. QED
    BY <1>1 DEF Searches

\* A user's call of setNetwork() that is under way: nobody searches.
LEMMA NobodySearches ==
    ASSUME FailoverInv, Undisturbed, NEW u \in Users, switch[u].stage # "idle",
           escalation' = escalation
    PROVE  SearchInv'
<1>1. \A e \in Escalations : escalation'[e].phase = "idle"
    BY FailoverAssumption DEF Undisturbed, FailoverInv, OneEscalation
<1>2. QED
    BY <1>1 DEF SearchInv, Searches

LEMMA ClassifiedSearch ==
    ASSUME FailoverInv, SearchInv, NEW h \in Hosts, Classified(h)
    PROVE  SearchInv'
<1>1. UNCHANGED <<selectedNetwork, deadHosts, switch>>
    BY DEF Classified, network
<1>2. CASE escalation' = escalation
    BY <1>1, <1>2, SearchKept
<1>3. CASE escalation' # escalation
    <2> DEFINE r == [NoEscalation EXCEPT !.phase = "resolving", !.host = h]
    <2>1. PICK e \in Escalations :
              /\ Eligible(h) /\ escalationPromise = None
              /\ escalation' = [escalation EXCEPT ![e] = r]
        BY <1>3 DEF Classified
    <2>2. r.phase = "resolving" /\ r.host = h
        BY DEF NoEscalation
    <2> HIDE DEF r
    <2>3. /\ escalation'[e] = r
          /\ \A x \in Escalations \ {e} : escalation'[x].phase = "idle"
        BY <2>1, FailoverAssumption DEF FailoverInv, TypeOK, OneEscalation
    <2>4. Eligible(h)'
        BY <1>1, <2>1 DEF Eligible, TargetId, NetworksAt, Candidates
    <2>5. Searches(e)'
        BY <2>2, <2>3, <2>4 DEF Searches
    <2>6. QED
        BY <2>3, <2>5 DEF SearchInv, Searches
<1>4. QED
    BY <1>2, <1>3

LEMMA ResolveSearch ==
    ASSUME FailoverInv, SearchInv, NEW e \in Escalations, Resolve(e)
    PROVE  SearchInv'
<1> DEFINE host == escalation[e].host
           id == TargetId(host)
           dead == deadHosts \cup {host}
<1>1. escalation[e].phase = "resolving" /\ UNCHANGED <<switch, network>>
    BY DEF Resolve
<1>2. Eligible(host)
    BY <1>1 DEF SearchInv, Searches
<1>3. failoverPromise = None
    BY <1>1 DEF FailoverInv, OneEscalation, RunsBelong
<1>4. deadHosts' = dead /\ (Settles(e, id, TRUE) \/ GoesOn(e, id, 1, dead, e))
    BY <1>2, <1>3 DEF Resolve
<1>5. id \in {NetId[n] : n \in Networks} \cup {None}
    BY TargetIdType DEF FailoverInv
<1>6. selectedNetwork' = selectedNetwork /\ (selectedNetwork # None => id = NetId[selectedNetwork])
    BY <1>1 DEF TargetId, network
<1> HIDE DEF id
<1>7. CASE Settles(e, id, TRUE)
    <2>1. /\ escalation'[e].phase = "settled"
          /\ \A x \in Escalations \ {e} : escalation'[x] = escalation[x]
        BY <1>5, <1>7, SettlesAlone
    <2>2. escalation'[e].id = id /\ escalation'[e].switched = TRUE
        BY <1>7 DEF Settles, FailoverInv, TypeOK, EscalationType
    <2>3. Searches(e)'
        BY <1>6, <2>1, <2>2 DEF Searches
    <2>4. QED
        BY <1>1, <2>1, <2>3, SearchMoves
<1>8. CASE GoesOn(e, id, 1, dead, e)
    <2>1. \A x \in Escalations \ {e} : escalation'[x] = escalation[x]
        BY <1>5, <1>8, GoesOnResult
    <2>2. \A k \in Candidates(id) : k < 1 => HostOf[Registered[k]] \in dead
        BY FailoverAssumption DEF Candidates
    <2>3. /\ escalation'[e].id = id
          /\ \/ /\ escalation'[e].phase = "settled"
                /\ \A k \in Candidates(id) : HostOf[Registered[k]] \in dead
             \/ /\ escalation'[e].phase = "probing"
                /\ escalation'[e].at \in Candidates(id)
                /\ \A k \in Candidates(id) :
                      k < escalation'[e].at => HostOf[Registered[k]] \in dead
        BY <1>8, <2>2, GoesOnSearches
    <2>4. Searches(e)'
        BY <1>4, <1>6, <2>3 DEF Searches, Exhausted, Candidates
    <2>5. QED
        BY <1>1, <2>1, <2>4, SearchMoves
<1>9. QED
    BY <1>4, <1>7, <1>8

\* A candidate turns out dead, at its probe or while the run connects to it.
LEMMA CandidateFails ==
    ASSUME FailoverInv, SearchInv, NEW e \in Escalations,
           escalation[e].phase \in {"probing", "connecting"},
           deadHosts' = deadHosts \cup {HostOf[Probed(e)]},
           GoesOn(e, escalation[e].id, escalation[e].at + 1, deadHosts', failoverPromise),
           UNCHANGED selectedNetwork
    PROVE  SearchInv'
<1> DEFINE id == escalation[e].id
           at == escalation[e].at
<1>1. /\ at \in Candidates(id)
      /\ \A k \in Candidates(id) : k < at => HostOf[Registered[k]] \in deadHosts
      /\ selectedNetwork # None => id = NetId[selectedNetwork]
    BY DEF SearchInv, Searches
<1>2. id \in {NetId[n] : n \in Networks} \cup {None}
    BY DEF FailoverInv, TypeOK, EscalationType
<1>3. \A k \in Candidates(id) : k < at + 1 => HostOf[Registered[k]] \in deadHosts'
    BY <1>1, CandidatePositions DEF Probed
<1>4. GoesOn(e, id, at + 1, deadHosts', failoverPromise) /\ at + 1 \in Nat
    BY <1>1, CandidatePositions
<1> HIDE DEF id, at
<1>5. \A x \in Escalations \ {e} : escalation'[x] = escalation[x]
    BY <1>2, <1>4, GoesOnResult
<1>6. /\ escalation'[e].id = id
      /\ \/ /\ escalation'[e].phase = "settled"
            /\ \A k \in Candidates(id) : HostOf[Registered[k]] \in deadHosts'
         \/ /\ escalation'[e].phase = "probing"
            /\ escalation'[e].at \in Candidates(id)
            /\ \A k \in Candidates(id) :
                  k < escalation'[e].at => HostOf[Registered[k]] \in deadHosts'
    BY <1>3, <1>4, GoesOnSearches
<1>7. Searches(e)'
    BY <1>1, <1>6 DEF Searches, Exhausted, Candidates
<1>8. QED
    BY <1>5, <1>7, SearchMoves

LEMMA ProbeSucceedsSearch ==
    ASSUME FailoverInv, SearchInv, NEW e \in Escalations, ProbeSucceeds(e)
    PROVE  SearchInv'
<1> DEFINE s == [NoSwitch EXCEPT !.stage = "loading", !.net = Probed(e)]
<1>1. /\ escalation[e].phase = "probing"
      /\ escalation' = [escalation EXCEPT ![e].phase = "connecting"]
      /\ switch' = [Resumed(switch) EXCEPT ![e] = s]
      /\ UNCHANGED <<deadHosts, selectedNetwork>>
    BY DEF ProbeSucceeds
<1>2. s.net = Probed(e)
    BY DEF NoSwitch
<1> HIDE DEF s
<1>3. TypeOK
    BY DEF FailoverInv
<1>4. switch'[e].net = Probed(e)
    BY <1>1, <1>2, <1>3, ResumedType DEF Callers
<1>5. /\ escalation'[e].phase = "connecting"
      /\ escalation'[e].id = escalation[e].id
      /\ escalation'[e].at = escalation[e].at
      /\ \A x \in Escalations \ {e} : escalation'[x] = escalation[x]
    BY <1>1, <1>3 DEF TypeOK, EscalationType
<1>6. Searches(e)
    BY DEF SearchInv
<1>7. Probed(e)' = Probed(e)
    BY <1>5 DEF Probed
<1>8. Searches(e)'
    BY <1>1, <1>4, <1>5, <1>6, <1>7 DEF Searches, Candidates
<1>9. QED
    BY <1>1, <1>5, <1>8, SearchMoves

\* setNetwork() of a failover run moves on.
LEMMA SwitchSearch ==
    ASSUME FailoverInv, SearchInv, NEW e \in Escalations, SwitchStep(e)
    PROVE  SearchInv'
<1>1. e \notin Users /\ e \in Callers
    BY FailoverAssumption DEF Callers
<1>2. switch \in [Callers -> SwitchType] /\ switch[e].stage # "idle"
    BY DEF FailoverInv, TypeOK, SwitchStep, Loaded, Credentials, AssetArrives, Connected,
       UserSwitchFails, FailoverSwitchFails, Disconnects
<1>3. escalation[e].phase = "connecting"
    BY <1>2 DEF FailoverInv, RunsBelong
<1>4. Searches(e) /\ switch[e].net = Probed(e)
    BY <1>3 DEF SearchInv, Searches
<1>5. CASE Loaded(e) \/ Credentials(e)
    <2>1. PICK stage \in {"credentials", "asset"} :
              switch' = [switch EXCEPT ![e] = Asks(stage, switch[e].net)]
        BY <1>5 DEF Loaded, Credentials
    <2>2. \A x \in Escalations : switch'[x].net = switch[x].net
        BY <1>1, <1>2, <2>1 DEF Asks, Callers
    <2>3. UNCHANGED <<escalation, selectedNetwork, deadHosts>>
        BY <1>1, <1>5 DEF Loaded, Credentials, network
    <2>4. QED
        BY <2>2, <2>3, SearchKept
<1>6. CASE AssetArrives(e)
    <2>1. /\ switch' = [switch EXCEPT ![e] = Asks("refresh", switch[e].net)]
          /\ selectedNetwork' = switch[e].net
          /\ UNCHANGED <<escalation, deadHosts>>
        BY <1>6 DEF AssetArrives
    <2>2. switch'[e].net = switch[e].net
        BY <1>1, <1>2, <2>1 DEF Asks
    <2>3. NetId[selectedNetwork'] = escalation[e].id
        BY <1>3, <1>4, <2>1 DEF Searches, Candidates, Probed
    <2>4. Searches(e)'
        BY <1>3, <1>4, <2>1, <2>2, <2>3 DEF Searches, Candidates, Probed
    <2>5. QED
        BY <1>3, <2>1, <2>4, SearchMoves
<1>7. CASE Connected(e)
    <2>1. Settles(e, escalation[e].id, TRUE) /\ UNCHANGED selectedNetwork
        BY <1>1, <1>7 DEF Connected
    <2>2. escalation[e].id \in {NetId[n] : n \in Networks} \cup {None}
        BY DEF FailoverInv, TypeOK, EscalationType
    <2>3. /\ escalation'[e].phase = "settled"
          /\ \A x \in Escalations \ {e} : escalation'[x] = escalation[x]
        BY <2>1, <2>2, SettlesAlone
    <2>4. escalation'[e].id = escalation[e].id /\ escalation'[e].switched = TRUE
        BY <2>1 DEF Settles, FailoverInv, TypeOK, EscalationType
    <2>5. Searches(e)'
        BY <1>3, <1>4, <2>1, <2>3, <2>4 DEF Searches
    <2>6. QED
        BY <1>3, <2>3, <2>5, SearchMoves
<1>8. CASE FailoverSwitchFails(e)
    <2>1. /\ deadHosts' = deadHosts \cup {HostOf[Probed(e)]}
          /\ GoesOn(e, escalation[e].id, escalation[e].at + 1, deadHosts', failoverPromise)
          /\ UNCHANGED selectedNetwork
        BY <1>4, <1>8 DEF FailoverSwitchFails
    <2>2. QED
        BY <1>3, <2>1, CandidateFails
<1>9. QED
    BY <1>1, <1>5, <1>6, <1>7, <1>8 DEF SwitchStep, UserSwitchFails

LEMMA SearchNext ==
    ASSUME FailoverInv, SearchInv, Undisturbed, [Next]_vars
    PROVE  SearchInv'
<1>1. TypeOK
    BY DEF FailoverInv
<1>2. CASE UNCHANGED vars \/ Unavailable \/ \E h \in Hosts : Throttled(h)
    BY <1>2, SearchKept DEF vars, network, Unavailable, Throttled
<1>3. CASE FireShort \/ \E e \in Escalations : FireLong(e)
    <2>1. /\ UNCHANGED <<escalation, selectedNetwork, deadHosts>>
          /\ switch' = Resumed(switch)
        BY <1>3 DEF FireShort, FireLong, network
    <2>2. QED
        BY <1>1, <2>1, ResumedType, SearchKept DEF Callers
<1>4. ASSUME NEW e \in Escalations, ProbeFails(e) PROVE SearchInv'
    BY <1>4, CandidateFails DEF ProbeFails, network
<1>5. ASSUME NEW e \in Escalations, Conclude(e) PROVE SearchInv'
    <2>1. /\ escalation[e].phase = "settled"
          /\ escalation' = [escalation EXCEPT ![e] = NoEscalation]
        BY <1>5 DEF Conclude
    <2>2. NoEscalation.phase = "idle"
        BY DEF NoEscalation
    <2>3. /\ escalation'[e].phase = "idle"
          /\ \A x \in Escalations \ {e} : escalation'[x] = escalation[x]
        BY <1>1, <2>1, <2>2 DEF TypeOK
    <2>4. Searches(e)'
        BY <2>3 DEF Searches
    <2>5. QED
        BY <2>1, <2>3, <2>4, SearchMoves
<1>6. ASSUME NEW u \in Users, NEW n \in Networks, UserSwitch(u, n) PROVE SearchInv'
    <2>1. /\ UNCHANGED <<escalation, selectedNetwork, deadHosts>>
          /\ \A x \in Callers \ {u} : switch'[x] = switch[x]
        BY <1>1, <1>6 DEF UserSwitch, TypeOK
    <2>2. QED
        BY <2>1, SearchKept, FailoverAssumption DEF Callers
<1>7. ASSUME NEW u \in Users, SwitchStep(u) PROVE SearchInv'
    <2>1. u \notin Escalations
        BY FailoverAssumption
    <2>2. switch[u].stage # "idle" /\ escalation' = escalation
        BY <1>7, <2>1 DEF SwitchStep, Loaded, Credentials, AssetArrives, Connected,
           UserSwitchFails, FailoverSwitchFails, Disconnects
    <2>3. QED
        BY <2>2, NobodySearches
<1>8. QED
    BY <1>2, <1>3, <1>4, <1>5, <1>6, <1>7, ClassifiedSearch, ResolveSearch,
       ProbeSucceedsSearch, SwitchSearch DEF Next, EscalationStep, Callers

\* The block is put up by a run that found every network dead it may use.
BlocksExhausted ==
    [][~isBlocked /\ isBlocked'
          => \E e \in Escalations :
                /\ escalation[e].phase = "settled"
                /\ selectedNetwork # None => escalation[e].id = NetId[selectedNetwork]
                /\ Exhausted(escalation[e].id)]_vars

\* When no user switches networks during an escalation, the wallet is blocked
\* only after every network with the networkId of the selected one was found
\* dead: the loop of runFailover() leaves out none, whatever fails and when.
\* The user's switch is all that BlockedOnlyWhenExhausted fails for.
THEOREM UndisturbedBlock == Spec /\ []Undisturbed => BlocksExhausted
<1>1. Init => SearchInv
    BY DEF Init, SearchInv, Searches, NoEscalation
<1>2. FailoverInv /\ SearchInv /\ Undisturbed /\ [Next]_vars => SearchInv'
    BY SearchNext
<1>3. FailoverInv /\ SearchInv /\ [Next]_vars =>
          [~isBlocked /\ isBlocked'
             => \E e \in Escalations :
                   /\ escalation[e].phase = "settled"
                   /\ selectedNetwork # None => escalation[e].id = NetId[selectedNetwork]
                   /\ Exhausted(escalation[e].id)]_vars
    <2> SUFFICES ASSUME FailoverInv, SearchInv, Next, ~isBlocked, isBlocked'
                 PROVE  \E e \in Escalations :
                           /\ escalation[e].phase = "settled"
                           /\ selectedNetwork # None =>
                                 escalation[e].id = NetId[selectedNetwork]
                           /\ Exhausted(escalation[e].id)
        OBVIOUS
    <2>1. \E e \in Escalations : Conclude(e)
        BY DEF Next, Throttled, Classified, Unavailable, FireShort, FireLong, EscalationStep,
           Resolve, ProbeFails, ProbeSucceeds, UserSwitch, SwitchStep, Loaded, Credentials,
           AssetArrives, Connected, UserSwitchFails, FailoverSwitchFails, limiter
    <2>2. PICK e \in Escalations : Conclude(e)
        BY <2>1
    <2>3. escalation[e].phase = "settled" /\ ~escalation[e].switched
        BY <2>2 DEF Conclude
    <2>4. QED
        BY <2>3 DEF SearchInv, Searches
<1>4. QED
    BY <1>1, <1>2, <1>3, FailoverInvariant, PTL DEF Spec, BlocksExhausted

\* So is what the failover promises of the block.
THEOREM UndisturbedBlockIsExhausted == Spec /\ []Undisturbed => BlockedOnlyWhenExhausted
<1>1. [~isBlocked /\ isBlocked'
          => \E e \in Escalations :
                /\ escalation[e].phase = "settled"
                /\ selectedNetwork # None => escalation[e].id = NetId[selectedNetwork]
                /\ Exhausted(escalation[e].id)]_vars
      => [~isBlocked /\ isBlocked' /\ selectedNetwork # None
             => \E e \in Escalations :
                   escalation[e].phase = "settled" /\ escalation[e].id = NetId[selectedNetwork]]_vars
    OBVIOUS
<1>2. QED
    BY <1>1, UndisturbedBlock, PTL DEF BlocksExhausted, BlockedOnlyWhenExhausted

-----------------------------------------------------------------------------
(* Why an escalation ends: the run tries its candidates in their order.    *)

\* The candidate a run goes on to comes after those it has tried.
TriesEachOnce ==
    [][\A e \in Escalations :
          /\ escalation[e].phase \in {"probing", "connecting"}
          /\ escalation'[e].phase \in {"probing", "connecting"}
          => \/ escalation'[e].at > escalation[e].at
             \/ /\ escalation'[e].at = escalation[e].at
                /\ escalation'[e].phase = escalation[e].phase
             \/ ProbeSucceeds(e)]_vars

\* A loop that goes on from candidate i probes i or a later one, or is over.
LEMMA GoesOnLater ==
    ASSUME FailoverInv, NEW e \in Escalations, NEW i \in Nat, NEW dead, NEW id,
           NEW promise, GoesOn(e, id, i, dead, promise)
    PROVE  \/ escalation'[e].phase = "settled"
           \/ escalation'[e].at \in Nat /\ i <= escalation'[e].at
<1>1. escalation \in [Escalations -> EscalationType]
    BY DEF FailoverInv, TypeOK
<1>2. CASE AliveFrom(id, i, dead) = {}
    BY <1>1, <1>2 DEF GoesOn, Settles, EscalationType
<1>3. CASE AliveFrom(id, i, dead) # {}
    <2> DEFINE first == Min(AliveFrom(id, i, dead))
    <2>1. first \in AliveFrom(id, i, dead)
        BY <1>3, MinInSet DEF AliveFrom, Candidates
    <2>2. first \in Nat /\ i <= first
        BY <2>1, CandidatePositions DEF AliveFrom
    <2>3. escalation' = [escalation EXCEPT ![e].phase = "probing", ![e].id = id, ![e].at = first]
        BY <1>3 DEF GoesOn
    <2> HIDE DEF first
    <2>4. escalation'[e].at = first
        BY <1>1, <2>3 DEF EscalationType
    <2>5. QED
        BY <2>2, <2>4
<1>4. QED
    BY <1>2, <1>3

\* With probes that end, every escalation ends: the run checks it, and this is
\* the step it takes.  A failover run never goes back to a candidate, whatever
\* fails, shares the run or resets it, so it is over after as many tries as
\* there are networks.
THEOREM RunsAdvance == Spec => TriesEachOnce
<1> DEFINE Advances(e) ==
        /\ escalation[e].phase \in {"probing", "connecting"}
        /\ escalation'[e].phase \in {"probing", "connecting"}
        => \/ escalation'[e].at > escalation[e].at
           \/ /\ escalation'[e].at = escalation[e].at
              /\ escalation'[e].phase = escalation[e].phase
           \/ ProbeSucceeds(e)
<1>1. ASSUME FailoverInv, [Next]_vars, NEW e \in Escalations
      PROVE  Advances(e)
    <2> SUFFICES ASSUME escalation[e].phase \in {"probing", "connecting"},
                        escalation'[e].phase \in {"probing", "connecting"}
                 PROVE  Advances(e)
        OBVIOUS
    <2>1. escalation \in [Escalations -> EscalationType] /\ escalation[e].at \in Nat
        BY <1>1, FailoverAssumption DEF FailoverInv, TypeOK, EscalationType
    <2>2. escalationPromise = e
        BY <1>1 DEF FailoverInv, OneEscalation
    <2>3. CASE ProbeFails(e) \/ FailoverSwitchFails(e)
        <3>1. GoesOn(e, escalation[e].id, escalation[e].at + 1, deadHosts', failoverPromise)
            BY <2>3 DEF ProbeFails, FailoverSwitchFails
        <3>2. escalation[e].at + 1 \in Nat
            BY <2>1
        <3>3. \/ escalation'[e].phase = "settled"
              \/ escalation'[e].at \in Nat /\ escalation[e].at + 1 <= escalation'[e].at
            BY <1>1, <3>1, <3>2, GoesOnLater
        <3>4. QED
            BY <2>1, <3>3
    <2>4. CASE ProbeSucceeds(e)
        BY <2>4
    <2>5. CASE Connected(e)
        <3>1. Settles(e, escalation[e].id, TRUE)
            BY <2>5, FailoverAssumption DEF Connected
        <3>2. escalation'[e].phase = "settled"
            BY <2>1, <3>1 DEF Settles, EscalationType
        <3>3. QED
            BY <3>2
    <2>6. CASE escalation' = escalation
        BY <2>6
    <2>7. ASSUME NEW x \in Escalations,
                 EscalationStep(x) \/ Connected(x) \/ FailoverSwitchFails(x)
          PROVE  x = e
        <3>1. escalation[x].phase # "idle"
            BY <1>1, <2>7 DEF EscalationStep, Resolve, ProbeFails, ProbeSucceeds, Conclude,
               Connected, FailoverSwitchFails, Disconnects, FailoverInv, RunsBelong
        <3>2. QED
            BY <1>1, <2>2, <3>1 DEF FailoverInv, OneEscalation
    <2>8. ~Resolve(e) /\ ~Conclude(e)
        BY DEF Resolve, Conclude
    <2>9. \/ escalation' = escalation
          \/ \E x \in Escalations : EscalationStep(x) \/ Connected(x) \/ FailoverSwitchFails(x)
        <3>1. ASSUME NEW h \in Hosts, Classified(h) PROVE escalation' = escalation
            BY <2>2, <3>1, FailoverAssumption DEF Classified
        <3>2. ASSUME NEW c \in Callers, SwitchStep(c)
              PROVE  \/ escalation' = escalation
                     \/ c \in Escalations /\ (Connected(c) \/ FailoverSwitchFails(c))
            BY <3>2 DEF SwitchStep, Loaded, Credentials, AssetArrives, Connected,
               UserSwitchFails, FailoverSwitchFails, Callers
        <3>3. QED
            BY <1>1, <3>1, <3>2 DEF Next, vars, Throttled, Unavailable, FireShort, FireLong,
               UserSwitch
    <2>10. QED
        BY <2>3, <2>4, <2>5, <2>6, <2>7, <2>8, <2>9 DEF EscalationStep
<1>2. FailoverInv /\ [Next]_vars => [\A e \in Escalations : Advances(e)]_vars
    BY <1>1
<1>3. QED
    BY <1>2, FailoverInvariant, PTL DEF Spec, TriesEachOnce

=============================================================================
