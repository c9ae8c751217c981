------------------------------ MODULE Failover -------------------------------
(***************************************************************************)
(* What the wallet does when an RPC endpoint answers 429: the escalation   *)
(* of src/providers/rate_limiter.ts, the failover run of rpc_failover.ts   *)
(* and setNetwork() of src/stores/network.ts, which the user and the       *)
(* failover both call.                                                     *)
(*                                                                         *)
(* All three are async functions.  One action is the stretch between two   *)
(* awaits, and anything may happen at an await.  Of the limiter only the   *)
(* modes matter here (see AdmissionGate): nobody passes while it is held,  *)
(* resume() lets through whoever waits, block() rejects for good.  A       *)
(* timer of pause() may fire at any time, except that the long one of an   *)
(* escalation outlasts its probes.                                         *)
(***************************************************************************)
EXTENDS Integers, FiniteSets, Sequences, SequencesExt

CONSTANTS
    Registered,        \* allNetworks, in registration order
    NetId, HostOf,     \* network -> networkId, host of its URL
    ServesInfo,        \* the networks with an /ext/info endpoint
    ForeignHosts,      \* hosts of third parties
    Users,             \* callers of setNetwork(net) other than the failover
    Escalations,       \* identities of runs of runEndpointEscalation()
    None,
    MaxShortTimers,    \* bound: timers of 503 pauses pending at one time
    MaxClassifying     \* bound: hosts being classified at one time

Networks == {Registered[k] : k \in DOMAIN Registered}
Hosts    == {HostOf[n] : n \in Networks} \cup ForeignHosts
Callers  == Users \cup Escalations

ASSUME FailoverAssumption ==
    /\ Registered \in Seq(Networks)
    /\ Users \cap Escalations = {}
    /\ None \notin Networks \cup Hosts \cup Escalations
    /\ MaxShortTimers \in Nat

VARIABLES
    heldBy,            \* who paused the limiter: "nobody", "503", "429"
    isBlocked,
    shortTimers,       \* timers of 503 pauses still pending
    longTimers,        \* escalations whose 600 s timer is still pending
    classifying,       \* hosts in await isFailoverEligibleHost()
    escalationPromise, \* the escalation in flight, or None
    escalation,        \* [Escalations -> its progress]
    failoverPromise,   \* the escalation whose failover run is in flight, or None
    deadHosts,
    switch,            \* [Callers -> progress of its setNetwork()]
    selectedNetwork, status,
    endpoint           \* the network the SDK sends its requests to

limiter == <<heldBy, isBlocked, shortTimers, longTimers>>
network == <<selectedNetwork, status, endpoint>>
vars == <<limiter, classifying, escalationPromise, escalation, failoverPromise,
          deadHosts, switch, network>>

Phases == {"idle", "resolving", "probing", "connecting", "sharing", "settled"}
Stages == {"idle", "loading", "credentials", "asset", "refresh"}

EscalationType == [phase : Phases, host : Hosts \cup {None},
                   id : {NetId[n] : n \in Networks} \cup {None},
                   at : DOMAIN Registered \cup {0}, switched : BOOLEAN]
SwitchType     == [stage : Stages, net : Networks \cup {None}, sent : BOOLEAN]

NoEscalation == [phase |-> "idle", host |-> None, id |-> None, at |-> 0, switched |-> FALSE]
NoSwitch     == [stage |-> "idle", net |-> None, sent |-> FALSE]

-----------------------------------------------------------------------------
(* The limiter, as its callers see it.                                     *)

Held == heldBy # "nobody"

\* A request that is made now goes out at once or waits in the limiter.
Asks(stage, n) == [stage |-> stage, net |-> n, sent |-> ~Held /\ ~isBlocked]

InRequest(s) == s.stage \in {"credentials", "asset", "refresh"}

\* resume(): whoever waits behind the pause is let through.
Resumed(sw) ==
    IF ~Held \/ isBlocked THEN sw
    ELSE [c \in Callers |-> IF InRequest(sw[c]) THEN [sw[c] EXCEPT !.sent = TRUE] ELSE sw[c]]

\* A request has its answer: from the network, or the rejection of block().
Answerable(c) == switch[c].sent \/ isBlocked

-----------------------------------------------------------------------------
(* resolveFailoverCandidates()                                             *)

\* Networks are named by their positions in the list.
NetworksAt(host) == {k \in DOMAIN Registered : HostOf[Registered[k]] = host}

\* The networkId a failed host is replaced in: that of the selected network,
\* and before the first connection that of the host itself.
TargetId(host) ==
    IF selectedNetwork # None THEN NetId[selectedNetwork]
    ELSE IF NetworksAt(host) = {} THEN None ELSE NetId[Registered[Min(NetworksAt(host))]]

Candidates(id) == {k \in DOMAIN Registered : NetId[Registered[k]] = id}

Eligible(host) == NetworksAt(host) \cap Candidates(TargetId(host)) # {}

-----------------------------------------------------------------------------
Init ==
    /\ heldBy = "nobody"
    /\ isBlocked = FALSE
    /\ shortTimers = 0
    /\ longTimers = {}
    /\ classifying = {}
    /\ escalationPromise = None
    /\ escalation = [e \in Escalations |-> NoEscalation]
    /\ failoverPromise = None
    /\ deadHosts = {}
    /\ switch = [c \in Callers |-> NoSwitch]
    /\ selectedNetwork = None
    /\ status = "disconnected"
    /\ endpoint = None

-----------------------------------------------------------------------------
(* Throttle responses.                                                     *)

\* Hosts the app has requests out to.
Contacted ==
    {HostOf[n] : n \in ({endpoint, selectedNetwork} \cup
                        {switch[c].net : c \in {x \in Callers : InRequest(switch[x])}}) \ {None}}
        \cup ForeignHosts

\* escalateThrottle(): a 429, or a streak of opaque failures, from a host.
Throttled(h) ==
    /\ ~isBlocked
    /\ h \in Contacted
    /\ Cardinality(classifying) < MaxClassifying
    /\ classifying' = classifying \cup {h}
    /\ UNCHANGED <<limiter, escalationPromise, escalation, failoverPromise, deadHosts, switch, network>>

\* A host that failover cannot replace, or could not classify, only gets a
\* cooldown of its own.  Otherwise runEndpointEscalation(): who comes while an
\* escalation is in flight shares it, else traffic is paused and one starts.
Classified_notShared(h) ==
    /\ h \in classifying
    /\ classifying' = classifying \ {h}
    /\ \/ UNCHANGED <<heldBy, longTimers, escalationPromise, escalation>>
       \/ /\ Eligible(h)
          /\ \E e \in Escalations \ longTimers :
                /\ escalation[e].phase = "idle"
                /\ escalationPromise' = e
                /\ escalation' = [escalation EXCEPT ![e] =
                                     [NoEscalation EXCEPT !.phase = "resolving", !.host = h]]
                /\ heldBy' = IF Held THEN heldBy ELSE "429"
                /\ longTimers' = IF Held THEN longTimers ELSE longTimers \cup {e}
    /\ UNCHANGED <<isBlocked, shortTimers, failoverPromise, deadHosts, switch, network>>
Classified(h) ==
    /\ h \in classifying
    /\ classifying' = classifying \ {h}
    /\ \/ UNCHANGED <<heldBy, longTimers, escalationPromise, escalation>>
       \/ /\ Eligible(h) /\ escalationPromise = None
          /\ \E e \in Escalations \ longTimers :
                /\ escalationPromise' = e
                /\ escalation' = [escalation EXCEPT ![e] =
                                     [NoEscalation EXCEPT !.phase = "resolving", !.host = h]]
                /\ heldBy' = IF Held THEN heldBy ELSE "429"
                /\ longTimers' = IF Held THEN longTimers ELSE longTimers \cup {e}
    /\ UNCHANGED <<isBlocked, shortTimers, failoverPromise, deadHosts, switch, network>>

\* handleThrottleResponse(503): any host's 503 pauses all traffic.
Unavailable ==
    /\ ~Held
    /\ shortTimers < MaxShortTimers
    /\ heldBy' = "503"
    /\ shortTimers' = shortTimers + 1
    /\ UNCHANGED <<isBlocked, longTimers, classifying, escalationPromise, escalation,
                   failoverPromise, deadHosts, switch, network>>

\* The timer of a pause() fires and calls resume().
FireShort_unarmed ==
    /\ shortTimers' = shortTimers - 1
    /\ heldBy' = "nobody"
    /\ switch' = Resumed(switch)
    /\ UNCHANGED <<isBlocked, longTimers, classifying, escalationPromise, escalation,
                   failoverPromise, deadHosts, network>>
FireShort ==
    /\ shortTimers > 0
    /\ shortTimers' = shortTimers - 1
    /\ heldBy' = "nobody"
    /\ switch' = Resumed(switch)
    /\ UNCHANGED <<isBlocked, longTimers, classifying, escalationPromise, escalation,
                   failoverPromise, deadHosts, network>>

FireLong(e) ==
    /\ e \in longTimers
    /\ escalation[e].phase \notin {"resolving", "probing"}
    /\ longTimers' = longTimers \ {e}
    /\ heldBy' = "nobody"
    /\ switch' = Resumed(switch)
    /\ UNCHANGED <<isBlocked, shortTimers, classifying, escalationPromise, escalation,
                   failoverPromise, deadHosts, network>>

-----------------------------------------------------------------------------
(* The failover run.                                                       *)

\* The candidates of networkId id, from position i on, that are not dead.
AliveFrom_any(id, i, dead) == {k \in Candidates(id) : i <= k}
AliveFrom(id, i, dead) ==
    {k \in Candidates(id) : i <= k /\ HostOf[Registered[k]] \notin dead}

\* The run of escalation e ends: e, and whoever shares the run, have a result.
Settles(e, id, switched) ==
    /\ escalation' = [x \in Escalations |->
          IF x = e \/ (escalation[x].phase = "sharing" /\ failoverPromise = e)
          THEN [escalation[x] EXCEPT !.phase = "settled", !.id = id, !.switched = switched]
          ELSE escalation[x]]
    /\ failoverPromise' = None

\* The loop of runFailover() goes on from candidate i: it probes the next one
\* that is not dead, or ends without a connection.  failoverPromise stays what
\* promise says: it is assigned when the run starts, and a user's switch that
\* resets it leaves the run behind.
GoesOn(e, id, i, dead, promise) ==
    IF AliveFrom(id, i, dead) = {} THEN Settles(e, id, FALSE)
    ELSE /\ escalation' = [escalation EXCEPT ![e].phase = "probing", ![e].id = id,
                                             ![e].at = Min(AliveFrom(id, i, dead))]
         /\ failoverPromise' = promise

\* tryEndpointFailover() up to the first probe of runFailover().
Resolve(e) ==
    /\ escalation[e].phase = "resolving"
    /\ LET host == escalation[e].host
           id   == TargetId(host)
           dead == deadHosts \cup {host}
           live == selectedNetwork # None /\ HostOf[selectedNetwork] \notin dead
       IN IF ~Eligible(host)
          THEN Settles(e, None, FALSE) /\ UNCHANGED deadHosts
          ELSE /\ deadHosts' = dead
               /\ IF failoverPromise # None
                  THEN /\ escalation' = [escalation EXCEPT ![e].phase = "sharing"]
                       /\ UNCHANGED failoverPromise
                  ELSE IF live THEN Settles(e, id, TRUE)
                  ELSE GoesOn(e, id, 1, dead, e)
    /\ UNCHANGED <<limiter, classifying, escalationPromise, switch, network>>

Probed(e) == Registered[escalation[e].at]

ProbeFails(e) ==
    /\ escalation[e].phase = "probing"
    /\ deadHosts' = deadHosts \cup {HostOf[Probed(e)]}
    /\ GoesOn(e, escalation[e].id, escalation[e].at + 1, deadHosts', failoverPromise)
    /\ UNCHANGED <<limiter, classifying, escalationPromise, switch, network>>

\* The limiter flows again before setNetwork(net, true) makes its requests.
ProbeSucceeds_staysHeld(e) ==
    /\ escalation[e].phase = "probing"
    /\ escalation' = [escalation EXCEPT ![e].phase = "connecting"]
    /\ switch' = [switch EXCEPT ![e] = [NoSwitch EXCEPT !.stage = "loading", !.net = Probed(e)]]
    /\ status' = "connecting"
    /\ UNCHANGED <<limiter, classifying, escalationPromise, failoverPromise, deadHosts,
                   selectedNetwork, endpoint>>
ProbeSucceeds(e) ==
    /\ escalation[e].phase = "probing"
    /\ escalation' = [escalation EXCEPT ![e].phase = "connecting"]
    /\ heldBy' = "nobody"
    /\ switch' = [Resumed(switch) EXCEPT ![e] =
                     [NoSwitch EXCEPT !.stage = "loading", !.net = Probed(e)]]
    /\ status' = "connecting"
    /\ UNCHANGED <<isBlocked, shortTimers, longTimers, classifying, escalationPromise,
                   failoverPromise, deadHosts, selectedNetwork, endpoint>>

\* The escalation has its result: resume(), or block() for good.
Conclude_noResume(e) ==
    /\ escalation[e].phase = "settled"
    /\ isBlocked' = (isBlocked \/ ~escalation[e].switched)
    /\ escalation' = [escalation EXCEPT ![e] = NoEscalation]
    /\ escalationPromise' = None
    /\ UNCHANGED <<heldBy, shortTimers, longTimers, classifying, failoverPromise, deadHosts,
                   switch, network>>
Conclude(e) ==
    /\ escalation[e].phase = "settled"
    /\ IF escalation[e].switched
       THEN heldBy' = "nobody" /\ switch' = Resumed(switch) /\ UNCHANGED isBlocked
       ELSE isBlocked' = TRUE /\ UNCHANGED <<heldBy, switch>>
    /\ escalation' = [escalation EXCEPT ![e] = NoEscalation]
    /\ escalationPromise' = None
    /\ UNCHANGED <<shortTimers, longTimers, classifying, failoverPromise, deadHosts, network>>

-----------------------------------------------------------------------------
(* setNetwork(), by a user (or at boot) or by a failover run.              *)

UserSwitch(u, n) ==
    /\ switch[u].stage = "idle"
    /\ switch' = [switch EXCEPT ![u] = [NoSwitch EXCEPT !.stage = "loading", !.net = n]]
    /\ status' = "connecting"
    /\ UNCHANGED <<limiter, classifying, escalationPromise, escalation, failoverPromise,
                   deadHosts, selectedNetwork, endpoint>>

\* After the imports: a user's switch forgets the failover of the session.
Loaded(c) ==
    /\ switch[c].stage = "loading"
    /\ IF c \in Users THEN deadHosts' = {} /\ failoverPromise' = None
       ELSE UNCHANGED <<deadHosts, failoverPromise>>
    /\ switch' = [switch EXCEPT ![c] = Asks("credentials", switch[c].net)]
    /\ UNCHANGED <<limiter, classifying, escalationPromise, escalation, network>>

\* updateCredentials() swallows its failure; the SDK then gets the address.
Credentials(c) ==
    /\ switch[c].stage = "credentials"
    /\ Answerable(c) \/ switch[c].net \notin ServesInfo
    /\ endpoint' = switch[c].net
    /\ switch' = [switch EXCEPT ![c] = Asks("asset", switch[c].net)]
    /\ UNCHANGED <<limiter, classifying, escalationPromise, escalation, failoverPromise,
                   deadHosts, selectedNetwork, status>>

\* Blockchain IDs and the AVAX descriptor arrived: the network is selected.
AssetArrives(c) ==
    /\ switch[c].stage = "asset" /\ switch[c].sent
    /\ selectedNetwork' = switch[c].net
    /\ switch' = [switch EXCEPT ![c] = Asks("refresh", switch[c].net)]
    /\ UNCHANGED <<limiter, classifying, escalationPromise, escalation, failoverPromise,
                   deadHosts, status, endpoint>>

\* The chain id and the fee arrived.
Connected(c) ==
    /\ switch[c].stage = "refresh" /\ switch[c].sent
    /\ status' = "connected"
    /\ switch' = [switch EXCEPT ![c] = NoSwitch]
    /\ IF c \in Users THEN UNCHANGED <<escalation, failoverPromise>> ELSE Settles(c, escalation[c].id, TRUE)
    /\ UNCHANGED <<limiter, classifying, escalationPromise, deadHosts, selectedNetwork, endpoint>>

\* A request failed: setNetwork() throws.
Disconnects(c) ==
    /\ switch[c].stage \in {"asset", "refresh"} /\ Answerable(c)
    /\ status' = "disconnected"
    /\ switch' = [switch EXCEPT ![c] = NoSwitch]

\* The network list deselects on failure, the boot and the other callers do not.
UserSwitchFails(u) ==
    /\ u \in Users
    /\ Disconnects(u)
    /\ selectedNetwork' \in {selectedNetwork, None}
    /\ UNCHANGED <<limiter, classifying, escalationPromise, escalation, failoverPromise,
                   deadHosts, endpoint>>

\* A failover run marks the host dead and goes on to the next candidate.
FailoverSwitchFails(e) ==
    /\ e \in Escalations
    /\ Disconnects(e)
    /\ deadHosts' = deadHosts \cup {HostOf[switch[e].net]}
    /\ GoesOn(e, escalation[e].id, escalation[e].at + 1, deadHosts', failoverPromise)
    /\ UNCHANGED <<limiter, classifying, escalationPromise, selectedNetwork, endpoint>>

-----------------------------------------------------------------------------
EscalationStep(e) == Resolve(e) \/ ProbeFails(e) \/ ProbeSucceeds(e) \/ Conclude(e)

SwitchStep(c) ==
    \/ Loaded(c) \/ Credentials(c) \/ AssetArrives(c) \/ Connected(c)
    \/ UserSwitchFails(c) \/ FailoverSwitchFails(c)

Next ==
    \/ \E h \in Hosts : Throttled(h) \/ Classified(h)
    \/ Unavailable
    \/ FireShort
    \/ \E e \in Escalations : FireLong(e) \/ EscalationStep(e)
    \/ \E u \in Users, n \in Networks : UserSwitch(u, n)
    \/ \E c \in Callers : SwitchStep(c)

\* Code that runs goes on, a probe ends after 8 s at the latest, the browser
\* ends every request, and timers fire.
Fairness ==
    /\ \A e \in Escalations : WF_vars(EscalationStep(e))
    /\ \A c \in Callers : WF_vars(SwitchStep(c))
    /\ WF_vars(FireShort)

Spec     == Init /\ [][Next]_vars
FairSpec == Spec /\ Fairness

-----------------------------------------------------------------------------
(* Properties.                                                             *)

TypeOK ==
    /\ heldBy \in {"nobody", "503", "429"}
    /\ isBlocked \in BOOLEAN
    /\ shortTimers \in 0..MaxShortTimers
    /\ longTimers \subseteq Escalations
    /\ classifying \subseteq Hosts
    /\ escalationPromise \in Escalations \cup {None}
    /\ escalation \in [Escalations -> EscalationType]
    /\ failoverPromise \in Escalations \cup {None}
    /\ deadHosts \subseteq Hosts
    /\ switch \in [Callers -> SwitchType]
    /\ selectedNetwork \in Networks \cup {None}
    /\ status \in {"disconnected", "connecting", "connected"}
    /\ endpoint \in Networks \cup {None}

\* At most one escalation is under way, it is the one escalationPromise holds,
\* and its failover run is never left to a second one: concurrent 429s share a
\* run across every await, also when a user's switch resets failoverPromise.
OneEscalation ==
    /\ \A e \in Escalations : escalation[e].phase # "idle" <=> escalationPromise = e
    /\ \A e \in Escalations : escalation[e].phase # "sharing"
    /\ failoverPromise # None => failoverPromise = escalationPromise

\* While a failover run reconnects, its own escalation does not hold its
\* requests back: that would be a deadlock, only a pause for a 503 may.
FlowsDuringReconnect ==
    \A e \in Escalations : escalation[e].phase = "connecting" => heldBy # "429"

\* An escalation that is over leaves its pause behind only when it blocks.
NoHoldLeftBehind == heldBy = "429" /\ ~isBlocked => escalationPromise # None

\* A failover run never selects a host that was marked dead since the user
\* last picked a network, however long its probe and its requests took.
NeverReconnectsToDead ==
    [][\A e \in Escalations :
          selectedNetwork' # selectedNetwork /\ AssetArrives(e)
             => HostOf[switch[e].net] \notin deadHosts]_vars

\* Every escalation ends, in a connection or in the block, through 503
\* pauses, failing candidates and users who switch networks meanwhile.
EscalationEnds ==
    \A e \in Escalations : escalation[e].phase # "idle" ~> escalation[e].phase = "idle"

\* Every setNetwork() ends: no pause holds its requests back for good.
SwitchEnds ==
    \A c \in Callers : switch[c].stage # "idle" ~> switch[c].stage = "idle"

\* The permanent block comes "only when every candidate has failed", and the
\* candidates are the networks with the networkId of the current one.  The code
\* does not keep this: the user may have moved to another networkId meanwhile.
BlockedOnlyWhenExhausted ==
    [][~isBlocked /\ isBlocked' /\ selectedNetwork # None
          => \E e \in Escalations :
                escalation[e].phase = "settled" /\ escalation[e].id = NetId[selectedNetwork]]_vars

\* setNetwork() points the SDK and the stores at one network: when none is
\* under way and the wallet is connected, requests go to the selected network.
\* The code does not keep this: two overlapping calls mix their steps.
ConnectedToSelected ==
    status = "connected" /\ (\A c \in Callers : switch[c].stage = "idle")
        => endpoint = selectedNetwork

=============================================================================
