--------------------------- MODULE SignOnly_proofs ---------------------------
(***************************************************************************)
(* Proofs about SignOnly: the operations under the sign-only switch are    *)
(* those of Session, so what Session_proofs shows of them holds here, and  *)
(* the switch serves one operation, for all sets of operations.            *)
(***************************************************************************)
EXTENDS SignOnly, Session_proofs

\* Every step is one of Session, or leaves its state alone.
LEMMA StepOfSession == [SwitchNext]_switchVars => [Next]_vars
<1> SUFFICES ASSUME [SwitchNext]_switchVars
             PROVE  Next \/ UNCHANGED vars
    OBVIOUS
<1>1. CASE \E o \in Ops : Ride(o) \/ Acquire(o) \/ Refuse(o) \/ End(o)
    BY <1>1 DEF Next
<1>2. CASE Dismiss \/ Elsewhere
    BY <1>2 DEF Next, Elsewhere
<1>3. CASE \/ \E o \in Ops : Issue(o)
           \/ \E d \in DeviceOps : DeviceBegin(d) \/ DeviceIssue(d) \/ DeviceEnd(d)
    BY <1>3 DEF Issue, DeviceBegin, DeviceIssue, DeviceEnd
<1>4. CASE Toggle \/ SetEnabled \/ ClearRecords \/ ResetSession
    BY <1>4 DEF Toggle, SetEnabled, ClearRecords, ResetSession
<1>5. CASE UNCHANGED switchVars
    BY <1>5 DEF switchVars
<1>6. QED
    BY <1>1, <1>2, <1>3, <1>4, <1>5 DEF SwitchNext

\* Under the switches, operations do what Session lets them do.
THEOREM SwitchImplementsSession == SwitchSpec => Spec
<1>1. SwitchInit => Init
    BY DEF SwitchInit
<1>2. QED
    BY <1>1, StepOfSession, PTL DEF SwitchSpec, Spec

\* What the operations promise without the switches (a handle lives as long as
\* its operation, a limit bounds its scope, the slot is sound without overlap,
\* nothing signs without its own password, the idle lock spares owners) they
\* promise with them.
THEOREM SwitchKeepsSession ==
    SwitchSpec => /\ []HandleLivesWithItsScope
                  /\ []LimitedScopeIsBounded
                  /\ []SoundWithoutOverlap
                  /\ SignsUnderOwnPassword
                  /\ LockHitsOnlyRiders
<1>1. QED
    BY SwitchImplementsSession, HandlesLive, LimitsHold, SlotsSound,
       SignaturesAuthorized, LockSparesOwners, PTL

-----------------------------------------------------------------------------
(* The switch.                                                             *)

\* While an operation is alone nothing else is under way, and the switches
\* still say what the user asked for when it began.
LonelyUnderWay ==
    alone # None => UnderWay = {alone} /\ (asked <=> isActive)

SwitchInv ==
    /\ TypeOK
    /\ device \in [DeviceOps -> {"idle", "running"}]
    /\ ticked <=> oneShot
    /\ LonelyUnderWay
    /\ SignOnlyHolds

\* At first nothing is under way and nothing is captured.
LEMMA SwitchInvInit == SwitchInit => SwitchInv
<1> SUFFICES ASSUME SwitchInit
             PROVE  SwitchInv
    OBVIOUS
<1>1. TypeOK
    BY TypeOKInit DEF SwitchInit
<1>2. QED
    BY <1>1 DEF SwitchInit, SwitchInv, LonelyUnderWay, SignOnlyHolds

\* An operation that begins is alone if nothing is under way, with an empty list.
LEMMA BeginsInv ==
    ASSUME SwitchInv, TypeOK',
           NEW o, Begins(o),
           device' \in [DeviceOps -> {"idle", "running"}],
           UnderWay' = UnderWay \cup {o}
    PROVE  SwitchInv'
<1>1. alone' # None => alone' = o /\ UnderWay' = {o} /\ (asked' <=> isActive')
    BY DEF Begins, SwitchInv, isActive
<1>2. records' = {} /\ fate' = {} /\ (ticked' <=> oneShot')
    BY DEF Begins, SwitchInv
<1>3. QED
    BY <1>1, <1>2 DEF SwitchInv, LonelyUnderWay, SignOnlyHolds

\* Whoever ends resets the switch, and nothing is alone.
LEMMA OverInv ==
    ASSUME TypeOK', device' \in [DeviceOps -> {"idle", "running"}], Over
    PROVE  SwitchInv'
    BY DEF Over, SwitchInv, LonelyUnderWay, SignOnlyHolds

\* Whatever the user does meanwhile is a crossing.
LEMMA UserInv ==
    ASSUME SwitchInv, Toggle \/ SetEnabled \/ ClearRecords \/ ResetSession
    PROVE  SwitchInv'
<1>1. alone' = None /\ UNCHANGED <<vars, device>>
    BY DEF Toggle, SetEnabled, ClearRecords, ResetSession, Crossed
<1>2. ticked' <=> oneShot'
    BY DEF SwitchInv, Toggle, SetEnabled, ClearRecords, ResetSession
<1>3. TypeOK'
    BY <1>1 DEF SwitchInv, TypeOK, vars, handles, prompt, lock
<1>4. QED
    BY <1>1, <1>2, <1>3 DEF SwitchInv, LonelyUnderWay, SignOnlyHolds

\* A transaction that is issued while its operation is alone goes where the
\* user wants it.
LEMMA IssuesInv ==
    ASSUME SwitchInv, NEW o \in UnderWay, Issues(o), UNCHANGED <<vars, device>>
    PROVE  SwitchInv'
<1>1. TypeOK'
    BY DEF SwitchInv, TypeOK, vars, handles, prompt, lock
<1>2. UnderWay' = UnderWay /\ (isActive' <=> isActive) /\ alone' = alone /\ (asked' <=> asked)
    BY DEF UnderWay, isActive, Issues, vars
<1>3. LonelyUnderWay'
    BY <1>2 DEF SwitchInv, LonelyUnderWay
<1>4. ASSUME alone' # None
      PROVE  /\ fate' \subseteq {IF asked' THEN "captured" ELSE "broadcast"}
             /\ records' = IF "captured" \in fate' THEN {alone'} ELSE {}
    <2>1. alone = o /\ (asked <=> isActive)
        BY <1>2, <1>4 DEF SwitchInv, LonelyUnderWay
    <2>2. /\ fate \subseteq {IF asked THEN "captured" ELSE "broadcast"}
          /\ records = IF "captured" \in fate THEN {alone} ELSE {}
        BY <1>2, <1>4 DEF SwitchInv, SignOnlyHolds
    <2>3. CASE asked
        BY <1>2, <2>1, <2>2, <2>3 DEF Issues
    <2>4. CASE ~asked
        BY <1>2, <2>1, <2>2, <2>4 DEF Issues
    <2>5. QED
        BY <2>3, <2>4
<1>5. ticked' <=> oneShot'
    BY DEF Issues, SwitchInv
<1>6. QED
    BY <1>1, <1>3, <1>4, <1>5 DEF SwitchInv, SignOnlyHolds

\* Prompts, checks and signatures of an operation leave it under way.
LEMMA ElsewhereInv ==
    ASSUME SwitchInv, TypeOK', Elsewhere, UNCHANGED <<offline, device>>
    PROVE  SwitchInv'
<1> DEFINE Way(ph) == {o \in Ops : ph[o] \in {"prompting", "verifying", "running", "riding"}}
<1>1. Way(phase') = Way(phase)
    <2>1. ASSUME NEW o \in Ops, KeyDerived(o)
          PROVE  Way(phase') = Way(phase)
        BY <2>1 DEF KeyDerived, SwitchInv, TypeOK
    <2>2. ASSUME NEW o \in Ops, Authorized(o) \/ WrongPassword(o)
          PROVE  Way(phase') = Way(phase)
        BY <2>2 DEF Authorized, WrongPassword, SwitchInv, TypeOK
    <2>3. ASSUME Submit \/ IdleTooLong \/ \E o \in Ops : Sign(o) \/ Expire(o)
          PROVE  Way(phase') = Way(phase)
        BY <2>3 DEF Submit, IdleTooLong, Sign, Expire
    <2>4. QED
        BY <2>1, <2>2, <2>3 DEF Elsewhere
<1>2. UnderWay' = UnderWay
    BY <1>1 DEF UnderWay
<1>3. QED
    BY <1>2 DEF SwitchInv, LonelyUnderWay, SignOnlyHolds, offline, history, isActive

\* Every step keeps the switch to the operation it was set for.
LEMMA SwitchInvNext == SwitchInv /\ [SwitchNext]_switchVars => SwitchInv'
<1> SUFFICES ASSUME SwitchInv, [SwitchNext]_switchVars
             PROVE  SwitchInv'
    OBVIOUS
<1>1. TypeOK'
    BY StepOfSession, TypeOKNext DEF SwitchInv
<1>2. ASSUME NEW o \in Ops, (Ride(o) \/ Acquire(o)) /\ Begins(o) /\ UNCHANGED device
      PROVE  SwitchInv'
    <2>1. UnderWay' = UnderWay \cup {o}
        BY <1>2 DEF UnderWay, Ride, Acquire, SwitchInv, TypeOK
    <2>2. QED
        BY <1>1, <1>2, <2>1, BeginsInv DEF SwitchInv
<1>3. ASSUME NEW d \in DeviceOps, DeviceBegin(d)
      PROVE  SwitchInv'
    <2>1. device' \in [DeviceOps -> {"idle", "running"}]
        BY <1>3 DEF DeviceBegin, SwitchInv
    <2>2. UnderWay' = UnderWay \cup {d}
        BY <1>3 DEF UnderWay, DeviceBegin, SwitchInv, vars
    <2>3. QED
        BY <1>1, <1>3, <2>1, <2>2, BeginsInv DEF DeviceBegin
<1>4. CASE \/ \E o \in Ops : Refuse(o) /\ Bounces /\ UNCHANGED device
           \/ \E o \in Ops : End(o) /\ Ends /\ UNCHANGED device
           \/ Dismiss /\ Ends /\ UNCHANGED device
    BY <1>1, <1>4, OverInv DEF Bounces, Ends, SwitchInv
<1>5. ASSUME NEW d \in DeviceOps, DeviceEnd(d)
      PROVE  SwitchInv'
    BY <1>1, <1>5, OverInv DEF DeviceEnd, Ends, SwitchInv
<1>6. ASSUME NEW o \in Ops, Issue(o)
      PROVE  SwitchInv'
    <2>1. o \in UnderWay
        BY <1>6 DEF Issue, Open, UnderWay
    <2>2. QED
        BY <1>6, <2>1, IssuesInv DEF Issue
<1>7. ASSUME NEW d \in DeviceOps, DeviceIssue(d)
      PROVE  SwitchInv'
    <2>1. d \in UnderWay
        BY <1>7 DEF DeviceIssue, UnderWay
    <2>2. QED
        BY <1>7, <2>1, IssuesInv DEF DeviceIssue
<1>8. CASE Elsewhere /\ UNCHANGED <<offline, device>>
    BY <1>1, <1>8, ElsewhereInv
<1>9. CASE Toggle \/ SetEnabled \/ ClearRecords \/ ResetSession
    BY <1>9, UserInv
<1>10. CASE UNCHANGED switchVars
    BY <1>10, <1>1
    DEF switchVars, vars, offline, history, SwitchInv, LonelyUnderWay, SignOnlyHolds, UnderWay, isActive
<1>11. QED
    BY <1>2, <1>3, <1>4, <1>5, <1>6, <1>7, <1>8, <1>9, <1>10 DEF SwitchNext

\* The inductive invariant holds of every behaviour.
THEOREM SwitchInvariant == SwitchSpec => []SwitchInv
<1>1. QED
    BY SwitchInvInit, SwitchInvNext, PTL DEF SwitchSpec

\* The switch holds for the operation it was set for, and for no other.
THEOREM SwitchServesOne == SwitchSpec => []SignOnlyHolds
<1>1. SwitchInv => SignOnlyHolds
    BY DEF SwitchInv
<1>2. QED
    BY <1>1, SwitchInvariant, PTL

=============================================================================
