--------------------------- MODULE Session_proofs ----------------------------
(***************************************************************************)
(* Proofs about Session, for every set of operations, wallets, nestings    *)
(* and limits.                                                             *)
(***************************************************************************)
EXTENDS Session, TLAPS

\* The first state has its types: every call is idle, no slot is taken.
LEMMA TypeOKInit == Init => TypeOK
<1> SUFFICES ASSUME Init
             PROVE  TypeOK
    OBVIOUS
<1>1. phase \in [Ops -> Phases]
    BY DEF Init, Phases
<1>2. opCount \in [Ops -> Nat]
    BY DEF Init
<1>3. signatures \in [Ops -> 0..MaxSignatures]
    <2>1. 0 \in 0..MaxSignatures
        BY OpsAssumption
    <2>2. QED
        BY <2>1 DEF Init
<1>4. QED
    BY <1>1, <1>2, <1>3 DEF Init, TypeOK

\* Every step keeps the types: an operation rides on a handle, not on None.
LEMMA TypeOKNext == TypeOK /\ [Next]_vars => TypeOK'
<1> SUFFICES ASSUME TypeOK, [Next]_vars
             PROVE  TypeOK'
    OBVIOUS
<1> USE OpsAssumption DEF TypeOK
<1>1. ASSUME NEW o \in Ops, Ride(o)
      PROVE  TypeOK'
    <2>1. ambient \in Ops
        BY <1>1 DEF Ride, ScopeActive
    <2>2. opCount' \in [Ops -> Nat]
        BY <1>1, <2>1 DEF Ride
    <2>3. phase' \in [Ops -> Phases]
        BY <1>1 DEF Ride, Phases
    <2>4. QED
        BY <1>1, <2>2, <2>3 DEF Ride, prompt, lock
<1>2. ASSUME NEW o \in Ops, Refuse(o)
      PROVE  TypeOK'
    BY <1>2 DEF Refuse, Phases, handles, prompt, lock
<1>3. ASSUME NEW o \in Ops, Acquire(o)
      PROVE  TypeOK'
    BY <1>3 DEF Acquire, Phases, handles, lock
<1>4. ASSUME NEW o \in Ops, KeyDerived(o)
      PROVE  TypeOK'
    BY <1>4 DEF KeyDerived, Phases, handles, lock
<1>5. ASSUME NEW o \in Ops, Authorized(o)
      PROVE  TypeOK'
    BY <1>5 DEF Authorized, Phases, handles, prompt, lock
<1>6. ASSUME NEW o \in Ops, WrongPassword(o)
      PROVE  TypeOK'
    BY <1>6 DEF WrongPassword, Phases, handles, lock
<1>7. ASSUME NEW o \in Ops, Sign(o)
      PROVE  TypeOK'
    <2>1. signatures' \in [Ops -> 0..MaxSignatures]
        BY <1>7 DEF Sign
    <2>2. QED
        BY <1>7, <2>1 DEF Sign, handles, prompt, lock
<1>8. ASSUME NEW o \in Ops, End(o)
      PROVE  TypeOK'
    <2>1. phase' \in [Ops -> Phases]
        BY <1>8 DEF End, Phases
    <2>2. disposed' \subseteq Ops /\ ambient' \in Ops \cup {None}
        BY <1>8 DEF End
    <2>3. locked' \in BOOLEAN /\ lockPending' \in BOOLEAN
        BY <1>8 DEF End, lock
    <2>4. QED
        BY <1>8, <2>1, <2>2, <2>3 DEF End, prompt
<1>9. ASSUME NEW o \in Ops, Expire(o)
      PROVE  TypeOK'
    BY <1>9 DEF Expire, prompt, lock
<1>10. CASE Submit
    BY <1>10 DEF Submit, handles, lock
<1>11. CASE Dismiss
    BY <1>11 DEF Dismiss, Phases, handles, lock
<1>12. CASE IdleTooLong
    <2>1. locked' \in BOOLEAN /\ lockPending' \in BOOLEAN
        BY <1>12 DEF IdleTooLong
    <2>2. QED
        BY <1>12, <2>1 DEF IdleTooLong, handles, prompt
<1>13. CASE UNCHANGED vars
    BY <1>13 DEF vars, handles, prompt, lock
<1>14. QED
    BY <1>1, <1>2, <1>3, <1>4, <1>5, <1>6, <1>7, <1>8, <1>9, <1>10, <1>11, <1>12, <1>13
    DEF Next

-----------------------------------------------------------------------------
(* Handles and slots.                                                      *)

\* The prompt shows a request that waits, and never one that was settled: a
\* dismissal cannot hit an operation that is already running.
PromptShowsAWaiter == pending # None => phase[pending] = "prompting"

\* Without an overlap, one operation at most asks for a password or owns a
\* handle.
OneOwner ==
    ~overlapped => \A x, y \in Ops :
        /\ phase[x] \in {"prompting", "verifying", "running"}
        /\ phase[y] \in {"prompting", "verifying", "running"}
        => x = y

SessionInv ==
    /\ TypeOK
    /\ HandleLivesWithItsScope
    /\ PromptShowsAWaiter
    /\ LimitedScopeIsBounded
    /\ OneOwner
    /\ SoundWithoutOverlap

\* No operation, handle or prompt exists when the wallet starts.
LEMMA SessionInvInit == Init => SessionInv
<1> SUFFICES ASSUME Init
             PROVE  SessionInv
    OBVIOUS
<1>1. \A o \in Ops : opCount[o] = 0 /\ phase[o] = "idle"
    BY DEF Init
<1>2. TypeOK
    BY TypeOKInit
<1>3. LimitedScopeIsBounded
    BY <1>1, OpsAssumption DEF LimitedScopeIsBounded
<1>4. HandleLivesWithItsScope /\ PromptShowsAWaiter
    BY <1>1 DEF Init, HandleLivesWithItsScope, PromptShowsAWaiter
<1>5. OneOwner /\ SoundWithoutOverlap
    BY <1>1 DEF OneOwner, SoundWithoutOverlap
<1>6. QED
    BY <1>2, <1>3, <1>4, <1>5 DEF SessionInv

\* Every step keeps handles alive exactly while their operations run.
LEMMA HandlesNext ==
    ASSUME TypeOK, HandleLivesWithItsScope, PromptShowsAWaiter, [Next]_vars
    PROVE  HandleLivesWithItsScope' /\ PromptShowsAWaiter'
<1> USE OpsAssumption DEF TypeOK, HandleLivesWithItsScope, PromptShowsAWaiter
<1>1. ASSUME NEW o \in Ops, Ride(o) \/ Refuse(o)
      PROVE  HandleLivesWithItsScope' /\ PromptShowsAWaiter'
    BY <1>1 DEF Ride, Refuse, Called, handles, prompt
<1>2. ASSUME NEW o \in Ops, Acquire(o)
      PROVE  HandleLivesWithItsScope' /\ PromptShowsAWaiter'
    BY <1>2 DEF Acquire, Called, handles
<1>3. ASSUME NEW o \in Ops, KeyDerived(o)
      PROVE  HandleLivesWithItsScope' /\ PromptShowsAWaiter'
    BY <1>3 DEF KeyDerived, handles
<1>4. ASSUME NEW o \in Ops, Authorized(o) \/ WrongPassword(o)
      PROVE  HandleLivesWithItsScope' /\ PromptShowsAWaiter'
    BY <1>4 DEF Authorized, WrongPassword, handles, prompt
<1>5. ASSUME NEW o \in Ops, Sign(o) \/ Expire(o)
      PROVE  HandleLivesWithItsScope' /\ PromptShowsAWaiter'
    BY <1>5 DEF Sign, Expire, handles, prompt
<1>6. ASSUME NEW o \in Ops, End(o)
      PROVE  HandleLivesWithItsScope' /\ PromptShowsAWaiter'
    BY <1>6 DEF End, Open, prompt
<1>7. CASE Dismiss
    BY <1>7 DEF Dismiss, handles
<1>8. CASE Submit \/ IdleTooLong \/ UNCHANGED vars
    BY <1>8 DEF Submit, IdleTooLong, vars, handles, prompt
<1>9. QED
    BY <1>1, <1>2, <1>3, <1>4, <1>5, <1>6, <1>7, <1>8 DEF Next

\* Every step keeps limited scopes within their operations.
LEMMA LimitNext ==
    ASSUME TypeOK, LimitedScopeIsBounded, [Next]_vars
    PROVE  LimitedScopeIsBounded'
<1> USE DEF LimitedScopeIsBounded
<1>1. ASSUME NEW o \in Ops, Ride(o)
      PROVE  LimitedScopeIsBounded'
    <2>1. ambient \in Ops
        BY <1>1 DEF Ride, ScopeActive, TypeOK
    <2>2. ambient \in Limited => opCount[ambient] < MaxOps
        BY <1>1 DEF Ride, WithinLimits
    <2>3. /\ \A x \in Ops : opCount[x] \in Nat
          /\ \A x \in Ops : opCount'[x] = IF x = ambient THEN opCount[x] + 1 ELSE opCount[x]
        BY <1>1, <2>1 DEF Ride, TypeOK
    <2>4. QED
        BY <2>1, <2>2, <2>3, OpsAssumption
<1>2. opCount' = opCount \/ \E o \in Ops : Ride(o)
    BY DEF Next, vars, handles, Refuse, Acquire, KeyDerived, Authorized, WrongPassword,
           Sign, End, Expire, Submit, Dismiss, IdleTooLong
<1>3. QED
    BY <1>1, <1>2

\* An operation that starts at the prompt finds nobody there, or is recorded
\* as an overlap, and finds no operation running, because that would be in the
\* slot.
LEMMA OverlapNext ==
    ASSUME TypeOK, TypeOK', HandleLivesWithItsScope, PromptShowsAWaiter,
           OneOwner, SoundWithoutOverlap, [Next]_vars
    PROVE  OneOwner' /\ SoundWithoutOverlap'
<1> USE OpsAssumption DEF TypeOK, OneOwner, SoundWithoutOverlap
<1>1. ASSUME NEW o \in Ops, Ride(o) \/ Refuse(o)
      PROVE  OneOwner' /\ SoundWithoutOverlap'
    BY <1>1 DEF Ride, Refuse, Called, prompt
<1>2. ASSUME NEW o \in Ops, Acquire(o)
      PROVE  OneOwner' /\ SoundWithoutOverlap'
    <2>1. CASE overlapped'
        BY <2>1
    <2>2. CASE ~overlapped'
        <3>1. ~overlapped /\ \A x \in Ops : phase[x] \notin {"prompting", "verifying"}
            BY <1>2, <2>2 DEF Acquire
        <3>2. ambient = None
            BY <1>2 DEF Acquire, ScopeActive, HandleLivesWithItsScope
        <3>3. \A x \in Ops : phase[x] # "running"
            BY <3>1, <3>2
        <3>4. QED
            BY <1>2, <3>1, <3>3 DEF Acquire
    <2>3. QED
        BY <2>1, <2>2
<1>3. ASSUME NEW o \in Ops, KeyDerived(o)
      PROVE  OneOwner' /\ SoundWithoutOverlap'
    BY <1>3 DEF KeyDerived
<1>4. ASSUME NEW o \in Ops, Authorized(o)
      PROVE  OneOwner' /\ SoundWithoutOverlap'
    BY <1>4 DEF Authorized, prompt
<1>5. ASSUME NEW o \in Ops, WrongPassword(o)
      PROVE  OneOwner' /\ SoundWithoutOverlap'
    BY <1>5 DEF WrongPassword
<1>6. ASSUME NEW o \in Ops, Sign(o) \/ Expire(o)
      PROVE  OneOwner' /\ SoundWithoutOverlap'
    BY <1>6 DEF Sign, Expire, prompt
<1>7. ASSUME NEW o \in Ops, End(o)
      PROVE  OneOwner' /\ SoundWithoutOverlap'
    BY <1>7 DEF End, Open, prompt
<1>8. CASE Dismiss
    BY <1>8 DEF Dismiss, PromptShowsAWaiter
<1>9. CASE Submit \/ IdleTooLong \/ UNCHANGED vars
    BY <1>9 DEF Submit, IdleTooLong, vars, prompt
<1>10. QED
    BY <1>1, <1>2, <1>3, <1>4, <1>5, <1>6, <1>7, <1>8, <1>9 DEF Next

-----------------------------------------------------------------------------
(* The theorems.                                                           *)

\* What the slots and handles rest on, as one inductive invariant.
THEOREM SessionInvariant == Spec => []SessionInv
<1>1. SessionInv /\ [Next]_vars => SessionInv'
    BY TypeOKNext, HandlesNext, LimitNext, OverlapNext DEF SessionInv
<1>2. QED
    BY <1>1, SessionInvInit, PTL DEF Spec

\* Slots hold operations, limits count, and phases stay in their set.
THEOREM TypeCorrect == Spec => []TypeOK
<1>1. SessionInv => TypeOK
    BY DEF SessionInv
<1>2. QED
    BY <1>1, SessionInvariant, PTL

\* A handle is usable exactly while its own operation runs.
THEOREM HandlesLive == Spec => []HandleLivesWithItsScope
<1>1. SessionInv => HandleLivesWithItsScope
    BY DEF SessionInv
<1>2. QED
    BY <1>1, SessionInvariant, PTL

\* A limited scope never covers more than its operations.
THEOREM LimitsHold == Spec => []LimitedScopeIsBounded
<1>1. SessionInv => LimitedScopeIsBounded
    BY DEF SessionInv
<1>2. QED
    BY <1>1, SessionInvariant, PTL

\* One slot is sound as long as operations do not meet at the prompt.
THEOREM SlotsSound == Spec => []SoundWithoutOverlap
<1>1. SessionInv => SoundWithoutOverlap
    BY DEF SessionInv
<1>2. QED
    BY <1>1, SessionInvariant, PTL

\* No signature without a running operation of the same vault.
THEOREM SignaturesAuthorized == Spec => SignsUnderOwnPassword
<1> DEFINE OwnPassword ==
        \A o \in Ops : signatures'[o] # signatures[o] =>
            \E x \in Ops : phase[x] = "running" /\ VaultOf[x] = VaultOf[o]
<1>1. ASSUME SessionInv, [Next]_vars
      PROVE  OwnPassword
    <2>1. ASSUME NEW p \in Ops, Sign(p)
          PROVE  OwnPassword
        <3>1. ambient \in Ops /\ phase[ambient] = "running" /\ VaultOf[ambient] = VaultOf[p]
            BY <1>1, <2>1 DEF Sign, MaySign, ScopeActive, SessionInv, TypeOK,
                              HandleLivesWithItsScope
        <3>2. \A o \in Ops : signatures'[o] # signatures[o] => o = p
            BY <1>1, <2>1 DEF Sign, SessionInv, TypeOK
        <3>3. QED
            BY <3>1, <3>2
    <2>2. signatures' = signatures \/ \E p \in Ops : Sign(p)
        BY <1>1 DEF Next, vars, Ride, Refuse, Acquire, KeyDerived, Authorized,
                    WrongPassword, End, Expire, Submit, Dismiss, IdleTooLong
    <2>3. QED
        BY <2>1, <2>2
<1>2. SessionInv /\ [Next]_vars => [OwnPassword]_vars
    BY <1>1
<1>3. QED
    BY <1>2, SessionInvariant, PTL DEF Spec, SignsUnderOwnPassword

-----------------------------------------------------------------------------
(* What the finding about the idle lock leaves standing.                   *)

\* A call that is under way has its parent's fn to return to.
ParentOpen ==
    \A x \in Ops : phase[x] \in {"prompting", "verifying", "running", "riding"} =>
        Parent[x] \in Open \cup {None}

\* Among open operations the parents lead to one that no other has started.
Rooted ==
    \A S \in SUBSET Open :
        S # {} /\ (\A x \in S : Parent[x] \in S \cup {None}) => \E x \in S : Parent[x] = None

\* An operation opens under an open parent, so it is not one of its own
\* ancestors, and none of those that are open is its child.
LEMMA OpensRooted ==
    ASSUME TypeOK, ParentOpen, Rooted, NEW o \in Ops, o \notin Open,
           Parent[o] \in Open \cup {None}, Open' = Open \cup {o}
    PROVE  Rooted'
<1> SUFFICES ASSUME NEW S \in SUBSET Open', S # {}, \A x \in S : Parent[x] \in S \cup {None}
             PROVE  \E x \in S : Parent[x] = None
    BY DEF Rooted
<1>1. CASE o \notin S
    BY <1>1 DEF Rooted
<1>2. CASE o \in S /\ Parent[o] # None
    <2>1. Parent[o] \in S \ {o}
        BY <1>2
    <2>2. \A x \in S \ {o} : Parent[x] # o
        BY OpsAssumption DEF ParentOpen, Open
    <2>3. \A x \in S \ {o} : Parent[x] \in (S \ {o}) \cup {None}
        BY <2>2
    <2>4. S \ {o} \in SUBSET Open
        OBVIOUS
    <2>5. \E x \in S \ {o} : Parent[x] = None
        BY <2>1, <2>3, <2>4 DEF Rooted
    <2>6. QED
        BY <2>5
<1>3. QED
    BY <1>1, <1>2

LEMMA FamiliesNext ==
    ASSUME TypeOK, PromptShowsAWaiter, ParentOpen, Rooted, [Next]_vars
    PROVE  ParentOpen' /\ Rooted'
<1> USE OpsAssumption
<1>1. ASSUME NEW o \in Ops, Ride(o)
      PROVE  ParentOpen' /\ Rooted'
    <2>1. /\ o \notin Open /\ Parent[o] \in Open \cup {None}
          /\ phase' = [phase EXCEPT ![o] = "riding"]
        BY <1>1 DEF Ride, Called, Open
    <2>2. Open' = Open \cup {o}
        BY <2>1 DEF TypeOK, Open
    <2>3. ParentOpen'
        BY <2>1, <2>2 DEF TypeOK, ParentOpen
    <2>4. QED
        BY <2>1, <2>2, <2>3, OpensRooted
<1>2. ASSUME NEW o \in Ops, Authorized(o)
      PROVE  ParentOpen' /\ Rooted'
    <2>1. /\ o \notin Open /\ Parent[o] \in Open \cup {None}
          /\ phase' = [phase EXCEPT ![o] = "running"]
        BY <1>2 DEF Authorized, ParentOpen, Open
    <2>2. Open' = Open \cup {o}
        BY <2>1 DEF TypeOK, Open
    <2>3. ParentOpen'
        BY <2>1, <2>2 DEF TypeOK, ParentOpen
    <2>4. QED
        BY <2>1, <2>2, <2>3, OpensRooted
<1>3. ASSUME NEW o \in Ops, Refuse(o) \/ Acquire(o) \/ KeyDerived(o) \/ WrongPassword(o)
      PROVE  ParentOpen' /\ Rooted'
    <2>1. Open' = Open
        BY <1>3 DEF Refuse, Acquire, KeyDerived, WrongPassword, Called, Open, TypeOK
    <2>2. ParentOpen'
        BY <1>3, <2>1 DEF Refuse, Acquire, KeyDerived, WrongPassword, Called, TypeOK, ParentOpen
    <2>3. QED
        BY <2>1, <2>2 DEF Rooted
<1>4. ASSUME NEW o \in Ops, End(o)
      PROVE  ParentOpen' /\ Rooted'
    <2>1. Open' = Open \ {o}
        BY <1>4 DEF End, Open, TypeOK
    <2>2. \A x \in Ops : phase'[x] \in {"prompting", "verifying", "running", "riding"} =>
              phase'[x] = phase[x] /\ Parent[x] # o
        BY <1>4 DEF End, ChildrenDone, TypeOK
    <2>3. ParentOpen'
        BY <2>1, <2>2 DEF ParentOpen
    <2>4. QED
        BY <2>1, <2>3 DEF Rooted
<1>5. CASE Dismiss
    <2>1. Open' = Open
        BY <1>5 DEF Dismiss, PromptShowsAWaiter, Open, TypeOK
    <2>2. ParentOpen'
        BY <1>5, <2>1 DEF Dismiss, TypeOK, ParentOpen
    <2>3. QED
        BY <2>1, <2>2 DEF Rooted
<1>6. CASE phase' = phase
    BY <1>6 DEF ParentOpen, Rooted, Open
<1>7. phase' = phase \/ Dismiss
          \/ \E o \in Ops : \/ Ride(o) \/ Authorized(o) \/ End(o)
                            \/ Refuse(o) \/ Acquire(o) \/ KeyDerived(o) \/ WrongPassword(o)
    BY DEF Next, vars, Sign, Expire, Submit, IdleTooLong
<1>8. QED
    BY <1>1, <1>2, <1>3, <1>4, <1>5, <1>6, <1>7

\* The lock that comes while operations are open comes to riders only, one of
\* which an independent caller started.
LockHitsOnlyRiders ==
    [][~overlapped /\ ~locked /\ locked'
          => /\ \A o \in Open' : phase'[o] = "riding"
             /\ Open' # {} => \E o \in Open' : Parent[o] = None]_vars

\* When no two operations meet at the prompt, the idle lock never cuts off an
\* operation that entered its own password, nor the nested ones it awaits: only
\* a call from elsewhere that rode on its scope and outlives it can be hit.
\* LockNeverMidOperation fails for such calls and for overlaps at the prompt,
\* and for nothing else.
THEOREM LockSparesOwners == Spec => LockHitsOnlyRiders
<1> DEFINE Spared == ~overlapped /\ ~locked /\ locked'
                        => /\ \A o \in Open' : phase'[o] = "riding"
                           /\ Open' # {} => \E o \in Open' : Parent[o] = None
           Families == ParentOpen /\ Rooted
<1>1. Init => Families
    BY DEF Init, ParentOpen, Rooted, Open
<1>2. SessionInv /\ Families /\ [Next]_vars => Families'
    BY FamiliesNext DEF SessionInv
<1>3. ASSUME SessionInv, Families', [Next]_vars, ~overlapped, ~locked, locked'
      PROVE  Spared
    <2>1. TypeOK /\ \A x \in Ops : phase[x] = "running" => ambient = x /\ x \notin disposed
        BY <1>3 DEF SessionInv, SoundWithoutOverlap, HandleLivesWithItsScope
    <2>2. \A x \in Ops : phase'[x] # "running"
        <3>1. CASE IdleTooLong
            BY <1>3, <2>1, <3>1, OpsAssumption DEF IdleTooLong, ScopeActive
        <3>2. ASSUME NEW o \in Ops, End(o)
              PROVE  \A x \in Ops : phase'[x] # "running"
            <4>1. phase[o] = "running"
                BY <1>3, <3>2 DEF End, lock
            <4>2. \A x \in Ops \ {o} : phase[x] # "running"
                BY <2>1, <4>1
            <4>3. QED
                BY <2>1, <3>2, <4>1, <4>2 DEF End, TypeOK
        <3>3. locked' = locked \/ IdleTooLong \/ \E o \in Ops : End(o)
            BY <1>3 DEF Next, vars, lock, Ride, Refuse, Acquire, KeyDerived, Authorized,
                    WrongPassword, Sign, Expire, Submit, Dismiss
        <3>4. QED
            BY <1>3, <3>1, <3>2, <3>3
    <2>3. \A o \in Open' : phase'[o] = "riding"
        BY <2>2 DEF Open
    <2>4. \A o \in Open' : Parent[o] \in Open' \cup {None}
        BY <1>3 DEF ParentOpen, Open
    <2>5. Open' # {} => \E o \in Open' : Parent[o] = None
        BY <1>3, <2>4 DEF Rooted
    <2>6. QED
        BY <2>3, <2>5
<1>4. SessionInv /\ Families' /\ [Next]_vars => [Spared]_vars
    BY <1>3
<1>5. QED
    BY <1>1, <1>2, <1>4, SessionInvariant, PTL DEF Spec, LockHitsOnlyRiders

=============================================================================
