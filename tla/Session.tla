------------------------------- MODULE Session -------------------------------
(***************************************************************************)
(* Authorization of wallet operations: withAuthorization() and             *)
(* requireAuth() of src/js/security/session.ts, the one-slot password      *)
(* prompt of passwordPrompt.ts with its modal, and the idle lock of        *)
(* views/Wallet.vue that waits for the last scope to close.                *)
(*                                                                         *)
(* An operation is one call of withAuthorization().  Several may be under  *)
(* way at one time: nested ones, which their parent awaits, and            *)
(* independent ones, started by another page, script or bridge step.  The  *)
(* code cannot tell them apart.  A handle is named after the operation     *)
(* that acquired it.                                                       *)
(***************************************************************************)
EXTENDS Integers, FiniteSets

CONSTANTS
    Ops,               \* the operations
    Parent,            \* [Ops -> the operation whose fn starts it, or None]
    VaultOf,           \* [Ops -> vault]
    Sealed,            \* the vaults that hold a secret to check a password on
    Limited,           \* the operations of scope CROSSCHAIN or BATCH
    MaxOps,            \* nested operations a limited scope covers
    MaxSignatures,     \* bound: signatures of one operation
    None

ASSUME OpsAssumption ==
    /\ None \notin Ops
    /\ Parent \in [Ops -> Ops \cup {None}]
    /\ Limited \subseteq Ops
    /\ MaxOps \in Nat /\ MaxSignatures \in Nat

VARIABLES
    phase,             \* [Ops -> progress of the call]
    ambient,           \* the handle in the slot, or None
    disposed,          \* handles that were disposed
    expired,           \* handles open longer than their scope allows
    opCount,           \* [Ops -> operations that reused the handle]
    pending,           \* whose request the prompt shows, or None
    deriving,          \* requests whose key the modal is deriving
    signatures,        \* [Ops -> signatures made]
    lockPending, locked, \* the idle lock
    overlapped         \* history: two operations were at the prompt at once

prompt == <<pending, deriving>>
handles == <<disposed, expired, opCount>>
lock == <<lockPending, locked>>
vars == <<phase, ambient, handles, prompt, signatures, lock, overlapped>>

Phases == {"idle", "prompting", "verifying", "running", "riding",
           "done", "left", "refused", "cancelled"}

Open == {o \in Ops : phase[o] \in {"running", "riding"}}

\* isScopeActive()
ScopeActive == ambient # None /\ ambient \notin disposed

-----------------------------------------------------------------------------
Init ==
    /\ phase = [o \in Ops |-> "idle"]
    /\ ambient = None
    /\ disposed = {}
    /\ expired = {}
    /\ opCount = [o \in Ops |-> 0]
    /\ pending = None
    /\ deriving = {}
    /\ signatures = [o \in Ops |-> 0]
    /\ lockPending = FALSE
    /\ locked = FALSE
    /\ overlapped = FALSE

\* withAuthorization() is called, from its parent's fn if it has one.
Called(o) ==
    /\ phase[o] = "idle"
    /\ Parent[o] \in Open \cup {None}

WithinLimits ==
    ambient \in Limited => ambient \notin expired /\ opCount[ambient] < MaxOps

\* A scope is open: the call reuses it and leaves disposal to its owner.
Ride(o) ==
    /\ Called(o)
    /\ ScopeActive /\ VaultOf[ambient] = VaultOf[o] /\ WithinLimits
    /\ phase' = [phase EXCEPT ![o] = "riding"]
    /\ opCount' = [opCount EXCEPT ![ambient] = @ + 1]
    /\ UNCHANGED <<ambient, disposed, expired, prompt, signatures, lock, overlapped>>

\* SessionBusy or SessionScopeExpired.
Refuse(o) ==
    /\ Called(o)
    /\ ScopeActive /\ ~(VaultOf[ambient] = VaultOf[o] /\ WithinLimits)
    /\ phase' = [phase EXCEPT ![o] = "refused"]
    /\ UNCHANGED <<ambient, handles, prompt, signatures, lock, overlapped>>

\* promptSessionKey(): the request takes the slot, whoever was in it.
Acquire(o) ==
    /\ Called(o)
    /\ ~ScopeActive
    /\ phase' = [phase EXCEPT ![o] = "prompting"]
    /\ pending' = o
    /\ overlapped' = (overlapped \/ \E x \in Ops : phase[x] \in {"prompting", "verifying"})
    /\ UNCHANGED <<ambient, handles, deriving, signatures, lock>>

(* The modal acts on the request that is shown.                            *)

Submit ==
    /\ pending # None /\ pending \notin deriving
    /\ deriving' = deriving \cup {pending}
    /\ UNCHANGED <<phase, ambient, handles, pending, signatures, lock, overlapped>>

\* The X, the backdrop, and Esc when no derivation runs.
Dismiss ==
    /\ pending # None
    /\ phase' = [phase EXCEPT ![pending] = "cancelled"]
    /\ pending' = None
    /\ UNCHANGED <<ambient, handles, deriving, signatures, lock, overlapped>>

\* settle(key) of the request that was submitted, shown or not: it empties the
\* slot, and does nothing when the request was dismissed meanwhile.
KeyDerived(o) ==
    /\ o \in deriving
    /\ deriving' = deriving \ {o}
    /\ IF phase[o] = "prompting"
       THEN /\ phase' = [phase EXCEPT ![o] = "verifying"]
            /\ pending' = None
       ELSE UNCHANGED <<phase, pending>>
    /\ UNCHANGED <<ambient, handles, signatures, lock, overlapped>>

\* The canary decrypts: the handle takes the slot, whatever is in it.
Authorized(o) ==
    /\ phase[o] = "verifying"
    /\ phase' = [phase EXCEPT ![o] = "running"]
    /\ ambient' = o
    /\ UNCHANGED <<handles, prompt, signatures, lock, overlapped>>

\* Wrong password: prompt again.
WrongPassword(o) ==
    /\ phase[o] = "verifying" /\ VaultOf[o] \in Sealed
    /\ phase' = [phase EXCEPT ![o] = "prompting"]
    /\ pending' = o
    /\ UNCHANGED <<ambient, handles, deriving, signatures, lock, overlapped>>

\* requireAuth(vault) in a signing primitive; when it throws, the operation
\* fails, which is one way to End.
MaySign_anyVault(o) == ScopeActive
MaySign(o) == ScopeActive /\ VaultOf[ambient] = VaultOf[o]

Sign(o) ==
    /\ o \in Open /\ signatures[o] < MaxSignatures
    /\ MaySign(o)
    /\ signatures' = [signatures EXCEPT ![o] = @ + 1]
    /\ UNCHANGED <<phase, ambient, handles, prompt, lock, overlapped>>

ChildrenDone(o) ==
    \A x \in Ops : Parent[x] = o => phase[x] \notin {"prompting", "verifying", "running", "riding"}

\* The fn of the operation returned or threw.  The owner of a handle disposes
\* it and empties the slot, and the idle lock hears of it.
End_keepsKey(o) ==
    /\ o \in Open /\ ChildrenDone(o)
    /\ phase' = [phase EXCEPT ![o] = IF @ = "running" THEN "done" ELSE "left"]
    /\ IF phase[o] = "running"
       THEN /\ disposed' = IF ambient = o THEN disposed \cup {o} ELSE disposed
            /\ ambient' = None
            /\ locked' = (locked \/ lockPending)
            /\ lockPending' = FALSE
       ELSE UNCHANGED <<disposed, ambient, lock>>
    /\ UNCHANGED <<expired, opCount, prompt, signatures, overlapped>>
End_anyoneDisposes(o) ==
    /\ o \in Open /\ ChildrenDone(o)
    /\ phase' = [phase EXCEPT ![o] = IF @ = "running" THEN "done" ELSE "left"]
    /\ disposed' = disposed \cup ({ambient} \ {None})
    /\ ambient' = None
    /\ locked' = (locked \/ lockPending)
    /\ lockPending' = FALSE
    /\ UNCHANGED <<expired, opCount, prompt, signatures, overlapped>>
End(o) ==
    /\ o \in Open /\ ChildrenDone(o)
    /\ phase' = [phase EXCEPT ![o] = IF @ = "running" THEN "done" ELSE "left"]
    /\ IF phase[o] = "running"
       THEN /\ disposed' = disposed \cup {o}
            /\ ambient' = None
            /\ locked' = (locked \/ lockPending)
            /\ lockPending' = FALSE
       ELSE UNCHANGED <<disposed, ambient, lock>>
    /\ UNCHANGED <<expired, opCount, prompt, signatures, overlapped>>

\* A limited scope has been open for longer than its maxMs.
Expire_anyScope(o) ==
    /\ phase[o] = "running" /\ o \notin expired
    /\ expired' = expired \cup {o}
    /\ UNCHANGED <<phase, ambient, disposed, opCount, prompt, signatures, lock, overlapped>>
Expire(o) ==
    /\ phase[o] = "running" /\ o \in Limited \ expired
    /\ expired' = expired \cup {o}
    /\ UNCHANGED <<phase, ambient, disposed, opCount, prompt, signatures, lock, overlapped>>

\* checkIdle() finds the wallet idle for too long.
IdleTooLong ==
    /\ ~locked
    /\ IF ScopeActive THEN lockPending' = TRUE /\ UNCHANGED locked
       ELSE locked' = TRUE /\ lockPending' = FALSE
    /\ UNCHANGED <<phase, ambient, handles, prompt, signatures, overlapped>>

-----------------------------------------------------------------------------
\* The lock starts to end all sessions; until it has, operations go on.
Next ==
    \/ \E o \in Ops : \/ Ride(o) \/ Refuse(o) \/ Acquire(o)
                      \/ KeyDerived(o) \/ Authorized(o) \/ WrongPassword(o)
                      \/ Sign(o) \/ End(o) \/ Expire(o)
    \/ Submit
    \/ Dismiss
    \/ IdleTooLong

\* Derivations and checks end, and whoever sees the prompt answers it.
Fairness ==
    /\ WF_vars(Submit \/ Dismiss)
    /\ \A o \in Ops : WF_vars(KeyDerived(o))
    /\ \A o \in Ops : WF_vars(Authorized(o) \/ WrongPassword(o))

Spec     == Init /\ [][Next]_vars
FairSpec == Spec /\ Fairness

-----------------------------------------------------------------------------
(* Properties.                                                             *)

TypeOK ==
    /\ phase \in [Ops -> Phases]
    /\ ambient \in Ops \cup {None}
    /\ disposed \subseteq Ops
    /\ expired \subseteq Limited
    /\ opCount \in [Ops -> Nat]
    /\ pending \in Ops \cup {None}
    /\ deriving \subseteq Ops
    /\ signatures \in [Ops -> 0..MaxSignatures]
    /\ lockPending \in BOOLEAN
    /\ locked \in BOOLEAN
    /\ overlapped \in BOOLEAN

\* A handle is usable exactly as long as the operation that acquired it runs:
\* "only the outermost call disposes", and it always does, whatever nested or
\* independent operations rode on the handle or took the slot over meanwhile.
HandleLivesWithItsScope ==
    /\ \A o \in Ops : o \in disposed <=> phase[o] = "done"
    /\ ambient # None => phase[ambient] = "running"

\* Every signature is made under a password that was entered for that very
\* vault, by an operation that has not ended yet.
SignsUnderOwnPassword ==
    [][\A o \in Ops : signatures'[o] # signatures[o] =>
          \E x \in Ops : phase[x] = "running" /\ VaultOf[x] = VaultOf[o]]_vars

\* One password entry covers MaxOps further operations of a limited scope.
LimitedScopeIsBounded == \A o \in Limited : opCount[o] <= MaxOps

\* As long as no two operations were at the prompt at one time, the single
\* slots are sound: the operation that runs has the ambient handle, and the one
\* that asks for a password is the one the prompt shows.
SoundWithoutOverlap ==
    ~overlapped => \A o \in Ops :
        /\ phase[o] = "running" => ambient = o
        /\ phase[o] = "prompting" => pending = o

\* The idle lock never fires while an authorized operation is open.  The code
\* does not keep this: the scope an operation rides on, or the slot, may be
\* closed by another one.
LockNeverMidOperation == [][~locked /\ locked' => Open' = {}]_vars

=============================================================================
