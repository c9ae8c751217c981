------------------------------- MODULE SignOnly -------------------------------
(***************************************************************************)
(* Sign-only operations: authorizeWalletOp() of js/security/authorize.ts   *)
(* around the operations of Session, the switches and the captured         *)
(* transactions of src/stores/offlineSigning.ts, and the helpers that      *)
(* broadcast (helpers/issueTx.ts, helpers/broadcastEvm.ts).                *)
(*                                                                         *)
(* The one-shot switch and the list of captured transactions are one for   *)
(* all operations.  Those of a Ledger or an extension have no session and  *)
(* share the switch; an extension sends by itself, so nothing is issued.   *)
(***************************************************************************)
EXTENDS Session

CONSTANT DeviceOps     \* operations a Ledger or an extension authorizes

ASSUME DeviceOpsAssumption == DeviceOps \cap (Ops \cup {None}) = {}

VARIABLES
    isEnabled, oneShot, \* the setting, and the switch of one operation
    records,           \* operations with captured transactions in the list
    device,            \* [DeviceOps -> progress]
    ticked,            \* history: the user ticked since an operation ended
    alone,             \* history: the operation nothing crossed so far, or None
    asked,             \* history: that operation was to be signed only
    fate               \* history: what became of its transactions

history == <<ticked, alone, asked, fate>>
offline == <<isEnabled, oneShot, records, history>>

isActive == isEnabled \/ oneShot

UnderWay ==
    {o \in Ops : phase[o] \in {"prompting", "verifying", "running", "riding"}} \cup
    {d \in DeviceOps : device[d] = "running"}

SwitchInit ==
    /\ Init
    /\ isEnabled \in BOOLEAN           \* from localStorage
    /\ oneShot = FALSE
    /\ records = {}
    /\ device = [d \in DeviceOps |-> "idle"]
    /\ ticked = FALSE
    /\ alone = None /\ asked = FALSE /\ fate = {}

-----------------------------------------------------------------------------
(* authorizeWalletOp().                                                    *)

\* It starts with an empty list.
Begins_keepsRecords(o) ==
    /\ alone' = IF UnderWay = {} THEN o ELSE None
    /\ asked' = (UnderWay = {} /\ (isEnabled \/ ticked))
    /\ fate' = {}
    /\ UNCHANGED <<isEnabled, oneShot, records, ticked>>
Begins(o) ==
    /\ records' = {}
    /\ alone' = IF UnderWay = {} THEN o ELSE None
    /\ asked' = (UnderWay = {} /\ (isEnabled \/ ticked))
    /\ fate' = {}
    /\ UNCHANGED <<isEnabled, oneShot, ticked>>

\* endOperation() in its finally, whichever operation that is.
Over_keepsSwitch ==
    /\ ticked' = FALSE
    /\ alone' = None /\ asked' = FALSE /\ fate' = {}
    /\ UNCHANGED <<isEnabled, oneShot>>
Over ==
    /\ oneShot' = FALSE
    /\ ticked' = FALSE
    /\ alone' = None /\ asked' = FALSE /\ fate' = {}
    /\ UNCHANGED isEnabled

Ends == Over /\ UNCHANGED records

\* Refused before it could start, the operation clears the list all the same.
Bounces == Over /\ records' = {}

-----------------------------------------------------------------------------
(* A signed transaction is broadcast, or captured and shown.               *)

Issues(o) ==
    /\ records' = IF isActive THEN records \cup {o} ELSE records
    /\ fate' = IF alone = o THEN fate \cup {IF isActive THEN "captured" ELSE "broadcast"} ELSE fate
    /\ UNCHANGED <<isEnabled, oneShot, ticked, alone, asked>>

Issue(o) ==
    /\ o \in Open /\ signatures[o] > 0
    /\ Issues(o)
    /\ UNCHANGED <<vars, device>>

(* Operations of the device: nobody is asked for a password.               *)

DeviceBegin(d) ==
    /\ device[d] = "idle"
    /\ device' = [device EXCEPT ![d] = "running"]
    /\ Begins(d)
    /\ UNCHANGED vars

DeviceIssue(d) ==
    /\ device[d] = "running"
    /\ Issues(d)
    /\ UNCHANGED <<vars, device>>

DeviceEnd(d) ==
    /\ device[d] = "running"
    /\ device' = [device EXCEPT ![d] = "idle"]
    /\ Ends
    /\ UNCHANGED vars

-----------------------------------------------------------------------------
(* The user, who may be on any page while operations are under way.        *)

Crossed == alone' = None /\ asked' = FALSE /\ fate' = {}

\* The checkbox, which shows the switch; it is hidden while the setting is on.
Toggle ==
    /\ ~isEnabled
    /\ oneShot' = ~oneShot
    /\ ticked' = ~oneShot
    /\ Crossed
    /\ UNCHANGED <<vars, device, isEnabled, records>>

SetEnabled ==
    /\ isEnabled' = ~isEnabled
    /\ Crossed
    /\ UNCHANGED <<vars, device, oneShot, records, ticked>>

\* "Done" below the captured transactions.
ClearRecords ==
    /\ records # {}
    /\ records' = {}
    /\ Crossed
    /\ UNCHANGED <<vars, device, isEnabled, oneShot, ticked>>

\* resetSession() when the wallet is closed; what is under way goes on.
ResetSession ==
    /\ oneShot' = FALSE /\ records' = {} /\ ticked' = FALSE
    /\ Crossed
    /\ UNCHANGED <<vars, device, isEnabled>>

-----------------------------------------------------------------------------
Elsewhere ==
    \/ Submit \/ IdleTooLong
    \/ \E o \in Ops : KeyDerived(o) \/ Authorized(o) \/ WrongPassword(o) \/ Sign(o) \/ Expire(o)

SwitchNext ==
    \/ \E o \in Ops : Ride(o) /\ Begins(o) /\ UNCHANGED device
    \/ \E o \in Ops : Acquire(o) /\ Begins(o) /\ UNCHANGED device
    \/ \E o \in Ops : Refuse(o) /\ Bounces /\ UNCHANGED device
    \/ \E o \in Ops : End(o) /\ Ends /\ UNCHANGED device
    \/ Dismiss /\ Ends /\ UNCHANGED device
    \/ \E o \in Ops : Issue(o)
    \/ Elsewhere /\ UNCHANGED <<offline, device>>
    \/ \E d \in DeviceOps : DeviceBegin(d) \/ DeviceIssue(d) \/ DeviceEnd(d)
    \/ Toggle \/ SetEnabled \/ ClearRecords \/ ResetSession

switchVars == <<vars, offline, device>>

SwitchSpec == SwitchInit /\ [][SwitchNext]_switchVars

-----------------------------------------------------------------------------
(* Properties.                                                             *)

\* A page's "sign only" checkbox "can never leak into the next operation", and
\* holds for its own: as long as nothing else began, ended or was clicked since
\* an operation began, all its transactions are captured and are the ones shown
\* if the user asked for that since the operation before, and none otherwise.
SignOnlyHolds ==
    alone # None =>
        /\ fate \subseteq {IF asked THEN "captured" ELSE "broadcast"}
        /\ records = IF "captured" \in fate THEN {alone} ELSE {}

=============================================================================
