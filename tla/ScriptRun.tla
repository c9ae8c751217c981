------------------------------ MODULE ScriptRun ------------------------------
(***************************************************************************)
(* Runs of wallet scripts: runScript() and executePlan() of                *)
(* src/src/scripting/runner.ts, the ScopeHolder of scope.ts that keeps one *)
(* authorization open across sends, the ways a sandboxed run ends          *)
(* (engine.ts), and the page that starts, aborts and approves              *)
(* (views/wallet/Scripting.vue).                                           *)
(*                                                                         *)
(* A call is one tx.send() or tx.crossChain() of the script.  Calls need   *)
(* not be awaited, so several may be on their way at one time and a call   *)
(* may outlive the run that made it.  Every await of scope.ts is the end   *)
(* of a step.  Of the session the module keeps the slot, the prompt and    *)
(* the handles of these calls, each named after the call that acquired it; *)
(* operations of other pages are Session's matter.                         *)
(***************************************************************************)
EXTENDS Integers, Sequences, FiniteSets, FiniteSetsExt

CONSTANTS
    Calls,             \* the calls the script makes
    Wallets, WalletOf, \* [Calls -> the wallet that signs]
    External,          \* wallets whose device or extension authorizes
    Keys, KeyOf,       \* [Calls -> the budget key it spends from]
    Amount,            \* [Calls -> base units of the intent's asset]
    Factor,            \* [Calls -> base units of the budget line in one of them]
    Signatures,        \* [Calls -> transactions it takes: 2 for crossChain]
    Limit,             \* [Keys -> base units of the budget line; 0 for no line]
    MaxSends,          \* cap on the transactions of a live run
    MaxPlanned,        \* MAX_PLANNED_INTENTS
    MaxApprovals,      \* bound: approvals of one plan
    MaxAtOnce,         \* bound: calls the script has under way at one time
    None

ASSUME CallsAssumption ==
    /\ None \notin Calls
    /\ WalletOf \in [Calls -> Wallets] /\ External \subseteq Wallets
    /\ KeyOf \in [Calls -> Keys]
    /\ Amount \in [Calls -> Nat] /\ Limit \in [Keys -> Nat]
    /\ Factor \in [Calls -> Nat \ {0}]
    /\ Signatures \in [Calls -> Nat \ {0}]
    /\ MaxSends \in Nat /\ MaxPlanned \in Nat /\ MaxApprovals \in Nat /\ MaxAtOnce \in Nat

VARIABLES
    mode,              \* "live" or "plan"
    stage,             \* "ready", "running", "closing", "returned"
    aborted,           \* the signal of the controller
    left,              \* the page was unmounted
    status,            \* [Calls -> progress]
    index,             \* [Calls -> the number a planned call was given, 0: none]
    intents,           \* the calls recorded, in order; in a plan: the plan
    spent,             \* [Keys -> counted against the budget]
    held,              \* the call whose open() the holder can release
    latest,            \* the call whose open() is the holder's `closed`
    scope,             \* [Calls -> progress of its open(), "none": not, or over]
    awaits,            \* [Calls -> the open() its releaseNow() waits for]
    ending,            \* the same for the end of the run or the execution
    ambient,           \* the call whose handle is in the session's slot
    own,               \* calls that run under a handle of their own
    prompt,            \* the call whose request the prompt shows
    deriving,          \* requests whose key the modal is deriving
    verifying,         \* calls whose key is checked on the canary
    review,            \* the page shows the plan
    step,              \* position executePlan() is at, 0: not executing
    total,             \* length of the plan when it was approved
    shown,             \* planResults of the page
    signed,            \* [Calls -> transactions signed by this execution]
    sent,              \* history: [Calls -> executions that signed]
    approvals,         \* history: approvals so far
    prompts,           \* history: requests of this execution
    late,              \* history: calls on their way to a scope at the return
    mixed,             \* history: calls of two wallets were on their way at once
    doubled            \* history: a call opened while another's open() was asking

page == <<review, step, total, shown, approvals>>
script == <<mode, stage, left, index, late>>
holder == <<held, latest, scope, awaits>>
session == <<ambient, own, deriving, verifying>>
asking == <<prompt, prompts>>
history == <<mixed, doubled>>
vars == <<script, aborted, status, intents, spent, holder, ending, session, asking,
          page, signed, sent, history>>

Statuses == {"idle", "asked", "planned", "closing", "opening", "opened",
             "asking", "executing", "barred", "done", "failed"}

\* run() was called and has not come to its end.
UnderWay == {"closing", "opening", "opened", "asking", "executing", "barred"}
OnItsWay == {c \in Calls : status[c] \in UnderWay}

Rows == {"pending", "running", "done", "failed", "skipped"}

Planning == mode = "plan"
Executing == step # 0

-----------------------------------------------------------------------------
Init ==
    /\ mode \in {"live", "plan"}
    /\ stage = "ready" /\ aborted = FALSE /\ left = FALSE
    /\ status = [c \in Calls |-> "idle"]
    /\ index = [c \in Calls |-> 0]
    /\ intents = <<>>
    /\ spent = [k \in Keys |-> 0]
    /\ held = None /\ latest = None /\ ending = None
    /\ scope = [c \in Calls |-> "none"]
    /\ awaits = [c \in Calls |-> None]
    /\ ambient = None /\ own = {}
    /\ prompt = None /\ deriving = {} /\ verifying = {}
    /\ review = FALSE /\ step = 0 /\ total = 0 /\ shown = <<>>
    /\ signed = [c \in Calls |-> 0]
    /\ sent = [c \in Calls |-> 0]
    /\ approvals = 0 /\ prompts = 0
    /\ late = {} /\ mixed = FALSE /\ doubled = FALSE

-----------------------------------------------------------------------------
(* ScopeHolder.                                                            *)

\* What withAuthorization() finds: nothing to ask for, a scope it may not use
\* (SessionBusy, or one past its limits), or no scope.
Authorized(c) == WalletOf[c] \in External \/ (ambient # None /\ WalletOf[ambient] = WalletOf[c])
Refusable(c) == WalletOf[c] \notin External /\ ambient # None
Unauthorized(c) == WalletOf[c] \notin External /\ ambient = None

OwnScope(c) == held # None /\ WalletOf[held] = WalletOf[c]
\* The scope whose end is waited for, if any, is closed.
Settled(h) == h # None => scope[h] = "none"

\* The request of c takes the prompt's slot, whoever was in it.
Request(c) ==
    /\ prompt' = c
    /\ prompts' = IF Planning THEN prompts + 1 ELSE 0

ReleaseNow_dropsRelease ==
    /\ held' = None /\ latest' = None
    /\ UNCHANGED scope
ReleaseNow ==
    /\ held' = None /\ latest' = None
    /\ scope' = IF held = None THEN scope
                ELSE [scope EXCEPT ![held] = IF @ = "owns" THEN "closing" ELSE "none"]

\* open(), up to its await.
Open(c) ==
    /\ latest' = c
    /\ doubled' = (doubled \/ \E d \in Calls : scope[d] = "asks")
    /\ \/ /\ Authorized(c)
          /\ status' = [status EXCEPT ![c] = "opened"]
          /\ scope' = [scope EXCEPT ![c] = "rides"]
          /\ held' = c
          /\ UNCHANGED asking
       \/ /\ Refusable(c)
          /\ status' = [status EXCEPT ![c] = "barred"]
          /\ UNCHANGED <<scope, held, asking>>
       \/ /\ Unauthorized(c)
          /\ status' = [status EXCEPT ![c] = "opening"]
          /\ scope' = [scope EXCEPT ![c] = "asks"]
          /\ Request(c)
          /\ UNCHANGED held

\* The nested authorizeBatch() around the intent, up to its await.
Nest(c) ==
    /\ \/ /\ Authorized(c)
          /\ status' = [status EXCEPT ![c] = "executing"]
          /\ UNCHANGED asking
       \/ /\ Refusable(c)
          /\ status' = [status EXCEPT ![c] = "barred"]
          /\ UNCHANGED asking
       \/ /\ Unauthorized(c)
          /\ status' = [status EXCEPT ![c] = "asking"]
          /\ Request(c)
    /\ UNCHANGED <<held, latest, scope, doubled>>

\* run(), up to its first await.
Run_releasesAlways(c) ==
    /\ mixed' = (mixed \/ \E d \in OnItsWay : WalletOf[d] # WalletOf[c])
    /\ \/ /\ held # None
          /\ ReleaseNow
          /\ awaits' = [awaits EXCEPT ![c] = latest]
          /\ status' = [status EXCEPT ![c] = "closing"]
          /\ UNCHANGED <<asking, doubled>>
       \/ held = None /\ Open(c) /\ UNCHANGED awaits
Run(c) ==
    /\ mixed' = (mixed \/ \E d \in OnItsWay : WalletOf[d] # WalletOf[c])
    /\ \/ /\ held # None /\ ~OwnScope(c)
          /\ ReleaseNow
          /\ awaits' = [awaits EXCEPT ![c] = latest]
          /\ status' = [status EXCEPT ![c] = "closing"]
          /\ UNCHANGED <<asking, doubled>>
       \/ held = None /\ Open(c) /\ UNCHANGED awaits
       \/ OwnScope(c) /\ Nest(c) /\ UNCHANGED awaits

\* releaseNow() returned: the holder may hold another call's scope by now.
GoOn(c) ==
    /\ status[c] = "closing" /\ Settled(awaits[c])
    /\ awaits' = [awaits EXCEPT ![c] = None]
    /\ IF held = None THEN Open(c) ELSE Nest(c)
    /\ UNCHANGED <<script, aborted, intents, spent, ending, session, page, signed, sent, mixed>>

\* open() returned.
Enter(c) ==
    /\ status[c] = "opened"
    /\ Nest(c)
    /\ UNCHANGED <<script, aborted, intents, spent, awaits, ending, session, page, signed, sent, mixed>>

\* The finally of a released scope disposes its handle and empties the slot,
\* whoever is in it.
Closed(h) ==
    /\ scope[h] = "closing"
    /\ scope' = [scope EXCEPT ![h] = "none"]
    /\ ambient' = None
    /\ UNCHANGED <<script, aborted, status, intents, spent, held, latest, awaits, ending, own, deriving, verifying, asking, page, signed, sent, history>>

-----------------------------------------------------------------------------
(* The script.                                                             *)

Start ==
    /\ stage = "ready" /\ ~left
    /\ stage' = "running"
    /\ UNCHANGED <<mode, left, index, late, aborted, status, intents, spent, holder, ending, session, asking, page, signed, sent, history>>

\* The sandbox passes a call on unless the run is to stop; its number, by which
\* the page finds the row of a planned one, is taken before its arguments are
\* checked.
Ask(c) ==
    /\ stage = "running" /\ ~aborted
    /\ status[c] = "idle"
    /\ Cardinality(OnItsWay \cup {d \in Calls : status[d] = "asked"}) < MaxAtOnce
    /\ status' = [status EXCEPT ![c] = "asked"]
    /\ index' = IF Planning THEN [index EXCEPT ![c] = Len(intents) + 1] ELSE index
    /\ UNCHANGED <<mode, stage, left, late, aborted, intents, spent, holder, ending, session, asking, page, signed, sent, history>>

\* normalizeSend() or record() throws.
Refuse(c) ==
    /\ status[c] = "asked"
    /\ status' = [status EXCEPT ![c] = "failed"]
    /\ UNCHANGED <<script, aborted, intents, spent, holder, ending, session, asking, page, signed, sent, history>>

RecordPlanned(c) ==
    /\ status[c] = "asked" /\ Planning
    /\ Len(intents) < MaxPlanned
    /\ intents' = Append(intents, c)
    /\ status' = [status EXCEPT ![c] = "planned"]
    /\ UNCHANGED <<script, aborted, spent, holder, ending, session, asking, page, signed, sent, history>>

\* The base units of the intent and of the budget line are added and compared
\* as numbers, whatever the decimals of each.
WithinBudget(c) ==
    /\ Limit[KeyOf[c]] # 0
    /\ spent[KeyOf[c]] + Amount[c] <= Limit[KeyOf[c]]

Total(calls) == MapThenSumSet(LAMBDA c : Amount[c], calls)

\* Counted when it was sent, so that sends on their way are not.
RecordLive_countsAfterwards(c) ==
    /\ status[c] = "asked" /\ ~Planning
    /\ Len(intents) < MaxSends /\ ~aborted /\ WithinBudget(c)
    /\ intents' = Append(intents, c)
    /\ spent' = [k \in Keys |-> Total({x \in Calls : status[x] = "done" /\ KeyOf[x] = k})]
    /\ Run(c)
    /\ UNCHANGED <<script, aborted, ending, session, page, signed, sent>>
\* The run need not be going on any more.
RecordLive(c) ==
    /\ status[c] = "asked" /\ ~Planning
    /\ Len(intents) < MaxSends /\ ~aborted /\ WithinBudget(c)
    /\ intents' = Append(intents, c)
    /\ spent' = [spent EXCEPT ![KeyOf[c]] = @ + Amount[c]]
    /\ Run(c)
    /\ UNCHANGED <<script, aborted, ending, session, page, signed, sent>>

\* The script ends or fails, whether or not it awaited its calls, or the
\* watchdog ends it.  A plan is shown if the script succeeded.
Return_keepsScope ==
    /\ stage = "running"
    /\ late' = {c \in Calls : status[c] \in {"asked", "closing", "opening", "opened", "asking"}} \cup own
    /\ stage' = "returned"
    /\ review' \in {FALSE, Planning /\ intents # <<>> /\ ~left}
    /\ shown' = IF review' THEN [i \in DOMAIN intents |-> "pending"] ELSE <<>>
    /\ UNCHANGED <<mode, left, index, aborted, status, intents, spent, holder, ending, session, asking, step, total, approvals, signed, sent, history>>
Return ==
    /\ stage = "running"
    /\ late' = {c \in Calls : status[c] \in {"asked", "closing", "opening", "opened", "asking"}} \cup own
    /\ IF Planning
       THEN /\ stage' = "returned"
            /\ review' \in {FALSE, intents # <<>> /\ ~left}
            /\ shown' = IF review' THEN [i \in DOMAIN intents |-> "pending"] ELSE <<>>
            /\ UNCHANGED <<holder, ending>>
       ELSE /\ stage' = "closing"
            /\ ReleaseNow
            /\ ending' = IF held = None THEN None ELSE latest
            /\ UNCHANGED <<awaits, review, shown>>
    /\ UNCHANGED <<mode, left, index, aborted, status, intents, spent, session, asking, step, total, approvals, signed, sent, history>>

\* The page releases once more what was opened meanwhile.
Finish ==
    /\ stage = "closing" /\ Settled(ending)
    /\ stage' = "returned"
    /\ ReleaseNow
    /\ ending' = None
    /\ UNCHANGED <<mode, left, index, late, aborted, status, intents, spent, awaits, session, asking, page, signed, sent, history>>

-----------------------------------------------------------------------------
(* executePlan().                                                          *)

\* onResult(): the page looks the row up by the number of the intent, and adds
\* a row where it has none.
Row(c) == Min({i \in DOMAIN intents : index[intents[i]] = index[c]})
Mark(rows, c, st) ==
    LET n == Row(c)
    IN IF n <= Len(rows) THEN [rows EXCEPT ![n] = st] ELSE Append(rows, st)

\* One call after the other.
MarkEach(rows, calls, st) ==
    LET marked[k \in 0..Len(calls)] ==
            IF k = 0 THEN rows ELSE Mark(marked[k - 1], calls[k], st)
    IN marked[Len(calls)]

MarkRest(rows, from, st) == MarkEach(rows, SubSeq(intents, from, total), st)

PlanFinished == shown # <<>> /\ \A i \in DOMAIN shown : shown[i] \notin {"pending", "running"}

Approve ==
    /\ review /\ ~Executing /\ Settled(ending) /\ ~left /\ stage = "returned"
    /\ ~PlanFinished
    /\ approvals < MaxApprovals
    /\ approvals' = approvals + 1
    /\ total' = Len(intents)
    /\ aborted' = FALSE
    /\ step' = 1
    /\ shown' = Mark(MarkEach(shown, intents, "pending"), intents[1], "running")
    /\ ending' = None
    /\ Run(intents[1])
    /\ UNCHANGED <<script, intents, spent, session, review, signed, sent>>

\* The finally of executePlan() and of approve().
Stop(rows, from) ==
    /\ step' = 0
    /\ shown' = MarkRest(rows, from, "skipped")
    /\ ReleaseNow
    /\ ending' = IF held = None THEN None ELSE latest
    /\ prompts' = 0
    /\ UNCHANGED <<status, awaits, prompt, history>>

\* The step is done, the loop goes on at its head.
Advance ==
    /\ Executing /\ status[intents[step]] = "done"
    /\ LET rows == Mark(shown, intents[step], "done")
       IN IF step < total /\ ~aborted
          THEN /\ step' = step + 1
               /\ shown' = Mark(rows, intents[step + 1], "running")
               /\ Run(intents[step + 1])
               /\ UNCHANGED ending
          ELSE Stop(rows, step + 1)
    /\ UNCHANGED <<script, aborted, intents, spent, session, review, total, approvals, signed, sent>>

\* The step failed: the plan stops, its other steps are skipped.
StepFailed_continues ==
    /\ Executing /\ status[intents[step]] = "failed"
    /\ LET rows == Mark(shown, intents[step], "failed")
       IN IF step < total /\ ~aborted
          THEN /\ step' = step + 1
               /\ shown' = Mark(rows, intents[step + 1], "running")
               /\ Run(intents[step + 1])
               /\ UNCHANGED ending
          ELSE Stop(rows, step + 1)
    /\ UNCHANGED <<script, aborted, intents, spent, session, review, total, approvals, signed, sent>>
StepFailed_forgetsRest ==
    /\ Executing /\ status[intents[step]] = "failed"
    /\ step' = 0
    /\ shown' = Mark(shown, intents[step], "failed")
    /\ ReleaseNow
    /\ ending' = IF held = None THEN None ELSE latest
    /\ prompts' = 0
    /\ UNCHANGED <<script, aborted, status, intents, spent, awaits, prompt, session, review, total, approvals, signed, sent, history>>
StepFailed ==
    /\ Executing /\ status[intents[step]] = "failed"
    /\ Stop(Mark(shown, intents[step], "failed"), step + 1)
    /\ UNCHANGED <<script, aborted, intents, spent, session, review, total, approvals, signed, sent>>

-----------------------------------------------------------------------------
(* The prompt.                                                             *)

Submit ==
    /\ prompt # None /\ prompt \notin deriving
    /\ deriving' = deriving \cup {prompt}
    /\ UNCHANGED <<script, aborted, status, intents, spent, holder, ending, ambient, own, verifying, asking, page, signed, sent, history>>

\* settle(key) of the request that was submitted, shown or not: it empties the
\* slot.
KeyDerived(c) ==
    /\ c \in deriving
    /\ deriving' = deriving \ {c}
    /\ verifying' = verifying \cup {c}
    /\ prompt' = None
    /\ UNCHANGED <<script, aborted, status, intents, spent, holder, ending, ambient, own, prompts, page, signed, sent, history>>

\* The canary decrypts: the handle takes the session's slot.
Unlocked_holdsWallet(c) ==
    /\ c \in verifying
    /\ verifying' = verifying \ {c}
    /\ ambient' = c
    /\ status' = [status EXCEPT ![c] = "opened"]
    /\ scope' = [scope EXCEPT ![c] = "owns"]
    /\ held' = WalletOf[c]
    /\ UNCHANGED <<script, aborted, intents, spent, own, latest, awaits, ending, deriving, asking, page, signed, sent, history>>
Unlocked(c) ==
    /\ c \in verifying
    /\ verifying' = verifying \ {c}
    /\ ambient' = c
    /\ \/ /\ status[c] = "opening"             \* for the holder
          /\ status' = [status EXCEPT ![c] = "opened"]
          /\ scope' = [scope EXCEPT ![c] = "owns"]
          /\ held' = c
          /\ UNCHANGED own
       \/ /\ status[c] = "asking"              \* for the intent alone
          /\ status' = [status EXCEPT ![c] = "executing"]
          /\ own' = own \cup {c}
          /\ UNCHANGED <<scope, held>>
    /\ UNCHANGED <<script, aborted, intents, spent, latest, awaits, ending, deriving, asking, page, signed, sent, history>>

WrongPassword(c) ==
    /\ c \in verifying
    /\ verifying' = verifying \ {c}
    /\ prompt' = c
    /\ UNCHANGED <<script, aborted, status, intents, spent, holder, ending, ambient, own, deriving, prompts, page, signed, sent, history>>

\* SessionAuthCancelled; a derivation that still runs settles nothing any more.
Dismiss ==
    /\ prompt # None
    /\ status' = [status EXCEPT ![prompt] = "failed"]
    /\ scope' = IF status[prompt] = "opening" THEN [scope EXCEPT ![prompt] = "none"] ELSE scope
    /\ deriving' = deriving \ {prompt}
    /\ prompt' = None
    /\ UNCHANGED <<script, aborted, intents, spent, held, latest, awaits, ending, ambient, own, verifying, prompts, page, signed, sent, history>>

-----------------------------------------------------------------------------
(* The execution of an intent.                                             *)

\* One more transaction of the intent is signed and broadcast.
Sign(c) ==
    /\ status[c] = "executing" /\ signed[c] < Signatures[c]
    /\ Authorized(c)
    /\ signed' = [signed EXCEPT ![c] = @ + 1]
    /\ sent' = [sent EXCEPT ![c] = IF signed[c] = 0 THEN @ + 1 ELSE @]
    /\ UNCHANGED <<script, aborted, status, intents, spent, holder, ending, session, asking, page, history>>

\* run() ends; a handle of the call's own is disposed.
Over_disposesAny(c, st) ==
    /\ status' = [status EXCEPT ![c] = st]
    /\ signed' = [signed EXCEPT ![c] = 0]
    /\ own' = own \ {c}
    /\ ambient' = None
    /\ UNCHANGED <<script, aborted, intents, spent, holder, ending, deriving, verifying, asking, page, sent, history>>
Over(c, st) ==
    /\ status' = [status EXCEPT ![c] = st]
    /\ signed' = [signed EXCEPT ![c] = 0]
    /\ own' = own \ {c}
    /\ ambient' = IF c \in own THEN None ELSE ambient
    /\ UNCHANGED <<script, aborted, intents, spent, holder, ending, deriving, verifying, asking, page, sent, history>>

Done(c) ==
    /\ status[c] = "executing" /\ signed[c] = Signatures[c]
    /\ Over(c, "done")

\* The network, the device, or requireAuth() of a scope that was closed; or the
\* call was never let in.
Throw(c) ==
    /\ status[c] \in {"executing", "barred"}
    /\ Over(c, "failed")

-----------------------------------------------------------------------------
(* The user.  There is no Abort for an approved plan, other than to leave. *)

Abort ==
    /\ stage \in {"running", "closing"} /\ ~left /\ ~aborted
    /\ aborted' = TRUE
    /\ UNCHANGED <<script, status, intents, spent, holder, ending, session, asking, page, signed, sent, history>>

\* onBeforeUnmount; the controller and the holder are gone once a run is over.
Leave ==
    /\ ~left /\ stage # "ready"
    /\ left' = TRUE
    /\ IF stage \in {"running", "closing"} \/ Executing
       THEN aborted' = TRUE /\ ReleaseNow
       ELSE UNCHANGED <<aborted, held, latest, scope>>
    /\ UNCHANGED <<mode, stage, index, late, status, intents, spent, awaits, ending, session, asking, page, signed, sent, history>>

Next ==
    \/ Start \/ Return \/ Finish \/ Approve \/ Advance \/ StepFailed
    \/ Submit \/ Dismiss \/ Abort \/ Leave
    \/ \E c \in Calls : \/ Ask(c) \/ Refuse(c) \/ RecordPlanned(c) \/ RecordLive(c)
                        \/ GoOn(c) \/ Enter(c) \/ Closed(c)
                        \/ KeyDerived(c) \/ Unlocked(c) \/ WrongPassword(c)
                        \/ Sign(c) \/ Done(c) \/ Throw(c)

Spec == Init /\ [][Next]_vars

-----------------------------------------------------------------------------
(* Properties.                                                             *)

TypeOK ==
    /\ mode \in {"live", "plan"} /\ stage \in {"ready", "running", "closing", "returned"}
    /\ aborted \in BOOLEAN /\ left \in BOOLEAN /\ review \in BOOLEAN
    /\ status \in [Calls -> Statuses]
    /\ index \in [Calls -> Nat]
    /\ intents \in Seq(Calls)
    /\ spent \in [Keys -> Nat]
    /\ held \in Calls \cup {None} /\ latest \in Calls \cup {None} /\ ending \in Calls \cup {None}
    /\ scope \in [Calls -> {"none", "asks", "rides", "owns", "closing"}]
    /\ awaits \in [Calls -> Calls \cup {None}]
    /\ ambient \in Calls \cup {None} /\ prompt \in Calls \cup {None}
    /\ own \subseteq Calls /\ deriving \subseteq Calls /\ verifying \subseteq Calls
    /\ step \in Nat /\ total \in Nat /\ approvals \in 0..MaxApprovals
    /\ shown \in Seq(Rows)
    /\ signed \in [Calls -> Nat] /\ sent \in [Calls -> Nat] /\ prompts \in Nat
    /\ late \subseteq Calls /\ mixed \in BOOLEAN /\ doubled \in BOOLEAN

OutOf(k) == {c \in Calls : sent[c] > 0 /\ KeyOf[c] = k}

\* What a live run signs, sends on their way and failed ones included, stays
\* within the number of transactions the user allowed and, for every asset all
\* of whose intents count in the base units of its budget line, within its
\* budget, however the script interleaves its calls.
BudgetHolds ==
    ~Planning =>
        /\ Cardinality({c \in Calls : sent[c] > 0}) <= MaxSends
        /\ \A k \in Keys : (\A c \in Calls : KeyOf[c] = k => Factor[c] = 1)
                               => Total(OutOf(k)) <= Limit[k]

\* "Only assets you give a budget can be spent, never more than that": of any
\* asset, in the units of its budget line.  The code does not keep this: a move
\* out of the C-Chain counts 10^9 times too little.
Worth(calls) == MapThenSumSet(LAMBDA c : Amount[c] * Factor[c], calls)
NeverMoreThanBudget == ~Planning => \A k \in Keys : Worth(OutOf(k)) <= Limit[k]

\* A plan is signed only while the user's approval executes it, in the order
\* that was shown, and never past a step that is not done.
SignsPlanInOrder ==
    [][\A c \in Calls : Planning /\ signed'[c] > signed[c] =>
          /\ Executing /\ intents[step] = c
          /\ \A i \in 1..(step - 1) : status[intents[i]] = "done"]_vars

\* An approved plan loses the authorization of the intent it is executing, which
\* may leave an export without its import, only when the page is left.  A live
\* run that is going on loses it only when the script did not await its calls:
\* those of two wallets overlapped, or two were opening a scope at once.
InFlightKeepsScope ==
    \A c \in Calls : status[c] = "executing" /\ ~Authorized(c) =>
        \/ left
        \/ ~Planning /\ (stage # "running" \/ mixed \/ doubled)

\* Once the script is over, and the execution of its plan, neither the holder
\* nor the session keeps a scope, but for the calls that were on their way to
\* one when the script returned, or ran under one of their own.
ScopeReleased ==
    stage \in {"closing", "returned"} /\ ~Executing =>
        /\ held \in late \cup {None}
        /\ ambient \in late \cup {None} \/ scope[ambient] = "closing"

\* Whoever releases the holder waits for a scope that is closing, unless two
\* calls were opening scopes at once: then it may be the other's, which nobody
\* releases, and neither the run nor the page ever ends it.
AwaitsItsOwnRelease ==
    ~doubled => /\ \A c \in Calls : awaits[c] # None => scope[awaits[c]] \in {"closing", "none"}
                /\ ending # None => scope[ending] \in {"closing", "none"}

\* Approving a plan asks for the password as often as its review said at most:
\* once for each run of steps on the same wallet.
Reviewed == Cardinality({i \in DOMAIN intents : i = 1 \/ WalletOf[intents[i]] # WalletOf[intents[i - 1]]})
AsksAsReviewed == ~left => prompts <= Reviewed

\* Provided that the steps of a plan have numbers of their own, no intent is
\* executed twice, whatever fails and however often the user approves.
SentOnceIfNumbered ==
    (Planning => \A i, j \in DOMAIN intents : index[intents[i]] = index[intents[j]] => i = j)
        => \A c \in Calls : sent[c] <= 1

\* "Approving executes exactly those recorded intents": none twice.  The code
\* does not keep this when calls of the script overlap.
SentOnce == \A c \in Calls : sent[c] <= 1

=============================================================================
