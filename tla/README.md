# A verification project for the AVXTO wallet

AVXTO is a browser wallet for Avalanche, Bitcoin, Solana and EVM chains, written
in TypeScript on Vue and Pinia.  It has no server of its own: everything runs on
one JavaScript thread per tab, talks to public endpoints, and keeps secrets in
memory behind a session password.  What makes it hard is not threads but
*awaits*: between any two of them another page, a timer, a poller, the user or a
network answer may run, and most of the code's state is module-level.

This directory holds TLA+ modules that model the parts of the wallet where that
matters, TLC configurations that check them on small instances, and TLAPS proofs
that hold for every instance.  Paths below are relative to the repository.

## 1. Inventory

### Components that are modelled

**Request limiter** (`src/providers/rate_limiter.ts`, class
`FixedWindowRateLimiter`).  Every `fetch` and most `axios` calls of the wallet
await `acquire()`.
*State*: `maxRequests`, `windowMs`, `count`, `windowStart`, `queue`,
`resetTimer`, `isBlocked`, `isPaused`, `pauseQueue`, and the timers of `pause()`,
which nothing holds a reference to.
*Operations*: `acquire`, `pause`, `resume`, `block`, `configure`, `loadConfig`, the
reset timer, the pause timers.
*Hard*: two queues and three modes with promises that move between them, timers
that may be late, a clock that is read in some methods only.
*Correct when*: no promise is lost or settled twice, no window exceeds its budget,
windows are not cut short, waiters are served in order and eventually, nobody
passes a pause or a block.

**Throttle escalation and RPC failover** (second half of `rate_limiter.ts`,
`src/providers/rpc_failover.ts`).  A 429, or a streak of opaque failures, from an
Avalanche endpoint pauses all traffic, probes the other networks of the same
networkId, reconnects to the first that answers, or blocks for good.  A 503 of any
host pauses traffic for a while; a 429 of a host that cannot be replaced gives that
host a cooldown.
*State*: `escalationPromise`, `failoverPromise`, `deadHosts`.
*Hard*: eligibility, candidates and dead hosts are read before awaits and used
after; the user's own network switch resets them meanwhile; the reconnect's requests
pass through the limiter the escalation has paused.
*Correct when*: one escalation at a time, it always ends, it never waits for itself,
its pause does not outlive it, no dead host is selected again, and the permanent
block comes only when every endpoint has failed.

**Network store** (`src/stores/network.ts`, `NetworkRow.vue`).
*State*: `selectedNetwork`, `status`, and the address of the SDK.
*Operation*: `setNetwork()`, called at boot, by the user and by failover runs.
*Hard*: a dozen awaits, no guard against a second call.
*Correct when*: after it, SDK, stores and pollers speak to one network; it ends.

**Session authorization** (`src/js/security/session.ts`, `passwordPrompt.ts`,
`SessionPasswordModal.vue`, `SessionVault.ts`).  Every signing operation runs inside
`withAuthorization()`, which prompts, derives a key, and disposes it when the
operation settles.  Signing primitives call `requireAuth()`.
*State*: the ambient handle, the pending prompt, per handle its vault, age, count and
whether it was disposed.
*Hard*: one slot for handles and one for prompts, both module-level, read before an
await and written after it; nested and independent calls look the same.
*Correct when*: a handle is usable exactly while its operation runs, a signature needs
a password of that very vault, one entry covers a bounded number of operations.

**Idle lock** (`src/views/Wallet.vue`).  *State*: `lockPending`, `locked`.
*Correct when*: it never fires while an authorized operation is open.

**Offline signing** (`authorize.ts`, `stores/offlineSigning.ts`, `helpers/issueTx.ts`,
`helpers/broadcastEvm.ts`, `SignOnlyToggle.vue`).  With the setting or the one-shot switch
on, a signed transaction is captured and shown instead of broadcast.
*State*: `isEnabled`, `oneShot`, `records`.
*Operations*: the start and the end of `authorizeWalletOp()`, `capture`, `setOneShot`,
`setEnabled`, `clearRecords`, `resetSession`.
*Hard*: one switch for all operations, reset by whichever ends, and read after awaits.
*Correct when*: what the user asked to sign only is captured, and nothing else is.

**Platform sessions** (`platforms/store.ts`, `stores/main.ts`, `platforms/evm/store.ts`,
`platforms/solana/store.ts`, `platforms/injectedChainSync.ts`, `router/index.ts`, `PlatformTabs.vue`).
Avalanche, EVM, Solana and Bitcoin each may have a session at one time; one is active.
*State*: a wallet per platform, `activePlatformId`, the page, the listeners on extensions,
passes under way.
*Operations*: unlock with a phrase (all platforms at once) or an extension (one after the
other), single forms, tabs, disconnect with hand-over, exit, events of the extensions,
switches of accounts.
*Hard*: what has a session is read before an await and replaced after it; listeners
outlive sessions; a disconnect either hands over or reloads, and a reload ends everything.
*Correct when*: the wallet is never shown for a platform without a session, a pass does not
replace a session that works, and closing one session costs no other.

**Bitcoin swaps** (`bitcoinSwap/flows.ts`, `BitcoinSwaps.vue`).  A swap sends one or two
transactions, waits for Lombard, and may need a second step that the user starts.
*State*: the list of records (mirrored to `localStorage`), `busy`, `continuing`, what is awaited.
*Operations*: runs, `saveSwap`, `refreshSwap`, `continueQuickBtcToAvax` behind the gate of its
button, `removeSwap`, mount and unmount, reload.
*Hard*: copies of records are saved after awaits; answers are lost or late; a click awaits the
chain before it acts; a reload comes between a transaction and its record; the list is bounded.
*Correct when*: no second step is sent twice, a swap that is out has a record that is not ahead
of the truth, and what Lombard did is noticed.

**Scripting** (`scripting/runner.ts`, `scope.ts`, `engine.ts`, `execute.ts`, `intents.ts`,
`budget.ts`, `Scripting.vue`).  A sandboxed script sends within budgets (live), or records a
plan that the user approves and the wallet then executes.
*State*: intents, what is spent, the scope the holder keeps open and the promise of its end, the
rows of the plan.
*Operations*: start, a call, record, the holder's `run`, `open` and `releaseNow`, sign, return,
abort, approve, leave.
*Hard*: a script need not await its calls; the scope is shared between them, closing one and
opening another are awaited separately, and a prompt is up while others end; amounts of one asset
come in two units; steps of a plan fail half way.
*Correct when*: budgets hold, a plan is signed in order, once and with the prompts its review
announced, no intent loses its authorization, none is left, and nobody waits for a scope that
does not close.

### Components that are not modelled

| component | state and hard behaviour | why it is left out |
|---|---|---|
| Bitcoin platform scans (`platforms/bitcoin/store.ts`) | a scan writes the balance of the wallet it started with | only opening and ending its session is modelled, as one of the platforms |
| bridge records (`bridge/run.ts`, `bridge/history.ts`) | a transfer is recorded after it is sent | the pattern is that of `SwapRecords`, with a provider behind each step |
| pollers (`providers/polling_manager.ts`) | last heights, ticks that span a network change | what a refresh does is spread over asset stores that are not modelled |
| HD scan (`js/HdHelper.ts`, `js/wallets/AbstractHdWallet.ts`) | index, keychain and flags across rescans | loops over address sets; the races need the stores that read the indices |
| coin selection, discovery (`bitcoin/coinSelect.ts`, `discovery.ts`) | arithmetic | no state, and its unit tests enumerate it |
| multisig (`js/multisig/psat.ts`, `spend.ts`) | merging of partial signatures | pure functions over decoded transactions |
| custom networks (`stores/network.ts`) | adding, editing, removing | the list of networks is a constant of `Failover` |

The hazards of these are listed in `PROJECT.json` with no property.

Left out for good: the vendored libraries `src/avalanche` and
`src/avalanche-wallet-sdk` (codecs and RPC clients; modelled as requests that are
answered or fail), HTTP clients for prices and explorers (pure input and output),
cryptography, and the user interface except for the handlers named above.  These are by far
the largest part of the source, which is why the modelled part is small in lines.

### How they interact

    script run ──holds a scope──┐
    swap run, page, bridge ──> authorize ──> session ──prompt──> modal ──> user
              │             └─ sign-only switch └──scope closed──> idle lock ──> exit
              │                                                                   │
              │                    extension events, unlock passes ──> platform sessions
              v
        fetch, axios ──acquire──> limiter <──pause/resume/block── escalation
              │ 429, 503, opaque failure ──────────────────────────^   │
              v                                                        v
         endpoints <──setNetwork── network store <──setNetwork── failover run
                                        ^── user, boot

## 2. Modules

| module | what it is | theorems |
|---|---|---|
| `AdmissionGate` | what a caller of `acquire()` is promised, without windows, queues or timers | |
| `RateLimiter` | the limiter, one action per method or timer callback | `RateLimiter_proofs` |
| `Failover` | escalation, failover run and `setNetwork()`, one action per stretch between awaits; of the limiter only the modes | `Failover_proofs` |
| `Session` | authorization, prompt, idle lock | `Session_proofs` |
| `SignOnly` | `Session` with `authorizeWalletOp()` around it: the switches and the captured transactions | `SignOnly_proofs` |
| `ScriptRun` | a script's calls, the scope they share, the execution of a plan | `ScriptRun_lemmas`, `ScriptRun_proofs` |
| `PlatformSessions` | sessions, tabs, passes, disconnects | `PlatformSessions_proofs` |
| `SwapRecords` | runs, refreshes and second steps of Bitcoin swaps | `SwapRecords_proofs` |

The instance of a module `M` for TLC is `MCM`; `MCSession` and `MCSignOnly` are both instances
of the session, without and with the switches.

Definitions whose names end in `_something` are variants of the definition after
them with a plausible bug; no specification uses them.  Each property of a passing
run has one that breaks it.

### RateLimiter and the code

Every method runs to completion, so it is one action, with every call it makes:
`Pause`, `Resume`, `Block`, `Configure`, and `acquire()` as its four exits
`AcquireBlocked`, `AcquirePaused`, `AcquireSlot`, `AcquireQueued`.  `FireReset` is the
callback of `resetTimer`, `FireResume(i)` that of a pause.  `flushQueue()` and
`scheduleReset()` are operators the actions use.  The methods compare only
`Date.now() - windowStart` with `windowMs`, so the clock is kept as that difference
(`elapsed`), cut off at `ClockCap`, which is at least every window.  Timers run at their
due time or later, in any order with the calls, as in a browser.
The variable `window` is history: limit, span and admitted calls of the window in progress.
`configure()` is modelled behind the settings form (`Config.vue`), its only caller, which
refuses values below 1; stored settings pass the same test in `loadConfig()`.
`parseRetryAfter()` may return 0 for a date in the past, so a pause of 0 ms is an input.
`Date.now()` is assumed not to go backwards.

### Failover and the code

`Throttled` and `Classified` are `escalateThrottle()` before and after
`isFailoverEligibleHost()`; `Classified` includes `runEndpointEscalation()` up to its first
await.  `Resolve`, `ProbeFails`, `ProbeSucceeds`, `FailoverSwitchFails` and `Connected` are
the stretches of `tryEndpointFailover()` and `runFailover()`, `Conclude` is what
`runEndpointEscalation()` does with the result.  `UserSwitch`, `Loaded`, `Credentials`,
`AssetArrives`, `Connected`, `UserSwitchFails` are the stretches of `setNetwork()`.  The
networks are a sequence, as in the store, and the candidates of a run are positions in it, in
its order.  `failoverPromise` is set where a run starts; a run that goes on leaves it as it is, also when
a user's switch has set it to null.  A request is "sent" when the limiter let it through; a request that waits is let
through by `resume()` or rejected by `block()`.
Abstractions: windows and budgets (see RateLimiter), so a request that is not behind a pause
goes out at once; the timers of 503 pauses may fire at any time; the 600 s timer of an
escalation does not fire before its probes, of 8 s at most each, are over, and may fire
from then on; the streak counter of opaque failures and the cooldown of third-party hosts
(any contacted host may be found throttled, and may turn out not to be replaceable); the
requests of one stretch of `setNetwork()` count as one.

### Session and the code

One operation is one call of `withAuthorization()`.  `Ride`, `Refuse` and `Acquire` are its
three ways in, `KeyDerived`, `Authorized`, `WrongPassword`, `Dismiss` the ways on from the
prompt, `End` its `finally` with the scope-closed listener of the idle lock.  The modal acts on the
request that is shown, whatever was shown before; a derivation settles the request it was
started for.  A parent awaits the operations its `fn` starts.  The age of a scope is a flag
that may rise at any time; the clock of the idle lock likewise.

### SignOnly and the code

`SignOnly` extends `Session` and joins a step of the switches to each of its steps that
`authorizeWalletOp()` surrounds: `Begins` (the list is cleared) to `Ride` and `Acquire`,
`Ends` (`endOperation()` in the `finally`) to `End` and `Dismiss`, both to `Refuse`.  The other
steps of `Session` leave the switches alone (`Elsewhere`).  `Issue` is
`issueTx()` or `broadcastEvm()`: `isActive` is read when the transaction is ready, not when the
operation began.  Operations of a Ledger (`DeviceOps`) need no password and share the
switches.  `Toggle`, `SetEnabled`, `ClearRecords`, `ResetSession` are the user's.
`ticked`, `alone`, `asked` and `fate` are history: they follow one operation as long as nothing
crosses it.

### ScriptRun and the code

A call is one `tx.send()` or `tx.crossChain()`: `Ask` reaches the host (and takes its number),
`Refuse` is a failed check, `RecordPlanned` and `RecordLive` the rest up to the next await.
`ScopeHolder.run()` is `Run` up to its first await, `GoOn` after `await releaseNow()` and `Enter` after
`await open()`, so that any other call, prompt or user action may come between; `Open` and `Nest` are
its two calls of `authorizeBatch()`, `ReleaseNow` is `releaseNow()` and `Closed` the `finally` of the
scope it released, which empties the session's slot.  `scope` follows each `open()`: it asks, rides
on a scope that was open, owns one, or is closing.  As in the code, `latest` (`closed`) belongs to
the last `open()`, `held` (`release`) to the last one that got in.
`Submit`, `KeyDerived`, `Unlocked`, `WrongPassword` and `Dismiss` are the prompt and `acquire()`, the
same steps as in `Session`: a derivation settles the request it was started for, also when another
request has replaced it.  `Sign` is one transaction of the intent, `Done` and `Throw` end it.
`Return` is the end of the sandboxed run by return, error or abort, with the `releaseNow()` of a live
one, `Finish` what follows it on the page.  `Approve`, `Advance` and `StepFailed` are the stretches of
`executePlan()`, `Stop` its end; `Abort` and `Leave` are the page's.
An intent spends `Amount` base units of its own asset, of which one is worth `Factor` base units of
the budget line; the code compares them as they are (`WithinBudget`).
Abstractions: reads of a script; fees, which the budget does not count either; operations of
other pages, which are `Session`'s matter; the limits of a scope, which are `Session`'s too.

### PlatformSessions and the code

`StartPhrase`, `StartExtension`, `StartSingle` begin a pass, `Open` and `Fail` are the end of
one platform's part in it, with what follows up to the next await (`Proceed`): platforms that have a
session are skipped, and the last part lands the user somewhere and goes to the wallet.
`Disconnect` is `finishDisconnect()` with the platform's own `logout()`, for the close button (`CloseTab`)
and for an extension that goes (`ExtensionGone`): hand over, or `Reload`, which starts
the program again.  `cause` is history: whether the step was an exit, a tab that was closed, an
extension that went, and of which platform, so that the properties can tell what ended a session.
`SwitchAccount`, `SwitchDone`, `SwitchFailed` are the stretches of
`switchInjectedAccount()`.  `Arrive` is `router.push('/wallet')` with its guard.
Abstractions: a session is "none", "local" or "extension", whoever's it is; the network behind
a session; the storage of sessions, which nothing restores.

### SwapRecords and the code

A run is `Start`, then for each transaction `Broadcast` (the chain has it) and
`Answered` (the wallet knows, and saves), or `RunFails`.  `Settle` is Lombard's work.  `Look` is the
request of `refreshSwap()`; its answer is an `EarlyAnswer` if the request came before `Settle` and
a `LateAnswer` otherwise, and saves the copy taken when the record was waiting.  `Continue`,
`Proceed`, `SendSecond`, `SecondDone` are `continueQuickBtcToAvax()`.  The button is tested at the
`Click`, which then waits in `clicks` while `gatedAction()` reads the chain; `Continue` tests the status of
the record that was clicked and nothing else, and may come from a page that was left.
`Save` is `saveSwap()` with its bound of `MAX_KEPT`.  `Leave` and `Return` unmount and mount the page,
whose flags start anew while flows go on; `Reload` ends the flows and keeps the list.
Abstractions: a record is its status; amounts and addresses; which of the routes a swap
takes is the number of its transactions, whether it waits for Lombard, and whether it has a second step.

## 3. Runs

| run | checks | states, time |
|---|---|---|
| `limiter` | everything about `RateLimiter` that the code keeps, and that it implements `AdmissionGate` | 51 thousand, 0.5 min |
| `limiter_stranded` | *violated*: every waiter is served | |
| `failover` | one escalation, no deadlock, no leftover pause, no dead host, escalations and switches end | 436 thousand, 3.5 min |
| `failover_block` | *violated*: the block comes only when every candidate failed | |
| `failover_overlap` | *violated*: connected means connected to the selected network | |
| `session` | handles, vaults, slots as long as nothing overlaps, and the sign-only switch as long as nothing crosses | 2.4 million, 1.2 min |
| `session_lock` | *violated*: the idle lock never fires in the middle of an operation | |
| `scripts` | budgets, the order of a plan, its prompts, the lifetime of scopes and who waits for them | 2.2 million, 0.8 min |
| `scripts_twice` | *violated*: an approved intent is executed once | |
| `scripts_budget` | *violated*: no asset is spent beyond its budget, whatever the units of the calls | |
| `platforms` | the wallet page, passes, hand-over, the active tab | 976 thousand, 1.5 min |
| `swaps` | second steps, records, and that Lombard's work is noticed | 96 thousand, 0.3 min |

**Bounds.**  `limiter`: three calls (one that takes the slot, one that waits, one that comes
late), budgets and windows of one or two, pauses of zero or two ticks, two pause timers
pending at a time (`MaxPendingResumes`): with one call fewer nobody can overtake, with one
timer fewer none is stale.
`failover`: two endpoints of one networkId to fail over between (`failover_block` adds one of
another networkId to move to), one user, two escalations (so that a second could start, and each may
be used again), one host being classified (`MaxClassifying`) and one 503 timer (`MaxShortTimers`) at a
time.  One run checks safety and liveness, without symmetry.
`session`: a batch (limit: `MaxOps`, one nested operation) with a nested one, one operation of the same
wallet, one of another and one of a Ledger, so that operations ride, nest, overlap and share the
switch; each signs at most once (`MaxSignatures`).  Each operation runs once, the Ledger's any number of times.
`scripts`: four calls: two sends of one wallet, a move of two transactions of another, one send of a
Ledger; budgets that cannot pay for all, two live transactions (`MaxSends`), plans of three steps
(`MaxPlanned`), two approvals (`MaxApprovals`), two calls under way at once (`MaxAtOnce`): with one nothing
overlaps, with one approval nothing can happen twice, with one wallet no scope is replaced, and
with three transactions the limit on transactions never binds before a budget does.  All
amounts are in the unit of their budget (`Factor`); `scripts_budget` makes one call a move whose unit is
worth two of the budget's, in place of 10^9.
`platforms`: a platform whose logout leaves its listener and accounts can be switched (Avalanche), one whose
logout leaves its listener (EVM), one whose logout removes it (Solana); two passes at a time of
two platforms at most (`MaxTargets`), one switch of accounts under way (`MaxSwitches`).
The Bitcoin platform behaves as Solana without a listener.
`swaps`: two swaps in a list with room for one, the older of two transactions, the newer quick;
one refresh of each kind under way per swap (`MaxLooks`), two clicks on the second step (`MaxContinues`), one reload.
With one swap nothing would be dropped from the list, with one click nothing doubled.

**Symmetry** is used in `scripts`, on its two calls that are alike, and in `platforms`, on the identities
of passes; neither checks liveness.

**Deadlock** is checked except in the session and script runs, where every operation,
or the script, may be over.

**Fairness.**  Limiter: time passes, and due timers are run by the event loop; no caller is
obliged to call.  Failover: code that is between awaits goes on, a probe ends (it is
aborted after 8 s), the browser ends every request, pause timers fire.  Nothing is assumed
about which way a request ends.  Session: derivations and checks end, and whoever sees
a prompt answers it somehow.  Swaps: the page's timer looks every minute, a
request ends, and Lombard can be reached again and again (strong fairness of its answer:
any number of requests may fail in between).  Nothing is assumed of the user, who
may leave the page: `MintedIsNoticed` then promises nothing until the page is back.

## 4. What the code does not keep

Shown by runs:

1. **A stranded queue** (`limiter_stranded`).  A call that finds the window over clears
   the reset timer that the queue depends on.  `ServedWhileTimerKept` shows that this is the
   only way to starve: as long as a queue has its timer every waiter is served.
2. **A block with endpoints left** (`failover_block`).  The candidates are resolved again after
   an await; a user who moved to another networkId meanwhile gets the permanent block.
3. **Two networks at once** (`failover_overlap`).  Overlapping `setNetwork()` calls leave the
   SDK at one network and the store at another.
4. **A lock in the middle of an operation** (`session_lock`).  A send that starts while a batch is
   authorized rides on the batch's handle, and the batch does not wait for it.  When the batch ends, it
   disposes the handle, empties the slot and tells the idle lock that the scope is closed; a lock
   that was put off until then fires, and the send is still open.  Nothing overlaps at the prompt
   in this trace, and `LockSparesOwners`, proved, says that without such an overlap the lock hits riders
   only.  With one there is a second way: both operations become owners, and the first to end
   empties the slot of the other (`overlapped`, the condition of `SoundWithoutOverlap`).
5. **A plan executed twice** (`scripts_twice`).  Sends that a script does not await share a
   number, and the page, which files results by number, believes that the plan is unfinished.
   `SentOnceIfNumbered` says that this is the only way.
6. **A budget in the wrong unit** (`scripts_budget`).  `tx.crossChain()` counts nAVAX, `tx.send()` on the
   C-Chain 10^-18 AVAX, both under one key against a limit in the decimals of the budget line, 18 for
   the C-Chain.  A move out of the C-Chain counts next to nothing.  `BudgetHolds`, proved, says
   that assets all of whose intents count in the unit of their line stay within it.

Met while modelling, with no run of their own; the properties name them as exceptions:

- Timers of `pause()` are never cancelled, so an old one ends a later pause early.
- A prompt that a second operation replaces is never settled (`passwordPrompt.ts`).
- An operation that ends resets the one-shot switch of whichever other operation
  is under way (`authorize.ts:61`), which then broadcasts; one that starts drops the
  captured transactions.  Hence "nothing crossed it" (`alone`) in `SignOnlyHolds`.
- `platforms/store.ts:692` leaves the active platform out of `remaining` rather than the one that is
  disconnected: an extension that goes in the background takes the active tab away, or reloads and ends a
  session that works, though the comment at `store.ts:679-683` says the fall-back is for the last one.  It
  does so even when its platform had no session any more, since logging out of EVM or Avalanche leaves the
  listener on the extension (`evm/store.ts:176`, `main.ts:307`).  Hence the exceptions in
  `DisconnectSparesOthers` and `StaysOnTab`, which allow that event (`cause`) and no other step.
- A session that is opened by something else while a pass waits for its platform is replaced by the pass,
  against `store.ts:483-487` (`rival` in `PassSkipsLive`).
- A failed `switchInjectedAccount()` leaves a tab with no session, and one that completes after a
  logout opens the session again (`blanked` in `WalletPageIsLive`).
- A slow refresh overwrites a later status of a swap (`regressed`), brings back a record that was
  removed; a double click, whose second half is not stopped by the button once the gate reads the
  chain (`BitcoinSwaps.vue:106`), or the button of a remounted page starts a second continuation
  (`doubled`), and both send.  These are the exceptions of `SecondStepOnce`.
- A reload between a swap's first transaction and its record leaves no record; a hundred newer ones
  push out one that is waited for.  `Tracked` speaks of runs that came to their end, and allows the second.
- Live calls that a script did not await lose their scope to each other when they are of two wallets
  (`mixed`), when two were opening scopes at once (`doubled`), or when the run ends; after `doubled`, a
  release may wait for a scope that nobody closes.  A call that was on its way to a scope when the run
  returned keeps it (`late`).  These are the exceptions of `InFlightKeepsScope`,
  `AwaitsItsOwnRelease` and `ScopeReleased`; awaited calls and approved plans meet none but leaving the page.

## 5. Proofs

TLC checks the instances above, TLAPS proves the following for every value of the constants
that satisfies the named assumption of the module.

| module | from | proved |
|---|---|---|
| `RateLimiter_proofs` | `InputsAssumption` | `TypeOK`, `EveryCallAccountedFor`, `BudgetPerWindow`, `WindowsDoNotOverlap`, `WaitersReleasedInOrder`, `Spec => Gate!GateSpec` |
| `Failover_proofs` | `FailoverAssumption` | `TypeOK`, `OneEscalation`, `FlowsDuringReconnect`, `NoHoldLeftBehind`, `NeverReconnectsToDead` |
| `Session_proofs` | `OpsAssumption` | `TypeOK`, `HandleLivesWithItsScope`, `LimitedScopeIsBounded`, `SoundWithoutOverlap`, `SignsUnderOwnPassword` |
| `SignOnly_proofs` | `OpsAssumption`, `DeviceOpsAssumption` | `SignOnlyHolds`, `SwitchSpec => Spec` |
| `ScriptRun_proofs` | `CallsAssumption` | `TypeOK`, `BudgetHolds`, `InFlightKeepsScope`, `ScopeReleased`, `SignsPlanInOrder`, `SentOnceIfNumbered` |
| `PlatformSessions_proofs` | `PlatformsAssumption` | `TypeOK`, `WalletPageIsLive`, `PassSkipsLive`, `DisconnectSparesOthers`, `StaysOnTab` |
| `SwapRecords_proofs` | `SwapsAssumption` | `TypeOK`, `SecondStepOnce`, `Tracked` |

**RateLimiter.**  `LimiterInv` joins the type invariant, `QueuesMatchMode`,
`EveryCallAccountedFor` and two facts about the history of the window that make
the budget and the spacing inductive: `SlotsCovered` (the calls let through are as many as the
slots taken, or fewer, and the slots are within the largest budget that was in force) and
`TimerCoversWindow` (an armed reset timer does not fire before the window's shortest span is
over).  `QueuesMatchMode` is needed to see that a resume meets no queue and no timer.
The refinement maps `held` to `isPaused` and `closed` to `isBlocked`; every action
is a step of the gate or leaves it alone.

**Failover.**  `FailoverInv` adds to the checked invariants that whatever refers to an escalation
refers to the one that runs (`RunsBelong`), that a switch under way goes to some network
(`SwitchesGoSomewhere`), and that no run probes, and no escalation's switch goes to, a host that was found dead
(`AimsAtLiving`).  The last yields `NeverReconnectsToDead`, and is inductive because only the
one escalation marks hosts, and leaves the host it marks in the same step.  A run that goes on to its next
candidate does not touch `failoverPromise`, which is its own or was reset by the user (`OwnPromise`).

**Session.**  `SessionInv` adds that the prompt shows a
request that waits (so a dismissal cannot hit a running operation) and that, without overlap, at most
one operation is between its prompt and its end.

**SignOnly.**  `SwitchImplementsSession` (`SwitchSpec => Spec`) carries every theorem of `Session` over
to the composition, so the switches cost the session nothing (`SwitchKeepsSession`).  `SwitchInv` adds to `SignOnlyHolds` that `ticked`
tells the switch, and that an operation that nothing crossed is the only one under way.

**ScriptRun.**  `ScriptInv` is a conjunction of named parts: types (`Shape`); the intents are the calls that got past the
checks, each once (`Recorded`); what is typed, derived or verified belongs to a call that asks
(`Asking`); in a plan only the step in progress is on its way and those before it are done (`InOrder`);
the scope of each call fits its progress, and the slot fits the scopes (`Scoped`); a live run that has
returned leaves nothing on its way but what `late` names (`OnTheirWay`).  The part that carries
`InFlightKeepsScope` is `Kept`: as long as nothing disturbs the scope (`Calm`: no calls of two
wallets at once, no two that were opening, the page not left, the run or the execution going on), the
scope's owner is in the slot and in the holder, and a scope that is closing has a call of another wallet,
or the page, wait for its end.  It is needed because between `releaseNow()` and the new scope there is
an await, in which the slot still has the old owner.  On `ScriptInv` rest three further invariants.

- `RestOK` types the rows of the page and the budget.  Rows are marked by a recursive function
  over a plan, so what it returns is shown in `ScriptRun_lemmas`, by induction (`SetInduction`)
  over the set of positions for which the claim holds.  With `Shape` it yields `TypeOK`.
- `BudgetInv` says that what is spent of an asset is the sum over the calls recorded for it, as the
  code counts them, and that nothing unrecorded is sent.  `BudgetHolds`, a sum of what the calls that were
  sent really move, follows as a part of that sum for the assets whose calls count in the unit of
  their line; for the others it says nothing.  The sum is a fold over sets, so `ScriptRun_lemmas` shows that it grows by what
  joins the set, and that a part is at most the whole (`TotalWith`, `TotalOfPart`).
- `OnceInv` says that, when no two intents share a number, a call was sent once at most, the rows
  before the step in progress tell how their intents ended, and every row does after the plan.
  `SentOnceIfNumbered` follows, and that such a plan is approved once (`NumberedPlanIsApprovedOnce`).

**PlatformSessions.**  `TypeOK` and each of `WalletPageIsLive` and `PassSkipsLive` are inductive together; the work is
in `Proceed`, where a pass ends and lands, and in `First`, which has to be shown to choose.
`DisconnectSparesOthers` and `StaysOnTab` go by the step: only `Exit`, `CloseTab` and `ExtensionGone`
disconnect, and each is named in `cause`.  Apart from what the user chose (exit, closing that tab, selecting
another, switching the account) and the wallet following its extension to another chain, the one thing excepted is the
event of a background extension, and that step alone.

**SwapRecords.**  `SwapInv` adds that swaps that have not started left no trace (`Begun`), that a run that goes on has a
transaction to go (`LegsToGo`), that a click sends one second step at most, whether it waits at the gate, checks or is out (`EachOnce`),
that second steps come after Lombard (`AfterLombard`), and that, outside `regressed` and `doubled`,
the first continuation that finds the balance is the only one (`OnlyFirst`): after it the clicked record
(`taken`) does not wait and is not ready, neither in the list nor for a click that is still at the gate.

**What the findings leave standing.**  A run that shows a property violated does not say how
much of it is lost.  These theorems do, from the same specifications.

| finding | theorem | what it says |
|---|---|---|
| 1 | `TimerServesTheLine` | a queue loses its timer only to a newcomer that finds the window over |
| 2 | `UndisturbedBlock`, `UndisturbedBlockIsExhausted` | if no user switches during an escalation (`[]Undisturbed`), the block comes only when every network of the selected networkId was found dead |
| 3 | `AloneConnectedToSelected` | if no two `setNetwork()` calls overlap (`[]Alone`), connected means connected to the selected network |
| 4 | `LockSparesOwners` | without an overlap at the prompt, the lock hits only operations that ride on the scope of another, and one of them was started by an independent caller |
| 5 | `NumberedCallsAreSentOnce` | if no two intents share a number, each is sent once |
| 6 | `LiveRunStaysInBudget` | an asset all of whose intents count in the unit of its line stays within its budget |

`[]Undisturbed` and `[]Alone` are assumptions about when the user switches and when an escalation happens
to, which the code does not enforce (that is the finding); both allow users and escalations to switch, one at a time.  The inductive invariants behind the two (`SearchInv`, `SwitchInOrder`) were
first checked by TLC with the assumption as a constraint on the steps.  `SearchInv` says that a run
looks among the networks with the networkId of the selected one, and has found those before the
present one dead.  `SwitchInOrder` says that a switch moves the SDK before the store, and that
a wallet is connected only when no switch is under way.  `LockSparesOwners` needs that parents
outlive their children and that the parents of open operations lead to one that has none (`Rooted`).

**The safety core of liveness.**  `TimerServesTheLine` also says that an armed timer is never put off, and
that a window opened for the queue leaves no slot unused; with time passing, that is why waiters are served.
`RunsAdvance` says that a run goes through its candidates in order, and
tries none twice, which is why an escalation ends.  `RecordsOnlyForward` says that the status of a swap
moves only forward, outside `regressed` and `doubled`: there nothing is under way for
a record that is done or has failed, and a click still at the gate finds it taken (`AtRest`).

**Only model-checked:** liveness (`PauseEnds`, `ServedWhileTimerKept`, `EscalationEnds`,
`SwitchEnds`, `MintedIsNoticed`), which is out of TLAPS's reach under fairness, and the
violations, which are counterexamples; and of `ScriptRun` who waits for a release
(`AwaitsItsOwnRelease`) and how many prompts a plan shows (`AsksAsReviewed`).  Every other property of a
passing run has a theorem.

## 6. What is left

1. Bridge records, with the provider as an actor, after `SwapRecords`; a scan of the Bitcoin platform
   that outlives a switch of accounts.
2. Pollers in `Failover`: ticks and heights across a network change; the throttled hosts of
   `rpc_failover.ts` as history, for the networks a run passes over.
3. The HD scan (rescans on a network change), and coin selection and the merging of partial
   signatures as operators against reference definitions.
