--------------------------- MODULE PlatformSessions ---------------------------
(***************************************************************************)
(* The sessions of the platforms and the tab that is active:               *)
(* setActivePlatform(), ensureActiveIsConnected(), unlockWithMnemonic(),   *)
(* connectWithInjected(), finishDisconnect() and logoutAll() of            *)
(* src/src/platforms/store.ts, the platform stores that open and end a     *)
(* session, the listeners they leave on the extension, and the guards of   *)
(* src/src/router/index.ts.                                                *)
(*                                                                         *)
(* logoutAll() and a switch of tabs hold no await that waits for anything  *)
(* but settled promises, so each is a step.  Every platform hands over in  *)
(* place (supportsConcurrentSession), so the logout-and-reload path of     *)
(* setActivePlatform() is never taken.  A reload starts the program again. *)
(***************************************************************************)
EXTENDS Naturals, FiniteSets

CONSTANTS
    Platforms,
    Default,           \* DEFAULT_PLATFORM_ID: Avalanche, in main.ts
    Evm,
    Rank,              \* [Platforms -> position in the registry]
    Observed,          \* platforms that listen to their extension
    KeepsListener,     \* those whose logout leaves the listener attached
    Passes,
    MaxSwitches,       \* bound: account switches under way
    MaxTargets         \* bound: platforms picked for one pass

ASSUME PlatformsAssumption ==
    /\ Default \in Platforms /\ Evm \in Platforms /\ Default # Evm
    /\ Rank \in [Platforms -> Nat]
    /\ \A p, q \in Platforms : Rank[p] = Rank[q] => p = q
    /\ KeepsListener \subseteq Observed /\ Observed \subseteq Platforms
    /\ MaxSwitches \in Nat

VARIABLES
    wallet,            \* [Platforms -> "none", "local" or "extension"]
    active,            \* activePlatformId
    page,              \* "access" (and the home page) or "wallet"
    listening,         \* platforms with a listener on the extension
    pass,              \* [Passes -> an unlock or connect under way]
    switching,         \* switchInjectedAccount() calls under way
    blanked,           \* history: no active session since one of them
    rival,             \* history: opened by another while being opened
    cause              \* history: what ended a session in the last step

vars == <<wallet, active, page, listening, pass, switching, blanked, rival, cause>>

Wallets == {"none", "local", "extension"}

\* kind: "phrase" opens its platforms at once, "extension" one after the other,
\* "single" is the form of one platform.
Idle == [kind |-> "idle", todo |-> {}, opened |-> {}, skipped |-> {}, failed |-> FALSE]
PassType == [kind : {"idle", "phrase", "extension", "single"}, todo : SUBSET Platforms,
             opened : SUBSET Platforms, skipped : SUBSET Platforms, failed : BOOLEAN]

\* File > Exit or the idle lock, the close button of p's tab, the extension
\* of p, or none of these.
Causes == {"exit", "tab", "extension", "other"} \X Platforms

Init ==
    /\ wallet = [p \in Platforms |-> "none"]
    /\ active = Default
    /\ page = "access"
    /\ listening = {}
    /\ pass = [i \in Passes |-> Idle]
    /\ switching = 0
    /\ blanked = FALSE
    /\ rival = {}
    /\ cause = <<"other", Default>>

-----------------------------------------------------------------------------
Live(w) == {p \in Platforms : w[p] # "none"}

\* connectedPlatforms[0], and .find() over results in registry order.
First(S) == CHOOSE p \in S : \A q \in S : Rank[p] <= Rank[q]

InFlight(q) ==
    IF q.kind = "extension" /\ q.todo # {} THEN {First(q.todo)} ELSE q.todo

\* What survives of the history when the passes become ps and some platforms
\* have just been opened.
Rivals(ps, opened) ==
    {p \in rival \cup opened : \E i \in Passes : p \in InFlight(ps[i])}

\* router.push('/wallet') behind ifAuthenticated, which goes home when there is
\* no session, and else makes ensureActiveIsConnected() of the platform in act.
Arrive_asIs(w, act) ==
    /\ page' = IF page = "wallet" \/ Live(w) # {} THEN "wallet" ELSE "access"
    /\ active' = act
Arrive(w, act) ==
    /\ page' = IF page = "wallet" \/ Live(w) # {} THEN "wallet" ELSE "access"
    /\ active' = IF page = "access" /\ w[act] = "none" /\ Live(w) # {}
                 THEN First(Live(w)) ELSE act

\* The active platform has had no session since a switch of accounts.
Blanked(b) == blanked' = (b /\ wallet'[active'] = "none")

\* location.href = '/': nothing but storage survives.
Reload ==
    /\ wallet' = [p \in Platforms |-> "none"]
    /\ active' = Default
    /\ page' = "access"
    /\ listening' = {}
    /\ pass' = [i \in Passes |-> Idle]
    /\ switching' = 0
    /\ blanked' = FALSE
    /\ rival' = {}

-----------------------------------------------------------------------------
(* Opening sessions.                                                       *)

\* Where a pass that is over moves the user.
Landing_always(q, w) ==
    IF q.opened # {} THEN First(q.opened)
    ELSE IF q.skipped # {} THEN First(q.skipped) ELSE active
Landing_undefined(q, w) ==
    IF q.kind = "single" \/ w[active] # "none" THEN active
    ELSE IF q.opened # {} THEN First(q.opened) ELSE "undefined"
Landing(q, w) ==
    IF q.kind = "single" \/ w[active] # "none" THEN active
    ELSE IF q.opened # {} THEN First(q.opened)
    ELSE IF q.skipped # {} THEN First(q.skipped) ELSE active

\* The pass goes on from q to its next await: an extension pass first skips the
\* platforms that have a session when their turn comes.
Proceed_checksOnce(i, q, w) ==
    IF q.todo # {}
    THEN pass' = [pass EXCEPT ![i] = q] /\ UNCHANGED <<active, page>>
    ELSE /\ pass' = [pass EXCEPT ![i] = Idle]
         /\ IF q.failed THEN active' = Landing(q, w) /\ UNCHANGED page
                        ELSE Arrive(w, Landing(q, w))
Proceed(i, q, w) ==
    LET turn == {p \in q.todo : /\ q.kind = "extension"
                                /\ \A o \in q.todo : Rank[o] <= Rank[p] => w[o] # "none"}
        r == [q EXCEPT !.todo = @ \ turn, !.skipped = @ \cup turn]
    IN IF r.todo # {}
       THEN pass' = [pass EXCEPT ![i] = r] /\ UNCHANGED <<active, page>>
       ELSE /\ pass' = [pass EXCEPT ![i] = Idle]
            /\ IF r.failed THEN active' = Landing(r, w) /\ UNCHANGED page
                           ELSE Arrive(w, Landing(r, w))

StartPhrase(i, targets) ==
    /\ page = "access" /\ pass[i] = Idle
    /\ targets # {} /\ Cardinality(targets) <= MaxTargets
    /\ Proceed(i, [Idle EXCEPT !.kind = "phrase", !.todo = targets \ Live(wallet),
                               !.skipped = targets \cap Live(wallet)], wallet)
    /\ UNCHANGED <<wallet, listening, switching, rival>>
    /\ Blanked(blanked)

StartExtension(i, targets) ==
    /\ page = "access" /\ pass[i] = Idle
    /\ targets # {} /\ Cardinality(targets) <= MaxTargets
    /\ Proceed(i, [Idle EXCEPT !.kind = "extension", !.todo = targets], wallet)
    /\ UNCHANGED <<wallet, listening, switching, rival>>
    /\ Blanked(blanked)

\* The form of the active platform replaces a session it finds.
StartSingle(i) ==
    /\ page = "access" /\ pass[i] = Idle
    /\ pass' = [pass EXCEPT ![i] = [Idle EXCEPT !.kind = "single", !.todo = {active}]]
    /\ UNCHANGED <<wallet, active, page, listening, switching, blanked, rival>>

\* setWallet() at the end of an unlock or of an approval.
Open(i, p) ==
    /\ p \in InFlight(pass[i])
    /\ LET kind == pass[i].kind
           w == [wallet EXCEPT ![p] = IF kind = "extension" THEN kind ELSE "local"]
       IN /\ wallet' = w
          /\ listening' = IF kind = "extension" THEN listening \cup ({p} \cap Observed) ELSE listening
          /\ Proceed(i, [pass[i] EXCEPT !.todo = @ \ {p}, !.opened = @ \cup {p}], w)
    /\ rival' = Rivals(pass', {p})
    /\ UNCHANGED switching
    /\ Blanked(blanked)

\* A wrong phrase, a declined approval, the network.
Fail(i, p) ==
    /\ p \in InFlight(pass[i])
    /\ Proceed(i, [pass[i] EXCEPT !.todo = @ \ {p}, !.failed = TRUE], wallet)
    /\ rival' = Rivals(pass', {})
    /\ UNCHANGED <<wallet, listening, switching>>
    /\ Blanked(blanked)

-----------------------------------------------------------------------------
(* Ending them.                                                            *)

\* The platform's disconnect() or logout(), with finishDisconnect().
Disconnect_reloads(p) ==
    Reload
Disconnect(p) ==
    LET remaining == Live(wallet) \ {p, active}
    IN IF remaining = {}
       THEN Reload
       ELSE /\ wallet' = [wallet EXCEPT ![p] = "none"]
            /\ listening' = IF p \in KeepsListener THEN listening ELSE listening \ {p}
            /\ active' = First(remaining)
            /\ UNCHANGED <<page, pass, switching, rival>>
            /\ Blanked(blanked)

\* The close button of the active tab.
CloseTab ==
    /\ page = "wallet" /\ wallet[active] # "none"
    /\ Disconnect(active)

\* The extension is locked or disconnects the site.
ExtensionGone(p) ==
    /\ p \in listening
    /\ Disconnect(p)

\* logoutAll(): File > Exit, and the idle lock.
Exit ==
    /\ page = "wallet"
    /\ Reload

-----------------------------------------------------------------------------
(* Another account, another chain.                                         *)

\* A new wallet for the account, around the session there is.
FollowAccount(p) ==
    /\ p \in listening \ {Default} /\ wallet[p] # "none"
    /\ wallet' = [wallet EXCEPT ![p] = "extension"]
    /\ UNCHANGED <<active, page, listening, pass, switching, blanked, rival>>

\* switchInjectedAccount() of Avalanche blanks the session first.
SwitchAccount ==
    /\ Default \in listening
    /\ switching < MaxSwitches
    /\ switching' = switching + 1
    /\ wallet' = [wallet EXCEPT ![Default] = "none"]
    /\ UNCHANGED <<active, page, listening, pass, rival>>
    /\ Blanked(blanked \/ wallet[active] # "none")

SwitchDone ==
    /\ switching > 0
    /\ switching' = switching - 1
    /\ wallet' = [wallet EXCEPT ![Default] = "extension"]
    /\ Arrive(wallet', active)
    /\ rival' = Rivals(pass, {Default})
    /\ UNCHANGED <<listening, pass>>
    /\ Blanked(blanked)

SwitchFailed ==
    /\ switching > 0
    /\ switching' = switching - 1
    /\ UNCHANGED <<wallet, active, page, listening, pass, blanked, rival>>

\* The extension moved to a chain that only EVM has.
FollowChain ==
    /\ active = Default
    /\ wallet[Default] = "extension" /\ wallet[Evm] = "extension"
    /\ active' = Evm
    /\ UNCHANGED <<wallet, page, listening, pass, switching, blanked, rival>>

-----------------------------------------------------------------------------
(* The user.                                                               *)

SelectTab(p) ==
    /\ page = "wallet" /\ wallet[p] # "none" /\ p # active
    /\ active' = p
    /\ UNCHANGED <<wallet, page, listening, pass, switching, rival>>
    /\ Blanked(blanked)

SelectPlatform(p) ==
    /\ page = "access" /\ p # active
    /\ active' = p
    /\ UNCHANGED <<wallet, page, listening, pass, switching, rival>>
    /\ Blanked(blanked)

AddSession ==
    /\ page = "wallet"
    /\ page' = "access"
    /\ UNCHANGED <<wallet, active, listening, pass, switching, blanked, rival>>

GoToWallet ==
    /\ page = "access" /\ Live(wallet) # {}
    /\ Arrive(wallet, active)
    /\ UNCHANGED <<wallet, listening, pass, switching, rival>>
    /\ Blanked(blanked)

SessionsGoOn ==
    \/ SwitchAccount \/ SwitchDone \/ SwitchFailed \/ FollowChain
    \/ AddSession \/ GoToWallet
    \/ \E p \in Platforms : FollowAccount(p) \/ SelectTab(p) \/ SelectPlatform(p)
    \/ \E i \in Passes :
          \/ StartSingle(i)
          \/ \E targets \in SUBSET Platforms : StartPhrase(i, targets) \/ StartExtension(i, targets)
          \/ \E p \in Platforms : Open(i, p) \/ Fail(i, p)

\* The causes are told apart: a reload looks the same whoever asked for it.
Next ==
    \/ Exit /\ cause' = <<"exit", Default>>
    \/ CloseTab /\ cause' = <<"tab", active>>
    \/ \E p \in Platforms : ExtensionGone(p) /\ cause' = <<"extension", p>>
    \/ SessionsGoOn /\ cause' = <<"other", Default>>

Spec == Init /\ [][Next]_vars

-----------------------------------------------------------------------------
(* Properties.                                                             *)

TypeOK ==
    /\ wallet \in [Platforms -> Wallets]
    /\ active \in Platforms
    /\ page \in {"access", "wallet"}
    /\ listening \subseteq Observed
    /\ pass \in [Passes -> PassType]
    /\ switching \in 0..MaxSwitches
    /\ blanked \in BOOLEAN
    /\ rival \subseteq Platforms
    /\ cause \in Causes

\* "So the wallet never renders for a platform with nothing behind it": in the
\* wallet the active platform has a session, whatever passes, hand-overs and
\* extension events come together, except since a switch of accounts blanked
\* the Avalanche session that was active.
WalletPageIsLive ==
    page = "wallet" /\ wallet[active] = "none" => blanked

\* A pass does not work on a platform that has a session, unless the session
\* was opened while the pass was already waiting for that platform.
PassSkipsLive ==
    \A i \in Passes : pass[i].kind \in {"phrase", "extension"} =>
        \A p \in InFlight(pass[i]) : wallet[p] # "none" => p \in rival

\* A session ends by Exit, with its own tab or its own extension, or while the
\* account is switched.  Nothing else costs a session but the reload that
\* finishDisconnect() falls back to: it looks for a session besides that of the
\* active platform also when it was called for another one, so an extension in
\* the background - even one that had no session any more, but was still
\* listened to - ends the active session if that is the only other one.
Ended == {p \in Platforms : wallet[p] # "none" /\ wallet'[p] = "none"}
ReloadedBehind(q) ==
    q # active /\ cause' = <<"extension", q>> /\ Live(wallet) \subseteq {q, active}
DisconnectSparesOthers ==
    [][\A p \in Ended :
          \/ cause'[1] = "exit"
          \/ cause' \in {<<"tab", p>>, <<"extension", p>>}
          \/ p = Default /\ SwitchAccount
          \/ \E q \in Platforms : ReloadedBehind(q)]_vars

\* A live session keeps its tab: the user is moved away from it by a choice, by
\* the extension's move to another chain, or by a disconnect of the extension
\* of another platform, which hands over although the active one is at work
\* (also when that platform had no session any more).  No unlock, connect,
\* account switch or navigation moves the user.
StaysOnTab ==
    [][active' # active /\ wallet[active] # "none" /\ wallet'[active] # "none" =>
          \/ \E p \in Platforms : SelectTab(p) \/ SelectPlatform(p)
          \/ FollowChain
          \/ \E q \in Platforms \ {active} : cause' = <<"extension", q>>]_vars

=============================================================================
