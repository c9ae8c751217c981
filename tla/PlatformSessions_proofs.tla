----------------------- MODULE PlatformSessions_proofs -----------------------
(***************************************************************************)
(* Proofs about PlatformSessions, for every set of platforms, passes and   *)
(* listeners and every number of account switches.                         *)
(***************************************************************************)
EXTENDS PlatformSessions, WellFoundedInduction, TLAPS

-----------------------------------------------------------------------------
(* Lemmas about the operators.                                             *)

\* A set of platforms that is not empty has a first one in the registry.
LEMMA FirstIsLeast ==
    ASSUME NEW S \in SUBSET Platforms, S # {}
    PROVE  First(S) \in S /\ \A q \in S : Rank[First(S)] <= Rank[q]
<1> DEFINE Ranks == {Rank[p] : p \in S}
           Less == OpToRel(<, Nat)
<1>1. Ranks \subseteq Nat /\ Ranks # {}
    BY PlatformsAssumption
<1>2. \E x \in Ranks : \A y \in Ranks : ~ (<<y, x>> \in Less)
    <2>1. IsWellFoundedOn(Less, Nat)
        BY NatLessThanWellFounded
    <2> HIDE DEF Ranks, Less
    <2>2. QED
        BY <1>1, <2>1, WFMin
<1>3. \E p \in S : \A q \in S : Rank[p] <= Rank[q]
    <2>1. PICK x \in Ranks : \A y \in Ranks : ~ (<<y, x>> \in Less)
        BY <1>2
    <2>2. \A y \in Ranks : ~ (y < x)
        BY <2>1, <1>1 DEF OpToRel
    <2>3. PICK p \in S : x = Rank[p]
        BY <2>1
    <2>4. ASSUME NEW q \in S PROVE Rank[p] <= Rank[q]
        BY <2>2, <2>3, PlatformsAssumption
    <2>5. QED
        BY <2>4
<1>4. QED
    BY <1>3 DEF First

LEMMA FirstInSet == ASSUME NEW S \in SUBSET Platforms, S # {} PROVE First(S) \in S
BY FirstIsLeast

\* The platforms under way are among those to do.
LEMMA InFlightToDo == ASSUME NEW q \in PassType PROVE InFlight(q) \subseteq q.todo
BY FirstInSet DEF InFlight, PassType

\* Arriving leads to a platform of the program, and to a session if there is
\* one and the user comes from elsewhere.
LEMMA ArriveTypes ==
    ASSUME NEW w, NEW act \in Platforms, Arrive(w, act), TypeOK
    PROVE  active' \in Platforms /\ page' \in {"access", "wallet"}
<1>1. Live(w) # {} => First(Live(w)) \in Platforms
    BY FirstInSet DEF Live
<1>2. QED
    BY <1>1 DEF Arrive, TypeOK

LEMMA ArrivesLive ==
    ASSUME NEW w, NEW act \in Platforms, Arrive(w, act), page = "access", page' = "wallet"
    PROVE  w[active'] # "none"
<1>1. Live(w) # {}
    BY DEF Arrive
<1>2. w[First(Live(w))] # "none"
    BY <1>1, FirstInSet DEF Live
<1>3. QED
    BY <1>1, <1>2 DEF Arrive

\* Arriving, or ending a pass, does not move the user off a live session.
LEMMA ArriveStays ==
    ASSUME NEW w, Arrive(w, active), w[active] # "none"
    PROVE  active' = active
BY DEF Arrive

LEMMA LandingTypes ==
    ASSUME NEW q \in PassType, NEW w, TypeOK
    PROVE  Landing(q, w) \in Platforms
<1>1. q.opened \in SUBSET Platforms /\ q.skipped \in SUBSET Platforms
    BY DEF PassType
<1>2. QED
    BY <1>1, FirstInSet DEF Landing, TypeOK

LEMMA IdleType == Idle \in PassType
BY DEF Idle, PassType

-----------------------------------------------------------------------------
(* What Proceed does to the passes, the active platform and the page.      *)

\* The platforms an extension pass skips when their turn comes.
Turn(q, w) == {p \in q.todo : /\ q.kind = "extension"
                             /\ \A o \in q.todo : Rank[o] <= Rank[p] => w[o] # "none"}
Rest(q, w) == [q EXCEPT !.todo = @ \ Turn(q, w), !.skipped = @ \cup Turn(q, w)]

LEMMA RestType ==
    ASSUME NEW q \in PassType, NEW w
    PROVE  /\ Rest(q, w) \in PassType
           /\ Rest(q, w).todo = q.todo \ Turn(q, w)
           /\ Rest(q, w).kind = q.kind
<1>1. Turn(q, w) \subseteq Platforms
    BY DEF Turn, PassType
<1>2. QED
    BY <1>1 DEF Rest, PassType

LEMMA ProceedCases ==
    ASSUME NEW i \in Passes, NEW q, NEW w, Proceed(i, q, w)
    PROVE  \/ /\ pass' = [pass EXCEPT ![i] = Rest(q, w)]
              /\ active' = active /\ page' = page
           \/ /\ pass' = [pass EXCEPT ![i] = Idle]
              /\ \/ active' = Landing(Rest(q, w), w) /\ page' = page
                 \/ Arrive(w, Landing(Rest(q, w), w))
BY DEF Proceed, Rest, Turn

LEMMA ProceedTypes ==
    ASSUME TypeOK, NEW i \in Passes, NEW q \in PassType, NEW w, Proceed(i, q, w)
    PROVE  /\ pass' \in [Passes -> PassType]
           /\ active' \in Platforms
           /\ page' \in {"access", "wallet"}
<1>1. Rest(q, w) \in PassType
    BY RestType
<1>2. Landing(Rest(q, w), w) \in Platforms
    BY <1>1, LandingTypes
<1>3. pass' \in [Passes -> PassType]
    BY <1>1, ProceedCases, IdleType DEF TypeOK
<1>4. active' \in Platforms /\ page' \in {"access", "wallet"}
    <2>1. CASE active' = active /\ page' = page
        BY <2>1 DEF TypeOK
    <2>2. CASE active' = Landing(Rest(q, w), w) /\ page' = page
        BY <1>2, <2>2 DEF TypeOK
    <2>3. CASE Arrive(w, Landing(Rest(q, w), w))
        BY <1>2, <2>3, ArriveTypes
    <2>4. QED
        BY <2>1, <2>2, <2>3, ProceedCases
<1>5. QED
    BY <1>3, <1>4

\* A pass that goes on or ends does not move the user off a live session.
LEMMA ProceedStays ==
    ASSUME NEW i \in Passes, NEW q, NEW w, Proceed(i, q, w), w[active] # "none"
    PROVE  active' = active
<1>1. Landing(Rest(q, w), w) = active
    BY DEF Landing
<1>2. QED
    BY <1>1, ProceedCases, ArriveStays

\* If it leaves the user in the wallet without a session it found the user so.
LEMMA ProceedArrivesLive ==
    ASSUME TypeOK, NEW i \in Passes, NEW q \in PassType, NEW w, Proceed(i, q, w),
           page' = "wallet", w[active'] = "none"
    PROVE  page = "wallet" /\ w[active] = "none"
<1>1. w[active] = "none"
    BY ProceedStays
<1>2. Landing(Rest(q, w), w) \in Platforms
    BY RestType, LandingTypes
<1>3. ASSUME page = "access" PROVE FALSE
    <2>1. Arrive(w, Landing(Rest(q, w), w))
        BY <1>3, ProceedCases
    <2>2. QED
        BY <1>2, <1>3, <2>1, ArrivesLive
<1>4. QED
    BY <1>1, <1>3 DEF TypeOK

\* What a pass works on next was to do, and an extension pass works on a
\* platform without a session.
LEMMA ProceedSkips ==
    ASSUME TypeOK, NEW i \in Passes, NEW q \in PassType, NEW w, Proceed(i, q, w)
    PROVE  /\ \A j \in Passes \ {i} : pass'[j] = pass[j]
           /\ \A p \in InFlight(pass'[i]) :
                 /\ p \in q.todo
                 /\ pass'[i].kind = q.kind
                 /\ q.kind = "extension" => w[p] = "none"
<1> DEFINE r == Rest(q, w)
<1>1. /\ r \in PassType /\ r.kind = q.kind
      /\ r.todo = q.todo \ Turn(q, w) /\ r.todo \in SUBSET Platforms
    BY RestType DEF PassType
<1>2. InFlight(r) \subseteq r.todo
    BY <1>1, InFlightToDo
<1>3. ASSUME NEW p \in InFlight(r), q.kind = "extension"
      PROVE  w[p] = "none"
    <2>1. r.todo # {} /\ p = First(r.todo)
        BY <1>1, <1>2, <1>3 DEF InFlight
    <2>2. p \in r.todo /\ \A o \in r.todo : Rank[p] <= Rank[o]
        BY <1>1, <2>1, FirstIsLeast
    <2>3. PICK o \in q.todo : Rank[o] <= Rank[p] /\ w[o] = "none"
        BY <1>1, <1>3, <2>2 DEF Turn
    <2>4. o \in Platforms /\ p \in Platforms
        BY <1>1, <2>2, <2>3 DEF PassType
    <2>5. o \notin Turn(q, w)
        BY <2>3, <2>4, PlatformsAssumption DEF Turn
    <2>6. Rank[p] <= Rank[o]
        BY <1>1, <2>2, <2>3, <2>5
    <2>7. o = p
        BY <2>3, <2>4, <2>6, PlatformsAssumption
    <2>8. QED
        BY <2>3, <2>7
<1>4. \A p \in InFlight(Idle) : FALSE
    BY DEF InFlight, Idle
<1> HIDE DEF r
<1>5. pass' = [pass EXCEPT ![i] = r] \/ pass' = [pass EXCEPT ![i] = Idle]
    BY ProceedCases DEF r
<1>6. (pass'[i] = r \/ pass'[i] = Idle) /\ \A j \in Passes \ {i} : pass'[j] = pass[j]
    BY <1>5 DEF TypeOK
<1>7. QED
    BY <1>1, <1>2, <1>3, <1>4, <1>6

-----------------------------------------------------------------------------
(* Types.                                                                  *)

LEMMA NoPass == [i \in Passes |-> Idle] \in [Passes -> PassType]
BY IdleType

LEMMA NoSwitch == 0 \in 0..MaxSwitches
BY PlatformsAssumption

LEMMA TypeOKInit == Init => TypeOK
<1> SUFFICES ASSUME Init
             PROVE  TypeOK
    OBVIOUS
<1>1. pass \in [Passes -> PassType] /\ switching \in 0..MaxSwitches
    BY NoPass, NoSwitch DEF Init
<1>2. QED
    BY <1>1, PlatformsAssumption DEF Init, TypeOK, Wallets, Causes

LEMMA ReloadTypes == ASSUME Reload, cause' \in Causes PROVE TypeOK'
<1>1. pass' \in [Passes -> PassType] /\ switching' \in 0..MaxSwitches
    BY NoPass, NoSwitch DEF Reload
<1>2. QED
    BY <1>1, PlatformsAssumption DEF Reload, TypeOK, Wallets

\* What Open and Fail make of a pass.
LEMMA SettledTypes ==
    ASSUME NEW q \in PassType, NEW p \in Platforms
    PROVE  /\ [q EXCEPT !.todo = @ \ {p}, !.opened = @ \cup {p}] \in PassType
           /\ [q EXCEPT !.todo = @ \ {p}, !.failed = TRUE] \in PassType
BY DEF PassType

LEMMA RivalTypes ==
    ASSUME TypeOK, NEW ps, NEW opened \in SUBSET Platforms
    PROVE  Rivals(ps, opened) \subseteq Platforms
BY DEF Rivals, TypeOK

\* Every step keeps the types.
LEMMA TypeOKNext == TypeOK /\ [Next]_vars => TypeOK'
<1> SUFFICES ASSUME TypeOK, [Next]_vars
             PROVE  TypeOK'
    OBVIOUS
<1>0. cause' \in Causes
    BY PlatformsAssumption DEF Next, CloseTab, Causes, TypeOK, vars
<1> USE <1>0, PlatformsAssumption DEF Blanked
<1>1. ASSUME NEW i \in Passes, NEW targets \in SUBSET Platforms, StartPhrase(i, targets)
      PROVE  TypeOK'
    <2> DEFINE q == [Idle EXCEPT !.kind = "phrase", !.todo = targets \ Live(wallet),
                                 !.skipped = targets \cap Live(wallet)]
    <2>1. q \in PassType
        BY DEF Idle, PassType, Live
    <2>2. Proceed(i, q, wallet)
        BY <1>1 DEF StartPhrase
    <2> HIDE DEF q
    <2>3. QED
        BY <1>1, <2>1, <2>2, ProceedTypes DEF StartPhrase, TypeOK
<1>2. ASSUME NEW i \in Passes, NEW targets \in SUBSET Platforms, StartExtension(i, targets)
      PROVE  TypeOK'
    <2> DEFINE q == [Idle EXCEPT !.kind = "extension", !.todo = targets]
    <2>1. q \in PassType
        BY DEF Idle, PassType
    <2>2. Proceed(i, q, wallet)
        BY <1>2 DEF StartExtension
    <2> HIDE DEF q
    <2>3. QED
        BY <1>2, <2>1, <2>2, ProceedTypes DEF StartExtension, TypeOK
<1>3. ASSUME NEW i \in Passes, StartSingle(i)
      PROVE  TypeOK'
    <2>1. [Idle EXCEPT !.kind = "single", !.todo = {active}] \in PassType
        BY DEF Idle, PassType, TypeOK
    <2>2. QED
        BY <1>3, <2>1 DEF StartSingle, TypeOK
<1>4. ASSUME NEW i \in Passes, NEW p \in Platforms, Open(i, p)
      PROVE  TypeOK'
    <2> DEFINE w == [wallet EXCEPT ![p] = IF pass[i].kind = "extension" THEN pass[i].kind ELSE "local"]
               q == [pass[i] EXCEPT !.todo = @ \ {p}, !.opened = @ \cup {p}]
    <2>1. q \in PassType
        BY SettledTypes DEF TypeOK
    <2>2. Proceed(i, q, w) /\ wallet' = w
        BY <1>4 DEF Open
    <2>3. w \in [Platforms -> Wallets]
        BY DEF TypeOK, Wallets
    <2>4. listening' \subseteq Observed
        BY <1>4 DEF Open, TypeOK
    <2>5. rival' \subseteq Platforms
        BY <1>4, RivalTypes DEF Open
    <2> HIDE DEF q, w
    <2>6. pass' \in [Passes -> PassType] /\ active' \in Platforms /\ page' \in {"access", "wallet"}
        BY <2>1, <2>2, ProceedTypes
    <2>7. blanked' \in BOOLEAN /\ switching' \in 0..MaxSwitches
        BY <1>4 DEF Open, TypeOK
    <2>8. QED
        BY <2>2, <2>3, <2>4, <2>5, <2>6, <2>7 DEF TypeOK
<1>5. ASSUME NEW i \in Passes, NEW p \in Platforms, Fail(i, p)
      PROVE  TypeOK'
    <2> DEFINE q == [pass[i] EXCEPT !.todo = @ \ {p}, !.failed = TRUE]
    <2>1. q \in PassType
        BY SettledTypes DEF TypeOK
    <2>2. Proceed(i, q, wallet)
        BY <1>5 DEF Fail
    <2>3. rival' \subseteq Platforms
        BY <1>5, RivalTypes DEF Fail
    <2> HIDE DEF q
    <2>4. QED
        BY <1>5, <2>1, <2>2, <2>3, ProceedTypes DEF Fail, TypeOK
<1>6. ASSUME NEW p \in Platforms, Disconnect(p)
      PROVE  TypeOK'
    <2>1. CASE Reload
        BY <2>1, ReloadTypes
    <2>2. CASE ~ Reload
        <3>1. Live(wallet) \ {p, active} # {} /\ active' = First(Live(wallet) \ {p, active})
            BY <1>6, <2>2 DEF Disconnect
        <3>2. active' \in Platforms
            BY <3>1, FirstInSet DEF Live
        <3>3. QED
            BY <1>6, <2>2, <3>2 DEF Disconnect, TypeOK, Wallets
    <2>3. QED
        BY <2>1, <2>2
<1>7. CASE CloseTab
    BY <1>6, <1>7 DEF CloseTab, TypeOK
<1>8. ASSUME NEW p \in Platforms, ExtensionGone(p)
      PROVE  TypeOK'
    BY <1>6, <1>8 DEF ExtensionGone
<1>9. CASE Exit
    BY <1>9, ReloadTypes DEF Exit
<1>10. ASSUME NEW p \in Platforms, FollowAccount(p)
       PROVE  TypeOK'
    BY <1>10 DEF FollowAccount, TypeOK, Wallets
<1>11. CASE SwitchAccount
    BY <1>11 DEF SwitchAccount, TypeOK, Wallets
<1>12. CASE SwitchDone
    <2>1. active' \in Platforms /\ page' \in {"access", "wallet"}
        <3>1. Arrive(wallet', active)
            BY <1>12 DEF SwitchDone
        <3>2. QED
            BY <3>1, ArriveTypes DEF TypeOK
    <2>2. rival' \subseteq Platforms
        BY <1>12, RivalTypes DEF SwitchDone
    <2>3. wallet' \in [Platforms -> Wallets] /\ switching' \in 0..MaxSwitches
        BY <1>12 DEF SwitchDone, TypeOK, Wallets
    <2>4. blanked' \in BOOLEAN
        BY <1>12 DEF SwitchDone, TypeOK
    <2>5. listening' = listening /\ pass' = pass
        BY <1>12 DEF SwitchDone
    <2>6. QED
        BY <2>1, <2>2, <2>3, <2>4, <2>5 DEF TypeOK
<1>13. CASE SwitchFailed
    BY <1>13 DEF SwitchFailed, TypeOK
<1>14. CASE FollowChain
    BY <1>14 DEF FollowChain, TypeOK
<1>15. ASSUME NEW p \in Platforms, SelectTab(p) \/ SelectPlatform(p)
       PROVE  TypeOK'
    BY <1>15 DEF SelectTab, SelectPlatform, TypeOK
<1>16. CASE AddSession
    BY <1>16 DEF AddSession, TypeOK
<1>17. CASE GoToWallet
    <2>1. active' \in Platforms /\ page' \in {"access", "wallet"}
        BY <1>17, ArriveTypes DEF GoToWallet, TypeOK
    <2>2. QED
        BY <1>17, <2>1 DEF GoToWallet, TypeOK
<1>18. CASE UNCHANGED vars
    BY <1>18 DEF vars, TypeOK
<1>19. QED
    BY <1>1, <1>2, <1>3, <1>4, <1>5, <1>7, <1>8, <1>9, <1>10, <1>11, <1>12, <1>13, <1>14, <1>15,
       <1>16, <1>17, <1>18 DEF Next, SessionsGoOn

\* Every variable keeps its type, whatever passes, switches and extension
\* events come together.
THEOREM TypeCorrect == Spec => []TypeOK
BY TypeOKInit, TypeOKNext, PTL DEF Spec

-----------------------------------------------------------------------------
(* The wallet page.                                                        *)

LEMMA BlankedWhen ==
    ASSUME NEW b, Blanked(b), b = TRUE, wallet'[active'] = "none"
    PROVE  blanked' = TRUE
BY DEF Blanked

\* A pass that goes on: the sessions of w contain those there were.
LEMMA ProceedPageLive ==
    ASSUME TypeOK, WalletPageIsLive, NEW i \in Passes, NEW q \in PassType, NEW w,
           Proceed(i, q, w), wallet' = w, Blanked(blanked),
           \A p \in Platforms : w[p] = "none" => wallet[p] = "none"
    PROVE  WalletPageIsLive'
<1> SUFFICES ASSUME page' = "wallet", wallet'[active'] = "none"
             PROVE  blanked' = TRUE
    BY DEF WalletPageIsLive
<1>1. page = "wallet" /\ w[active] = "none"
    BY ProceedArrivesLive
<1>2. wallet[active] = "none"
    BY <1>1 DEF TypeOK
<1>3. blanked = TRUE
    BY <1>1, <1>2 DEF WalletPageIsLive, TypeOK
<1>4. QED
    BY <1>3, BlankedWhen

\* The page and the tab stay, or the tab becomes one with a session.
LEMMA StillPageLive ==
    ASSUME WalletPageIsLive, TypeOK,
           \/ page' # "wallet"
           \/ wallet'[active'] # "none"
           \/ /\ page' = page /\ active' = active /\ blanked' = blanked
              /\ wallet'[active] = wallet[active]
    PROVE  WalletPageIsLive'
BY DEF WalletPageIsLive

LEMMA ReloadPageLive == ASSUME Reload PROVE WalletPageIsLive'
BY DEF Reload, WalletPageIsLive

LEMMA DisconnectPageLive ==
    ASSUME TypeOK, WalletPageIsLive, NEW p \in Platforms, Disconnect(p)
    PROVE  WalletPageIsLive'
<1> DEFINE remaining == Live(wallet) \ {p, active}
<1>1. CASE remaining = {}
    BY <1>1, ReloadPageLive DEF Disconnect
<1>2. CASE remaining # {}
    <2>1. active' = First(remaining) /\ wallet' = [wallet EXCEPT ![p] = "none"]
        BY <1>2 DEF Disconnect
    <2>2. remaining \in SUBSET Platforms
        BY DEF Live
    <2> HIDE DEF remaining
    <2>3. active' \in remaining
        BY <1>2, <2>1, <2>2, FirstInSet
    <2>4. wallet'[active'] # "none"
        BY <2>1, <2>3 DEF remaining, Live, TypeOK
    <2>5. QED
        BY <2>4, StillPageLive
<1>3. QED
    BY <1>1, <1>2

LEMMA PageLiveNext == TypeOK /\ WalletPageIsLive /\ [Next]_vars => WalletPageIsLive'
<1> SUFFICES ASSUME TypeOK, WalletPageIsLive, [Next]_vars
             PROVE  WalletPageIsLive'
    OBVIOUS
<1>1. ASSUME NEW i \in Passes, NEW targets \in SUBSET Platforms, StartPhrase(i, targets)
      PROVE  WalletPageIsLive'
    <2> DEFINE q == [Idle EXCEPT !.kind = "phrase", !.todo = targets \ Live(wallet),
                                 !.skipped = targets \cap Live(wallet)]
    <2>1. q \in PassType
        BY DEF Idle, PassType, Live
    <2>2. Proceed(i, q, wallet) /\ wallet' = wallet /\ Blanked(blanked)
        BY <1>1 DEF StartPhrase
    <2> HIDE DEF q
    <2>3. QED
        BY <2>1, <2>2, ProceedPageLive
<1>2. ASSUME NEW i \in Passes, NEW targets \in SUBSET Platforms, StartExtension(i, targets)
      PROVE  WalletPageIsLive'
    <2> DEFINE q == [Idle EXCEPT !.kind = "extension", !.todo = targets]
    <2>1. q \in PassType
        BY DEF Idle, PassType
    <2>2. Proceed(i, q, wallet) /\ wallet' = wallet /\ Blanked(blanked)
        BY <1>2 DEF StartExtension
    <2> HIDE DEF q
    <2>3. QED
        BY <2>1, <2>2, ProceedPageLive
<1>3. ASSUME NEW i \in Passes, NEW p \in Platforms, Open(i, p)
      PROVE  WalletPageIsLive'
    <2> DEFINE w == [wallet EXCEPT ![p] = IF pass[i].kind = "extension" THEN pass[i].kind ELSE "local"]
               q == [pass[i] EXCEPT !.todo = @ \ {p}, !.opened = @ \cup {p}]
    <2>1. q \in PassType
        BY SettledTypes DEF TypeOK
    <2>2. Proceed(i, q, w) /\ wallet' = w /\ Blanked(blanked)
        BY <1>3 DEF Open
    <2>3. \A o \in Platforms : w[o] = "none" => wallet[o] = "none"
        BY DEF TypeOK
    <2> HIDE DEF q, w
    <2>4. QED
        BY <2>1, <2>2, <2>3, ProceedPageLive
<1>4. ASSUME NEW i \in Passes, NEW p \in Platforms, Fail(i, p)
      PROVE  WalletPageIsLive'
    <2> DEFINE q == [pass[i] EXCEPT !.todo = @ \ {p}, !.failed = TRUE]
    <2>1. q \in PassType
        BY SettledTypes DEF TypeOK
    <2>2. Proceed(i, q, wallet) /\ wallet' = wallet /\ Blanked(blanked)
        BY <1>4 DEF Fail
    <2> HIDE DEF q
    <2>3. QED
        BY <2>1, <2>2, ProceedPageLive
<1>5. CASE CloseTab
    BY <1>5, DisconnectPageLive DEF CloseTab, TypeOK
<1>6. ASSUME NEW p \in Platforms, ExtensionGone(p)
      PROVE  WalletPageIsLive'
    BY <1>6, DisconnectPageLive DEF ExtensionGone
<1>7. CASE Exit
    BY <1>7, ReloadPageLive DEF Exit
<1>8. ASSUME NEW p \in Platforms, FollowAccount(p)
      PROVE  WalletPageIsLive'
    <2>1. wallet'[active] = "none" => wallet[active] = "none"
        BY <1>8 DEF FollowAccount, TypeOK
    <2>2. QED
        BY <1>8, <2>1 DEF FollowAccount, WalletPageIsLive
<1>9. CASE SwitchAccount
    <2> SUFFICES ASSUME page' = "wallet", wallet'[active'] = "none"
                 PROVE  blanked' = TRUE
        BY DEF WalletPageIsLive
    <2>1. page = "wallet" /\ Blanked(blanked \/ wallet[active] # "none")
        BY <1>9 DEF SwitchAccount
    <2>2. (blanked \/ wallet[active] # "none") = TRUE
        BY <2>1 DEF WalletPageIsLive, TypeOK
    <2>3. QED
        BY <2>1, <2>2, BlankedWhen
<1>10. CASE SwitchDone
    <2> SUFFICES ASSUME page' = "wallet", wallet'[active'] = "none"
                 PROVE  blanked' = TRUE
        BY DEF WalletPageIsLive
    <2>1. /\ Arrive(wallet', active) /\ Blanked(blanked)
          /\ wallet' = [wallet EXCEPT ![Default] = "extension"]
        BY <1>10 DEF SwitchDone
    <2>2. page = "wallet"
        BY <2>1, ArrivesLive DEF TypeOK
    <2>3. active' = active
        BY <2>1, <2>2 DEF Arrive
    <2>4. wallet[active] = "none"
        BY <2>1, <2>3 DEF TypeOK
    <2>5. QED
        BY <2>1, <2>2, <2>4, BlankedWhen DEF WalletPageIsLive, TypeOK
<1>11. ASSUME NEW p \in Platforms, SelectTab(p)
       PROVE  WalletPageIsLive'
    BY <1>11, StillPageLive DEF SelectTab
<1>12. ASSUME NEW p \in Platforms, SelectPlatform(p)
       PROVE  WalletPageIsLive'
    BY <1>12, StillPageLive DEF SelectPlatform
<1>13. CASE GoToWallet
    BY <1>13, ArrivesLive, StillPageLive DEF GoToWallet, TypeOK
<1>14. CASE FollowChain
    BY <1>14, StillPageLive DEF FollowChain
<1>15. CASE AddSession
    BY <1>15, StillPageLive DEF AddSession
<1>16. ASSUME NEW i \in Passes, StartSingle(i)
       PROVE  WalletPageIsLive'
    BY <1>16, StillPageLive DEF StartSingle
<1>17. CASE SwitchFailed
    BY <1>17, StillPageLive DEF SwitchFailed
<1>18. CASE UNCHANGED vars
    BY <1>18, StillPageLive DEF vars
<1>19. QED
    BY <1>1, <1>2, <1>3, <1>4, <1>5, <1>6, <1>7, <1>8, <1>9, <1>10, <1>11, <1>12, <1>13, <1>14,
       <1>15, <1>16, <1>17, <1>18 DEF Next, SessionsGoOn

\* In the wallet the active platform has a session, except since a switch of
\* accounts blanked it.
THEOREM WalletPageLive == Spec => []WalletPageIsLive
<1>1. Init => WalletPageIsLive
    BY DEF Init, WalletPageIsLive
<1>2. QED
    BY <1>1, TypeCorrect, PageLiveNext, PTL DEF Spec

-----------------------------------------------------------------------------
(* Passes leave sessions alone.                                            *)

\* Rivals keeps a rival that is still being opened, and adds what was opened.
LEMMA RivalsKept ==
    ASSUME NEW ps, NEW opened, NEW i \in Passes, NEW p \in InFlight(ps[i]),
           p \in rival \cup opened
    PROVE  p \in Rivals(ps, opened)
BY DEF Rivals

\* A pass i goes on from q, and perhaps a platform was opened on the way.
LEMMA ProceedSkipsLive ==
    ASSUME TypeOK, PassSkipsLive, NEW i \in Passes, NEW q \in PassType, NEW w,
           Proceed(i, q, w), wallet' = w, NEW opened \in SUBSET Platforms,
           rival' = Rivals(pass', opened) \/ (rival' = rival /\ opened = {}),
           \A p \in Platforms \ opened : w[p] = wallet[p],
           \A p \in q.todo : q.kind = "phrase" =>
               p \notin opened /\ (wallet[p] # "none" => p \in rival)
    PROVE  PassSkipsLive'
<1> SUFFICES ASSUME NEW j \in Passes, pass'[j].kind \in {"phrase", "extension"},
                    NEW p \in InFlight(pass'[j]), w[p] # "none"
             PROVE  p \in rival'
    BY DEF PassSkipsLive
<1>1. p \in rival \cup opened => p \in rival'
    BY RivalsKept
<1>2. CASE j = i
    <2>1. p \in q.todo /\ q.kind = "phrase"
        BY <1>2, ProceedSkips DEF PassType
    <2>2. p \in Platforms \ opened
        BY <2>1 DEF PassType
    <2>3. QED
        BY <1>1, <2>1, <2>2
<1>3. CASE j # i
    <2>1. pass'[j] = pass[j]
        BY <1>3, ProceedSkips
    <2>2. p \in Platforms
        BY <2>1, InFlightToDo DEF TypeOK, PassType
    <2>3. CASE p \in opened
        BY <1>1, <2>3
    <2>4. CASE p \notin opened
        <3>1. wallet[p] # "none"
            BY <2>2, <2>4
        <3>2. p \in rival
            BY <2>1, <3>1 DEF PassSkipsLive
        <3>3. QED
            BY <1>1, <3>2
    <2>5. QED
        BY <2>3, <2>4
<1>4. QED
    BY <1>2, <1>3

\* ProceedSkipsLive of a step that opens nothing.
LEMMA ProceedAloneSkipsLive ==
    ASSUME TypeOK, PassSkipsLive, NEW i \in Passes, NEW q \in PassType,
           Proceed(i, q, wallet), wallet' = wallet, rival' = rival,
           \A p \in q.todo : q.kind = "phrase" => (wallet[p] # "none" => p \in rival)
    PROVE  PassSkipsLive'
<1> DEFINE nothing == {}
<1>1. nothing \in SUBSET Platforms /\ \A p : p \notin nothing
    OBVIOUS
<1>2. rival' = Rivals(pass', nothing) \/ (rival' = rival /\ nothing = {})
    OBVIOUS
<1>3. \A p \in Platforms \ nothing : wallet[p] = wallet[p]
    OBVIOUS
<1> HIDE DEF nothing
<1>4. \A p \in q.todo : q.kind = "phrase" =>
          p \notin nothing /\ (wallet[p] # "none" => p \in rival)
    BY <1>1
<1>5. QED
    BY <1>1, <1>2, <1>3, <1>4, ProceedSkipsLive

\* The passes go on as they were, and no platform got a session.
LEMMA StillSkipsLive ==
    ASSUME TypeOK, PassSkipsLive, pass' = pass, rival' = rival,
           \A p \in Platforms : wallet'[p] # "none" => wallet[p] # "none"
    PROVE  PassSkipsLive'
<1> SUFFICES ASSUME NEW j \in Passes, pass[j].kind \in {"phrase", "extension"},
                    NEW p \in InFlight(pass[j]), wallet'[p] # "none"
             PROVE  p \in rival
    BY DEF PassSkipsLive
<1>1. p \in Platforms
    BY InFlightToDo DEF TypeOK, PassType
<1>2. QED
    BY <1>1 DEF PassSkipsLive

LEMMA ReloadSkipsLive == ASSUME Reload PROVE PassSkipsLive'
BY DEF Reload, PassSkipsLive, Idle

LEMMA DisconnectSkipsLive ==
    ASSUME TypeOK, PassSkipsLive, NEW p \in Platforms, Disconnect(p)
    PROVE  PassSkipsLive'
<1>1. CASE Reload
    BY <1>1, ReloadSkipsLive
<1>2. CASE ~ Reload
    <2>1. pass' = pass /\ rival' = rival /\ wallet' = [wallet EXCEPT ![p] = "none"]
        BY <1>2 DEF Disconnect
    <2>2. QED
        BY <2>1, StillSkipsLive DEF TypeOK
<1>3. QED
    BY <1>1, <1>2

LEMMA SkipsLiveNext == TypeOK /\ PassSkipsLive /\ [Next]_vars => PassSkipsLive'
<1> SUFFICES ASSUME TypeOK, PassSkipsLive, [Next]_vars
             PROVE  PassSkipsLive'
    OBVIOUS
<1>1. ASSUME NEW i \in Passes, NEW targets \in SUBSET Platforms, StartPhrase(i, targets)
      PROVE  PassSkipsLive'
    <2> DEFINE q == [Idle EXCEPT !.kind = "phrase", !.todo = targets \ Live(wallet),
                                 !.skipped = targets \cap Live(wallet)]
    <2>1. q \in PassType
        BY DEF Idle, PassType, Live
    <2>2. Proceed(i, q, wallet) /\ wallet' = wallet /\ rival' = rival
        BY <1>1 DEF StartPhrase
    <2>3. \A p \in q.todo : wallet[p] = "none"
        BY DEF Idle, Live
    <2> HIDE DEF q
    <2>4. QED
        BY <2>1, <2>2, <2>3, ProceedAloneSkipsLive
<1>2. ASSUME NEW i \in Passes, NEW targets \in SUBSET Platforms, StartExtension(i, targets)
      PROVE  PassSkipsLive'
    <2> DEFINE q == [Idle EXCEPT !.kind = "extension", !.todo = targets]
    <2>1. q \in PassType /\ q.kind = "extension"
        BY DEF Idle, PassType
    <2>2. Proceed(i, q, wallet) /\ wallet' = wallet /\ rival' = rival
        BY <1>2 DEF StartExtension
    <2> HIDE DEF q
    <2>3. QED
        BY <2>1, <2>2, ProceedAloneSkipsLive
<1>3. ASSUME NEW i \in Passes, NEW p \in Platforms, Open(i, p)
      PROVE  PassSkipsLive'
    <2> DEFINE w == [wallet EXCEPT ![p] = IF pass[i].kind = "extension" THEN pass[i].kind ELSE "local"]
               q == [pass[i] EXCEPT !.todo = @ \ {p}, !.opened = @ \cup {p}]
    <2>1. q \in PassType
        BY SettledTypes DEF TypeOK
    <2>2. Proceed(i, q, w) /\ wallet' = w /\ rival' = Rivals(pass', {p})
        BY <1>3 DEF Open
    <2>3. \A o \in Platforms \ {p} : w[o] = wallet[o]
        BY DEF TypeOK
    <2>4. pass[i] \in PassType
        BY DEF TypeOK
    <2>5. q.todo = pass[i].todo \ {p} /\ q.kind = pass[i].kind
        BY <2>4 DEF PassType
    <2>6. ASSUME NEW o \in q.todo, q.kind = "phrase"
          PROVE  o \notin {p} /\ (wallet[o] # "none" => o \in rival)
        <3>1. o \in InFlight(pass[i])
            BY <2>5, <2>6 DEF InFlight
        <3>2. QED
            BY <2>5, <2>6, <3>1 DEF PassSkipsLive
    <2> HIDE DEF q, w
    <2>7. QED
        BY <2>1, <2>2, <2>3, <2>6, ProceedSkipsLive
<1>4. ASSUME NEW i \in Passes, NEW p \in Platforms, Fail(i, p)
      PROVE  PassSkipsLive'
    <2> DEFINE q == [pass[i] EXCEPT !.todo = @ \ {p}, !.failed = TRUE]
    <2>1. q \in PassType
        BY SettledTypes DEF TypeOK
    <2>2. Proceed(i, q, wallet) /\ wallet' = wallet /\ rival' = Rivals(pass', {})
        BY <1>4 DEF Fail
    <2>3. pass[i] \in PassType
        BY DEF TypeOK
    <2>4. q.todo = pass[i].todo \ {p} /\ q.kind = pass[i].kind
        BY <2>3 DEF PassType
    <2>5. ASSUME NEW o \in q.todo, q.kind = "phrase"
          PROVE  wallet[o] # "none" => o \in rival
        <3>1. o \in InFlight(pass[i])
            BY <2>4, <2>5 DEF InFlight
        <3>2. QED
            BY <2>4, <2>5, <3>1 DEF PassSkipsLive
    <2> HIDE DEF q
    <2>6. QED
        BY <2>1, <2>2, <2>5, ProceedSkipsLive
<1>5. CASE CloseTab
    BY <1>5, DisconnectSkipsLive DEF CloseTab, TypeOK
<1>6. ASSUME NEW p \in Platforms, ExtensionGone(p)
      PROVE  PassSkipsLive'
    BY <1>6, DisconnectSkipsLive DEF ExtensionGone
<1>7. CASE Exit
    BY <1>7, ReloadSkipsLive DEF Exit
<1>8. ASSUME NEW p \in Platforms, FollowAccount(p)
      PROVE  PassSkipsLive'
    BY <1>8, StillSkipsLive DEF FollowAccount, TypeOK
<1>9. CASE SwitchAccount
    BY <1>9, StillSkipsLive DEF SwitchAccount, TypeOK
<1>10. CASE SwitchDone
    <2> SUFFICES ASSUME NEW j \in Passes, pass[j].kind \in {"phrase", "extension"},
                        NEW p \in InFlight(pass[j]), wallet'[p] # "none"
                 PROVE  p \in rival'
        BY <1>10 DEF SwitchDone, PassSkipsLive
    <2>1. rival' = Rivals(pass, {Default}) /\ wallet' = [wallet EXCEPT ![Default] = "extension"]
        BY <1>10 DEF SwitchDone
    <2>2. p \in Platforms
        BY InFlightToDo DEF TypeOK, PassType
    <2>3. p # Default => wallet[p] # "none"
        BY <2>1, <2>2 DEF TypeOK
    <2>4. p \in rival \cup {Default}
        BY <2>3 DEF PassSkipsLive
    <2>5. QED
        BY <2>1, <2>4, RivalsKept
<1>11. ASSUME NEW p \in Platforms, SelectTab(p) \/ SelectPlatform(p)
       PROVE  PassSkipsLive'
    BY <1>11, StillSkipsLive DEF SelectTab, SelectPlatform
<1>12. CASE GoToWallet \/ FollowChain \/ AddSession \/ SwitchFailed
    BY <1>12, StillSkipsLive DEF GoToWallet, FollowChain, AddSession, SwitchFailed
<1>13. ASSUME NEW i \in Passes, StartSingle(i)
       PROVE  PassSkipsLive'
    <2>1. /\ pass' = [pass EXCEPT ![i] = [Idle EXCEPT !.kind = "single", !.todo = {active}]]
          /\ wallet' = wallet /\ rival' = rival
        BY <1>13 DEF StartSingle
    <2>2. pass'[i].kind = "single" /\ \A j \in Passes \ {i} : pass'[j] = pass[j]
        BY <2>1 DEF TypeOK, Idle
    <2>3. QED
        BY <2>1, <2>2 DEF PassSkipsLive
<1>14. CASE UNCHANGED vars
    BY <1>14, StillSkipsLive DEF vars
<1>15. QED
    BY <1>1, <1>2, <1>3, <1>4, <1>5, <1>6, <1>7, <1>8, <1>9, <1>10, <1>11, <1>12, <1>13, <1>14 DEF Next, SessionsGoOn

\* A pass never works on a platform that has a session, unless the session was
\* opened while it waited for that platform.
THEOREM PassesSkipLive == Spec => []PassSkipsLive
<1>1. Init => PassSkipsLive
    BY DEF Init, PassSkipsLive, Idle
<1>2. QED
    BY <1>1, TypeCorrect, SkipsLiveNext, PTL DEF Spec

-----------------------------------------------------------------------------
(* What a disconnect and a landing may do to the other sessions.           *)

\* A disconnect ends one session, or it is the reload of finishDisconnect().
LEMMA DisconnectEnds ==
    ASSUME TypeOK, NEW p \in Platforms, Disconnect(p)
    PROVE  Ended \subseteq {p} \/ (p # active /\ Live(wallet) \subseteq {p, active})
<1> DEFINE remaining == Live(wallet) \ {p, active}
<1>1. CASE remaining = {}
    BY <1>1 DEF Ended, Live
<1>2. CASE remaining # {}
    <2>1. wallet' = [wallet EXCEPT ![p] = "none"]
        BY <1>2 DEF Disconnect
    <2>2. QED
        BY <2>1 DEF Ended, TypeOK
<1>3. QED
    BY <1>1, <1>2

\* Why a session may end.
LEMMA SparesNext ==
    ASSUME TypeOK, Next, NEW p \in Ended
    PROVE  \/ cause'[1] = "exit"
           \/ cause' \in {<<"tab", p>>, <<"extension", p>>}
           \/ p = Default /\ SwitchAccount
           \/ \E q \in Platforms : ReloadedBehind(q)
<1>1. p \in Platforms /\ wallet[p] # "none" /\ wallet'[p] = "none"
    BY DEF Ended
<1>2. CASE Exit /\ cause' = <<"exit", Default>>
    BY <1>2
<1>3. CASE CloseTab /\ cause' = <<"tab", active>>
    <2>1. Ended \subseteq {active}
        BY <1>3, DisconnectEnds DEF CloseTab, TypeOK
    <2>2. QED
        BY <1>3, <2>1
<1>4. ASSUME NEW q \in Platforms, ExtensionGone(q), cause' = <<"extension", q>>
      PROVE  p = q \/ ReloadedBehind(q)
    <2>1. Ended \subseteq {q} \/ (q # active /\ Live(wallet) \subseteq {q, active})
        BY <1>4, DisconnectEnds DEF ExtensionGone
    <2>2. QED
        BY <1>4, <2>1 DEF ReloadedBehind
<1>5. ASSUME SessionsGoOn
      PROVE  p = Default /\ SwitchAccount
    <2>1. ASSUME NEW i \in Passes, NEW o \in Platforms, Open(i, o)
          PROVE  FALSE
        BY <1>1, <2>1 DEF Open, TypeOK
    <2>2. ASSUME NEW o \in Platforms, FollowAccount(o)
          PROVE  FALSE
        BY <1>1, <2>2 DEF FollowAccount, TypeOK
    <2>3. CASE SwitchAccount
        BY <1>1, <2>3 DEF SwitchAccount, TypeOK
    <2>4. CASE SwitchDone
        BY <1>1, <2>4 DEF SwitchDone, TypeOK
    <2>5. CASE UNCHANGED wallet
        BY <1>1, <2>5
    <2>6. QED
        BY <1>5, <2>1, <2>2, <2>3, <2>4, <2>5
        DEF SessionsGoOn, StartPhrase, StartExtension, StartSingle, Fail, SelectTab,
            SelectPlatform, AddSession, GoToWallet, FollowChain, SwitchFailed
<1>6. QED
    BY <1>2, <1>3, <1>4, <1>5 DEF Next

\* A session ends by Exit, with its own tab or extension, during a switch of its
\* account - or with the reload that the extension of a platform in the
\* background causes when the active session is the only other one.
THEOREM OthersSpared == Spec => DisconnectSparesOthers
<1>1. TypeOK /\ [Next]_vars =>
        [\A p \in Ended :
            \/ cause'[1] = "exit"
            \/ cause' \in {<<"tab", p>>, <<"extension", p>>}
            \/ p = Default /\ SwitchAccount
            \/ \E q \in Platforms : ReloadedBehind(q)]_vars
    BY SparesNext
<1>2. QED
    BY <1>1, TypeCorrect, PTL DEF Spec, DisconnectSparesOthers

\* The active platform keeps its session and the user is moved: the user asked,
\* the extension's chain moved, or another platform's extension disconnected.
LEMMA StaysNext ==
    ASSUME TypeOK, Next, active' # active, wallet[active] # "none", wallet'[active] # "none"
    PROVE  \/ \E p \in Platforms : SelectTab(p) \/ SelectPlatform(p)
           \/ FollowChain
           \/ \E q \in Platforms \ {active} : cause' = <<"extension", q>>
<1>1. ASSUME NEW i \in Passes, NEW q, Proceed(i, q, wallet')
      PROVE  FALSE
    BY <1>1, ProceedStays
<1>2. ASSUME NEW p \in Platforms, Disconnect(p)
      PROVE  p # active
    BY <1>2 DEF Disconnect, Reload, TypeOK
<1>3. ASSUME NEW i \in Passes, NEW targets \in SUBSET Platforms,
             StartPhrase(i, targets) \/ StartExtension(i, targets)
      PROVE  FALSE
    BY <1>1, <1>3 DEF StartPhrase, StartExtension
<1>4. ASSUME NEW i \in Passes, NEW p \in Platforms, Open(i, p)
      PROVE  FALSE
    BY <1>1, <1>4 DEF Open
<1>5. ASSUME NEW i \in Passes, NEW p \in Platforms, Fail(i, p)
      PROVE  FALSE
    BY <1>1, <1>5 DEF Fail
<1>6. ASSUME CloseTab PROVE FALSE
    BY <1>2, <1>6 DEF CloseTab, TypeOK
<1>7. ASSUME NEW p \in Platforms, ExtensionGone(p)
      PROVE  p # active
    BY <1>2, <1>7 DEF ExtensionGone
<1>8. ASSUME Exit PROVE FALSE
    BY <1>8 DEF Exit, Reload, TypeOK
<1>9. ASSUME SwitchDone PROVE FALSE
    BY <1>9, ArriveStays DEF SwitchDone
<1>10. ASSUME GoToWallet PROVE FALSE
    BY <1>10, ArriveStays DEF GoToWallet
<1>11. SessionsGoOn => FollowChain \/ \E p \in Platforms : SelectTab(p) \/ SelectPlatform(p)
    BY <1>3, <1>4, <1>5, <1>9, <1>10
    DEF SessionsGoOn, StartSingle, FollowAccount, SwitchAccount, SwitchFailed, AddSession
<1>12. QED
    BY <1>6, <1>7, <1>8, <1>11 DEF Next

\* The user leaves a live session only by a choice, with the extension's chain,
\* or when the extension of another platform disconnects.
THEOREM TabKept == Spec => StaysOnTab
<1>1. TypeOK /\ [Next]_vars =>
        [active' # active /\ wallet[active] # "none" /\ wallet'[active] # "none" =>
            \/ \E p \in Platforms : SelectTab(p) \/ SelectPlatform(p)
            \/ FollowChain
            \/ \E q \in Platforms \ {active} : cause' = <<"extension", q>>]_vars
    BY StaysNext
<1>2. QED
    BY <1>1, TypeCorrect, PTL DEF Spec, StaysOnTab

=============================================================================
