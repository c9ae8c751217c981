--------------------------- MODULE ScriptRun_proofs ---------------------------
(***************************************************************************)
(* Proofs about ScriptRun, for every set of calls and wallets, every       *)
(* budget and any number of approvals.                                     *)
(***************************************************************************)
EXTENDS ScriptRun_lemmas

-----------------------------------------------------------------------------
(* The inductive invariant of the calls and of the scope.  The rows of the *)
(* page and the budget have theirs below, which build on it.               *)

Shape ==
    /\ mode \in {"live", "plan"} /\ stage \in {"ready", "running", "closing", "returned"}
    /\ status \in [Calls -> Statuses]
    /\ intents \in Seq(Calls)
    /\ held \in Calls \cup {None} /\ latest \in Calls \cup {None} /\ ending \in Calls \cup {None}
    /\ scope \in [Calls -> {"none", "asks", "rides", "owns", "closing"}]
    /\ awaits \in [Calls -> Calls \cup {None}]
    /\ ambient \in Calls \cup {None} /\ prompt \in Calls \cup {None}
    /\ own \subseteq Calls /\ deriving \subseteq Calls /\ verifying \subseteq Calls
    /\ step \in Nat /\ total \in Nat
    /\ signed \in [Calls -> Nat]
    /\ late \subseteq Calls

Early == {"idle", "asked"}

\* The intents are the calls that got past the checks, each of them once.
Recorded ==
    /\ \A i \in DOMAIN intents : status[intents[i]] \notin Early
    /\ \A i, j \in DOMAIN intents : intents[i] = intents[j] => i = j
    /\ \A c \in Calls : status[c] \in UnderWay => \E i \in DOMAIN intents : intents[i] = c

\* The requests of calls that ask.
Asking ==
    /\ prompt # None => status[prompt] \in {"opening", "asking"} /\ prompt \notin verifying
    /\ \A c \in deriving \cup verifying : status[c] \in {"opening", "asking"}
    /\ deriving \cap verifying = {}

\* A plan is executed one step at a time, from the first, and its calls never
\* overlap.
InOrder ==
    /\ review \/ Executing => Planning /\ stage = "returned" /\ intents # <<>>
    /\ Executing => step <= total /\ total <= Len(intents) /\ (left => aborted)
    /\ Executing => \A i \in 1..(step - 1) : status[intents[i]] = "done"
    /\ Planning => /\ \A c \in OnItsWay : Executing /\ intents[step] = c
                   /\ ~Executing => held = None
                   /\ stage # "closing" /\ ~mixed /\ ~doubled

\* The scope of each call against its progress, and the slot against the scopes.
Scoped ==
    /\ \A c \in Calls : status[c] \in {"idle", "asked", "planned", "closing"} => scope[c] = "none"
    /\ \A c \in Calls : scope[c] = "asks" <=> status[c] = "opening"
    /\ held # None => scope[held] \in {"rides", "owns"}
    /\ \A c \in own : status[c] = "executing"
    /\ ambient # None => \/ ambient = held /\ scope[ambient] = "owns"
                         \/ scope[ambient] = "closing"
                         \/ ambient \in own

OnTheirWay ==
    ~Planning /\ stage \in {"closing", "returned"} =>
        /\ \A c \in Calls : status[c] \in {"asked", "closing", "opening", "opened", "asking"} => c \in late
        /\ held \in late \cup {None} /\ own \subseteq late

Calm == ~mixed /\ ~doubled /\ ~left /\ (Planning \/ stage \notin {"closing", "returned"})

\* While nothing disturbs the scope, its owner is in the slot and in the holder;
\* one that is closing has somebody of another wallet, or the page, wait for it.
Kept ==
    Calm =>
        /\ \A c, d \in OnItsWay : WalletOf[c] = WalletOf[d]
        /\ held # None => latest = held /\ \A c \in OnItsWay : WalletOf[c] = WalletOf[held]
        /\ own = {} /\ \A c \in Calls : status[c] # "asking"
        /\ \A c \in Calls : scope[c] = "asks" => latest = c /\ held = None /\ ambient = None
        /\ \A c \in Calls : scope[c] \in {"rides", "owns"} =>
               /\ held = c
               /\ scope[c] = "rides" => WalletOf[c] \in External
               /\ scope[c] = "owns" => ambient = c
        /\ \A c \in Calls : scope[c] = "closing" =>
               /\ ambient = c
               /\ \/ Planning /\ ~Executing /\ ending = c
                  \/ \E d \in Calls : status[d] = "closing" /\ awaits[d] = c /\ WalletOf[d] # WalletOf[c]
        /\ \A c \in Calls : status[c] \in {"opened", "executing"} /\ WalletOf[c] \notin External
               => held # None

ScriptInv ==
    /\ Shape /\ Recorded /\ Asking /\ InOrder /\ Scoped /\ OnTheirWay /\ Kept

-----------------------------------------------------------------------------
(* Lemmas about the operators.                                             *)

LEMMA Appended ==
    ASSUME NEW s \in Seq(Calls), NEW c \in Calls
    PROVE  /\ Append(s, c) \in Seq(Calls)
           /\ Len(Append(s, c)) = Len(s) + 1
           /\ DOMAIN Append(s, c) = DOMAIN s \cup {Len(s) + 1}
           /\ Len(s) + 1 \notin DOMAIN s /\ Len(s) \in Nat
           /\ \A i \in DOMAIN s : i < Len(s) + 1 /\ Append(s, c)[i] = s[i]
           /\ Append(s, c)[Len(s) + 1] = c
<1>1. Len(s) \in Nat /\ DOMAIN s = 1..Len(s)
    OBVIOUS
<1>2. QED
    BY <1>1

\* Call c is at st, the others are where they were.
Moves(c, st) ==
    /\ status' \in [Calls -> Statuses]
    /\ status'[c] = st /\ \A x \in Calls \ {c} : status'[x] = status[x]

LEMMA MovesTo ==
    ASSUME Shape, NEW c \in Calls, NEW st \in Statuses, status' = [status EXCEPT ![c] = st]
    PROVE  Moves(c, st)
BY DEF Shape, Moves

\* The three ways through open(), and through the nested authorizeBatch().
Rides(c) == Moves(c, "opened") /\ Authorized(c) /\ held' = c /\ scope' = [scope EXCEPT ![c] = "rides"]
Barred(c) == Moves(c, "barred") /\ Refusable(c) /\ UNCHANGED <<held, scope>>
Opens(c) == Moves(c, "opening") /\ Unauthorized(c) /\ held' = held /\ scope' = [scope EXCEPT ![c] = "asks"]
Goes(c) == Moves(c, "executing") /\ Authorized(c) /\ UNCHANGED <<held, scope>>
Asks(c) == Moves(c, "asking") /\ Unauthorized(c) /\ UNCHANGED <<held, scope>>

LEMMA OpenResult ==
    ASSUME Shape, NEW c \in Calls, Open(c)
    PROVE  /\ latest' = c /\ doubled' = (doubled \/ \E d \in Calls : scope[d] = "asks")
           /\ \/ Rides(c) /\ prompt' = prompt
              \/ Barred(c) /\ prompt' = prompt
              \/ Opens(c) /\ prompt' = c
<1>1. {"opened", "barred", "opening"} \subseteq Statuses
    BY DEF Statuses
<1>2. ASSUME Authorized(c), status' = [status EXCEPT ![c] = "opened"], scope' = [scope EXCEPT ![c] = "rides"],
             held' = c
      PROVE  Rides(c)
    BY <1>1, <1>2, MovesTo DEF Rides
<1>3. ASSUME Refusable(c), status' = [status EXCEPT ![c] = "barred"], UNCHANGED <<scope, held>>
      PROVE  Barred(c)
    BY <1>1, <1>3, MovesTo DEF Barred
<1>4. ASSUME Unauthorized(c), status' = [status EXCEPT ![c] = "opening"], scope' = [scope EXCEPT ![c] = "asks"],
             held' = held
      PROVE  Opens(c)
    BY <1>1, <1>4, MovesTo DEF Opens
<1>5. QED
    BY <1>2, <1>3, <1>4 DEF Open, Request, asking

LEMMA NestResult ==
    ASSUME Shape, NEW c \in Calls, Nest(c)
    PROVE  /\ UNCHANGED <<held, latest, scope, doubled>>
           /\ \/ Goes(c) /\ prompt' = prompt
              \/ Barred(c) /\ prompt' = prompt
              \/ Asks(c) /\ prompt' = c
<1>1. {"executing", "barred", "asking"} \subseteq Statuses
    BY DEF Statuses
<1>2. UNCHANGED <<held, latest, scope, doubled>>
    BY DEF Nest
<1>3. ASSUME Authorized(c), status' = [status EXCEPT ![c] = "executing"]
      PROVE  Goes(c)
    BY <1>1, <1>2, <1>3, MovesTo DEF Goes
<1>4. ASSUME Refusable(c), status' = [status EXCEPT ![c] = "barred"]
      PROVE  Barred(c)
    BY <1>1, <1>2, <1>4, MovesTo DEF Barred
<1>5. ASSUME Unauthorized(c), status' = [status EXCEPT ![c] = "asking"]
      PROVE  Asks(c)
    BY <1>1, <1>2, <1>5, MovesTo DEF Asks
<1>6. QED
    BY <1>2, <1>3, <1>4, <1>5 DEF Nest, Request, asking

\* The release before a scope of another wallet.
Releases(c) ==
    /\ held # None /\ ~OwnScope(c)
    /\ Moves(c, "closing") /\ awaits' = [awaits EXCEPT ![c] = latest]
    /\ ReleaseNow /\ doubled' = doubled

LEMMA RunResult ==
    ASSUME Shape, NEW c \in Calls, Run(c)
    PROVE  /\ mixed' = (mixed \/ \E d \in OnItsWay : WalletOf[d] # WalletOf[c])
           /\ \/ Releases(c) /\ prompt' = prompt
              \/ held = None /\ Open(c) /\ awaits' = awaits
              \/ OwnScope(c) /\ Nest(c) /\ awaits' = awaits
<1>1. "closing" \in Statuses
    BY DEF Statuses
<1>2. ASSUME held # None, ~OwnScope(c), ReleaseNow, awaits' = [awaits EXCEPT ![c] = latest],
             status' = [status EXCEPT ![c] = "closing"], doubled' = doubled
      PROVE  Releases(c)
    BY <1>1, <1>2, MovesTo DEF Releases
<1>3. QED
    BY <1>2 DEF Run, asking

\* What is released is closing, or was not the owner's.
LEMMA ReleaseResult ==
    ASSUME Shape, Scoped, ReleaseNow
    PROVE  /\ held' = None /\ latest' = None
           /\ scope' \in [Calls -> {"none", "asks", "rides", "owns", "closing"}]
           /\ \A x \in Calls : x # held => scope'[x] = scope[x]
           /\ held # None => scope'[held] = IF scope[held] = "owns" THEN "closing" ELSE "none"
<1>1. CASE held = None
    BY <1>1 DEF ReleaseNow, Shape
<1>2. CASE held # None
    BY <1>2 DEF ReleaseNow, Shape
<1>3. QED
    BY <1>1, <1>2

-----------------------------------------------------------------------------
(* A call moves on: what open(), the nested authorizeBatch() and the release *)
(* before them do to each part of the invariant.                           *)

\* A call that is not shown by the prompt, or executed, moves on.
LEMMA MoveAsking ==
    ASSUME Shape, Asking, NEW c \in Calls, NEW st, Moves(c, st),
           status[c] \notin {"opening", "asking"},
           prompt' = prompt \/ (prompt' = c /\ st \in {"opening", "asking"}),
           UNCHANGED <<deriving, verifying>>
    PROVE  Asking'
BY CallsAssumption DEF Shape, Asking, Moves

LEMMA MoveRecorded ==
    ASSUME Shape, Recorded, NEW c \in Calls, NEW st, Moves(c, st), st \notin Early,
           intents' = intents, \E i \in DOMAIN intents : intents[i] = c
    PROVE  Recorded'
<1>1. \A i \in DOMAIN intents : intents[i] \in Calls
    BY DEF Shape
<1>2. QED
    BY <1>1 DEF Recorded, Moves

LEMMA OpenScoped ==
    ASSUME Shape, Scoped, NEW c \in Calls, held = None, scope[c] = "none", status[c] # "executing",
           Open(c), UNCHANGED <<ambient, own>>
    PROVE  Scoped'
<1>1. Rides(c) \/ Barred(c) \/ Opens(c)
    BY OpenResult
<1>2. ambient # c /\ c \notin own
    BY CallsAssumption DEF Scoped
<1>3. CASE Rides(c)
    BY <1>2, <1>3, CallsAssumption DEF Rides, Moves, Shape, Scoped
<1>4. CASE Barred(c)
    BY <1>2, <1>4, CallsAssumption DEF Barred, Moves, Shape, Scoped
<1>5. CASE Opens(c)
    BY <1>2, <1>5, CallsAssumption DEF Opens, Moves, Shape, Scoped
<1>6. QED
    BY <1>1, <1>3, <1>4, <1>5

LEMMA NestScoped ==
    ASSUME Shape, Scoped, NEW c \in Calls, status[c] \notin {"opening", "executing"},
           Nest(c), UNCHANGED <<ambient, own>>
    PROVE  Scoped'
<1>1. PICK st \in {"executing", "barred", "asking"} : Moves(c, st)
    BY NestResult DEF Goes, Barred, Asks
<1>2. UNCHANGED <<held, scope>>
    BY NestResult
<1>3. QED
    BY <1>1, <1>2 DEF Scoped, Moves, Shape

LEMMA ReleasesScoped ==
    ASSUME Shape, Scoped, NEW c \in Calls, status[c] \notin {"opening", "executing"},
           scope[c] = "none" \/ held = c, Releases(c), UNCHANGED <<ambient, own>>
    PROVE  Scoped'
<1>1. /\ held # None /\ held # c /\ Moves(c, "closing") /\ scope[c] = "none"
    BY DEF Releases, OwnScope
<1>2. /\ held' = None
      /\ \A x \in Calls : x # held => scope'[x] = scope[x]
      /\ held \in Calls /\ scope[held] \in {"owns", "rides"}
      /\ scope'[held] = IF scope[held] = "owns" THEN "closing" ELSE "none"
    BY <1>1, ReleaseResult DEF Releases, Shape, Scoped
<1>3. \A x \in Calls : status'[x] \in {"idle", "asked", "planned", "closing"} => scope'[x] = "none"
    BY <1>1, <1>2 DEF Scoped, Moves
<1>4. \A x \in Calls : scope'[x] = "asks" <=> status'[x] = "opening"
    BY <1>1, <1>2 DEF Scoped, Moves
<1>5. \A x \in own : status'[x] = "executing"
    BY <1>1 DEF Scoped, Moves, Shape
<1>6. ambient # None => scope'[ambient] = "closing" \/ ambient \in own
    BY <1>2 DEF Scoped, Shape
<1>7. QED
    BY <1>2, <1>3, <1>4, <1>5, <1>6 DEF Scoped

LEMMA MoveOnTheirWay ==
    ASSUME Shape, OnTheirWay, NEW c \in Calls, NEW st, Moves(c, st),
           Planning \/ status[c] \in {"asked", "closing", "opened"},
           held' \in {held, None, c}, UNCHANGED <<mode, stage, late, own>>
    PROVE  OnTheirWay'
BY DEF OnTheirWay, Moves, Planning

\* Nothing is closing that a call of this wallet could be let into.
LEMMA NothingToRide ==
    ASSUME Shape, Scoped, Kept, Calm, NEW c \in Calls, held = None,
           \A d \in OnItsWay : WalletOf[d] = WalletOf[c],
           Planning /\ ~Executing => Settled(ending), Authorized(c)
    PROVE  WalletOf[c] \in External
<1>1. SUFFICES ASSUME ambient # None, WalletOf[ambient] = WalletOf[c] PROVE FALSE
    BY DEF Authorized
<1>2. ambient \in Calls /\ scope[ambient] = "closing"
    BY <1>1 DEF Scoped, Shape, Kept
<1>3. ~(Planning /\ ~Executing /\ ending = ambient)
    BY <1>1, <1>2 DEF Settled
<1>4. PICK d \in Calls : status[d] = "closing" /\ WalletOf[d] # WalletOf[ambient]
    BY <1>2, <1>3 DEF Kept
<1>5. QED
    BY <1>1, <1>4 DEF OnItsWay, UnderWay

\* What is closing stays so, and so does who waits for it.
LEMMA ClosingKept ==
    ASSUME Shape, Kept, Calm, NEW c \in Calls, NEW st, Moves(c, st), ambient' = ambient,
           Planning /\ ~Executing => Settled(ending),
           status[c] = "closing" => Settled(awaits[c]),
           \A x \in Calls \ {c} : awaits'[x] = awaits[x],
           NEW x \in Calls, scope[x] = "closing"
    PROVE  ambient' = x /\ \E d \in Calls : status'[d] = "closing" /\ awaits'[d] = x /\ WalletOf[d] # WalletOf[x]
<1>1. ~(Planning /\ ~Executing /\ ending = x)
    BY CallsAssumption DEF Settled
<1>2. PICK d \in Calls : status[d] = "closing" /\ awaits[d] = x /\ WalletOf[d] # WalletOf[x]
    BY <1>1 DEF Kept
<1>3. d # c
    BY <1>2, CallsAssumption DEF Settled
<1>4. QED
    BY <1>2, <1>3 DEF Moves, Kept

LEMMA OpenKept ==
    ASSUME Shape, Scoped, Kept, NEW c \in Calls, held = None, scope[c] = "none",
           Open(c), UNCHANGED <<mode, stage, left, ambient, own>>,
           Calm' => Calm /\ \A d \in OnItsWay : WalletOf[d] = WalletOf[c],
           Planning /\ ~Executing => Settled(ending), Planning => Executing',
           status[c] = "closing" => Settled(awaits[c]),
           \A x \in Calls \ {c} : awaits'[x] = awaits[x]
    PROVE  Kept'
<1>1. SUFFICES ASSUME Calm' PROVE Kept'
    BY DEF Kept
<1>2. Calm /\ \A d \in OnItsWay : WalletOf[d] = WalletOf[c]
    BY <1>1
<1>3. /\ latest' = c /\ \A d \in Calls : scope[d] # "asks"
      /\ \/ Rides(c) \/ Barred(c) \/ Opens(c)
    BY <1>1, OpenResult DEF Calm
<1>4. PICK st \in UnderWay \ {"asking", "closing", "executing"} : Moves(c, st)
    BY <1>3 DEF Rides, Barred, Opens, UnderWay
<1>5. OnItsWay' \subseteq OnItsWay \cup {c}
    BY <1>4 DEF OnItsWay, Moves
<1>6. \A x \in Calls \ {c} : scope'[x] = scope[x] /\ scope[x] \notin {"rides", "owns", "asks"}
    <2>1. \A x \in Calls \ {c} : scope'[x] = scope[x]
        BY <1>3 DEF Rides, Barred, Opens, Shape
    <2>2. \A x \in Calls : scope[x] \notin {"rides", "owns"}
        BY <1>2, CallsAssumption DEF Kept
    <2>3. QED
        BY <1>3, <2>1, <2>2
<1>7. scope'[c] \in {"rides", "none", "asks"} /\ (scope'[c] = "rides" <=> Rides(c)) /\ (scope'[c] = "asks" <=> Opens(c))
    BY <1>3 DEF Rides, Barred, Opens, Shape, Moves
<1>8. \A x, y \in OnItsWay' : WalletOf[x] = WalletOf[y]
    BY <1>2, <1>5
<1>9. held' \in {None, c} /\ (held' = c <=> Rides(c)) /\ \A x \in OnItsWay' : WalletOf[x] = WalletOf[c]
    BY <1>2, <1>3, <1>5, CallsAssumption DEF Rides, Barred, Opens, Moves
<1>10. own' = {} /\ \A x \in Calls : status'[x] # "asking"
    BY <1>2, <1>4 DEF Kept, Moves
<1>11. \A x \in Calls : scope'[x] = "asks" => latest' = x /\ held' = None /\ ambient' = None
    BY <1>3, <1>6, <1>7 DEF Opens, Unauthorized
<1>12. Rides(c) => WalletOf[c] \in External
    BY <1>2, NothingToRide DEF Rides
<1>13. ASSUME NEW x \in Calls, scope'[x] = "closing"
       PROVE  /\ ambient' = x
              /\ \E d \in Calls : status'[d] = "closing" /\ awaits'[d] = x /\ WalletOf[d] # WalletOf[x]
    <2>1. scope[x] = "closing"
        BY <1>6, <1>7, <1>13
    <2>2. QED
        BY <1>2, <1>4, <2>1, ClosingKept
<1>14. \A x \in Calls : status'[x] \in {"opened", "executing"} /\ WalletOf[x] \notin External => held' # None
    <2>1. \A x \in Calls \ {c} : status'[x] = status[x]
        BY <1>4 DEF Moves
    <2>2. status'[c] = "opened" => Rides(c)
        BY <1>3 DEF Barred, Opens, Moves
    <2>3. QED
        BY <1>2, <1>4, <1>12, <2>1, <2>2 DEF Kept, Moves
<1>15. QED
    BY <1>3, <1>6, <1>7, <1>8, <1>9, <1>10, <1>11, <1>12, <1>13, <1>14 DEF Kept

LEMMA NestKept ==
    ASSUME Shape, Scoped, Kept, NEW c \in Calls, Nest(c),
           held # None \/ status[c] = "opened", OwnScope(c) \/ c \in OnItsWay,
           UNCHANGED <<mode, stage, left, ambient, own>>,
           Calm' => Calm /\ \A d \in OnItsWay : WalletOf[d] = WalletOf[c],
           Planning /\ ~Executing => Settled(ending), Planning => Executing',
           status[c] = "closing" => Settled(awaits[c]),
           \A x \in Calls \ {c} : awaits'[x] = awaits[x]
    PROVE  Kept'
<1>1. SUFFICES ASSUME Calm' PROVE Kept'
    BY DEF Kept
<1>2. Calm /\ \A d \in OnItsWay : WalletOf[d] = WalletOf[c]
    BY <1>1
<1>3. UNCHANGED <<held, latest, scope>> /\ (Goes(c) \/ Barred(c) \/ Asks(c))
    BY NestResult
<1>4. WalletOf[c] \notin External =>
          held # None /\ held \in Calls /\ WalletOf[held] = WalletOf[c] /\ ambient = held
    <2>1. WalletOf[c] \notin External => held # None
        BY <1>2 DEF Kept
    <2>2. held # None => held \in Calls /\ WalletOf[held] = WalletOf[c]
        BY <1>2 DEF Kept, OwnScope, Shape
    <2>3. held # None /\ WalletOf[c] \notin External => scope[held] = "owns"
        BY <1>2, <2>2 DEF Kept, Scoped
    <2>4. QED
        BY <1>2, <2>1, <2>2, <2>3 DEF Kept
<1>5. ~Asks(c)
    BY <1>4, CallsAssumption DEF Asks, Unauthorized
<1>6. PICK st \in {"executing", "barred"} : Moves(c, st)
    BY <1>3, <1>5 DEF Goes, Barred
<1>7. OnItsWay' \subseteq OnItsWay \cup {c}
    BY <1>6 DEF OnItsWay, Moves
<1>8. \A x, y \in OnItsWay' : WalletOf[x] = WalletOf[y]
    BY <1>2, <1>7
<1>9. held' # None => latest' = held' /\ \A x \in OnItsWay' : WalletOf[x] = WalletOf[held']
    <2>1. held # None => WalletOf[c] = WalletOf[held]
        BY <1>2 DEF Kept, OwnScope
    <2>2. QED
        BY <1>2, <1>3, <1>7, <2>1 DEF Kept
<1>10. own' = {} /\ \A x \in Calls : status'[x] # "asking"
    BY <1>2, <1>6 DEF Kept, Moves
<1>11. \A x \in Calls : scope'[x] = "asks" => latest' = x /\ held' = None /\ ambient' = None
    BY <1>2, <1>3 DEF Kept
<1>12. \A x \in Calls : scope'[x] \in {"rides", "owns"} =>
               /\ held' = x
               /\ scope'[x] = "rides" => WalletOf[x] \in External
               /\ scope'[x] = "owns" => ambient' = x
    BY <1>2, <1>3 DEF Kept
<1>13. ASSUME NEW x \in Calls, scope'[x] = "closing"
       PROVE  /\ ambient' = x
              /\ \E d \in Calls : status'[d] = "closing" /\ awaits'[d] = x /\ WalletOf[d] # WalletOf[x]
    BY <1>2, <1>3, <1>6, <1>13, ClosingKept
<1>14. \A x \in Calls : status'[x] \in {"opened", "executing"} /\ WalletOf[x] \notin External => held' # None
    BY <1>2, <1>3, <1>4, <1>6 DEF Kept, Moves
<1>15. QED
    BY <1>8, <1>9, <1>10, <1>11, <1>12, <1>13, <1>14 DEF Kept

LEMMA ReleasesKept ==
    ASSUME Shape, Scoped, Kept, NEW c \in Calls, Releases(c), status[c] \notin UnderWay,
           UNCHANGED <<mode, stage, left, ambient, own>>,
           Calm' => Calm /\ \A d \in OnItsWay : WalletOf[d] = WalletOf[c],
           Planning /\ ~Executing => Settled(ending), Planning => Executing'
    PROVE  Kept'
<1>1. SUFFICES ASSUME Calm' PROVE Kept'
    BY DEF Kept
<1>2. /\ Calm /\ \A d \in OnItsWay : WalletOf[d] = WalletOf[c]
      /\ held # None /\ WalletOf[held] # WalletOf[c] /\ held \in Calls /\ latest = held
      /\ Moves(c, "closing") /\ awaits' = [awaits EXCEPT ![c] = held]
    BY <1>1 DEF Kept, Releases, OwnScope, Shape
<1>3. OnItsWay = {}
    BY <1>2 DEF Kept
<1>4. \A x \in Calls : status'[x] \in UnderWay => x = c
    BY <1>2, <1>3 DEF Moves, OnItsWay
<1>5. /\ held' = None /\ \A x \in Calls : x # held => scope'[x] = scope[x]
      /\ scope[held] \in {"owns", "rides"}
      /\ scope'[held] = IF scope[held] = "owns" THEN "closing" ELSE "none"
    BY <1>2, ReleaseResult DEF Releases, Scoped
<1>6. \A x \in Calls : status'[x] # "asking" /\ status'[x] # "opened" /\ status'[x] # "executing"
    BY <1>2, <1>4 DEF UnderWay, Moves
<1>7. \A x \in Calls : scope[x] # "closing"
    <2>1. \A x \in Calls : status[x] # "closing"
        BY <1>3 DEF OnItsWay, UnderWay
    <2>2. \A x \in Calls : scope[x] = "closing" => ~(Planning /\ ~Executing /\ ending = x)
        BY CallsAssumption DEF Settled
    <2>3. QED
        BY <1>2, <2>1, <2>2 DEF Kept
<1>8. \A x \in Calls : scope'[x] \notin {"asks", "rides", "owns"}
    <2>1. \A x \in Calls : scope[x] # "asks"
        BY <1>3 DEF Scoped, OnItsWay, UnderWay
    <2>2. QED
        BY <1>2, <1>5, <2>1 DEF Kept
<1>9. ASSUME NEW x \in Calls, scope'[x] = "closing"
      PROVE  /\ ambient' = x
             /\ \E d \in Calls : status'[d] = "closing" /\ awaits'[d] = x /\ WalletOf[d] # WalletOf[x]
    <2>1. x = held /\ scope[x] = "owns"
        BY <1>5, <1>7, <1>9
    <2>2. ambient' = x
        BY <1>2, <2>1 DEF Kept
    <2>3. status'[c] = "closing" /\ awaits'[c] = x /\ WalletOf[c] # WalletOf[x]
        BY <1>2, <2>1 DEF Moves, Shape
    <2>4. QED
        BY <2>2, <2>3
<1>10. \A x, y \in OnItsWay' : WalletOf[x] = WalletOf[y]
    BY <1>4 DEF OnItsWay
<1>11. own' = {}
    BY <1>2 DEF Kept
<1>12. QED
    BY <1>5, <1>6, <1>8, <1>9, <1>10, <1>11 DEF Kept

\* What all ways to move on have in common.
Joins(c) ==
    /\ status'[c] \in UnderWay /\ Moves(c, status'[c])
    /\ prompt' = prompt \/ (prompt' = c /\ status'[c] \in {"opening", "asking"})
    /\ held' \in {held, None, c} /\ latest' \in {latest, None, c}
    /\ scope' \in [Calls -> {"none", "asks", "rides", "owns", "closing"}]
    /\ doubled' = doubled \/ doubled' = (doubled \/ \E d \in Calls : scope[d] = "asks")

LEMMA OpenJoins == ASSUME Shape, NEW c \in Calls, Open(c) PROVE Joins(c)
<1>1. /\ latest' = c /\ doubled' = (doubled \/ \E d \in Calls : scope[d] = "asks")
      /\ \/ Rides(c) /\ prompt' = prompt
         \/ Barred(c) /\ prompt' = prompt
         \/ Opens(c) /\ prompt' = c
    BY OpenResult
<1>2. /\ status'[c] \in UnderWay /\ Moves(c, status'[c])
      /\ prompt' = prompt \/ (prompt' = c /\ status'[c] \in {"opening", "asking"})
    BY <1>1 DEF Rides, Barred, Opens, Moves, UnderWay
<1>3. scope' \in [Calls -> {"none", "asks", "rides", "owns", "closing"}]
    BY <1>1 DEF Rides, Barred, Opens, Shape
<1>4. held' \in {held, None, c}
    BY <1>1 DEF Rides, Barred, Opens
<1>5. QED
    BY <1>1, <1>2, <1>3, <1>4 DEF Joins

LEMMA NestJoins == ASSUME Shape, NEW c \in Calls, Nest(c) PROVE Joins(c)
<1>1. /\ UNCHANGED <<held, latest, scope, doubled>>
      /\ \/ Goes(c) /\ prompt' = prompt
         \/ Barred(c) /\ prompt' = prompt
         \/ Asks(c) /\ prompt' = c
    BY NestResult
<1>2. /\ status'[c] \in UnderWay /\ Moves(c, status'[c])
      /\ prompt' = prompt \/ (prompt' = c /\ status'[c] \in {"opening", "asking"})
    BY <1>1 DEF Goes, Barred, Asks, Moves, UnderWay
<1>3. QED
    BY <1>1, <1>2 DEF Joins, Shape

LEMMA ReleaseJoins ==
    ASSUME Shape, Scoped, NEW c \in Calls, Releases(c), prompt' = prompt
    PROVE  Joins(c) /\ awaits' \in [Calls -> Calls \cup {None}]
<1>1. Moves(c, status'[c]) /\ status'[c] \in UnderWay /\ doubled' = doubled
    BY DEF Releases, Moves, UnderWay
<1>2. /\ held' = None /\ latest' = None
      /\ scope' \in [Calls -> {"none", "asks", "rides", "owns", "closing"}]
    BY ReleaseResult DEF Releases
<1>3. awaits' \in [Calls -> Calls \cup {None}]
    BY DEF Releases, Shape
<1>4. QED
    BY <1>1, <1>2, <1>3 DEF Joins

\* run() of a call that has not begun, or begins anew.
LEMMA RunParts ==
    ASSUME ScriptInv, NEW c \in Calls, Run(c), status[c] \notin UnderWay,
           scope[c] = "none" \/ held = c, Planning \/ status[c] = "asked",
           UNCHANGED <<mode, stage, left, late, ambient, own, deriving, verifying>>,
           Planning /\ ~Executing => Settled(ending), Planning => Executing'
    PROVE  /\ Joins(c) /\ awaits' \in [Calls -> Calls \cup {None}]
           /\ OnItsWay = {} => (mixed' <=> mixed) /\ (doubled' <=> doubled)
           /\ Asking' /\ Scoped' /\ OnTheirWay' /\ Kept'
<1>1. /\ Shape /\ Scoped /\ Asking /\ OnTheirWay /\ Kept
      /\ status[c] \notin {"closing", "opening", "opened", "asking", "executing", "barred"}
    BY DEF ScriptInv, UnderWay
<1>2. /\ mixed' = (mixed \/ \E d \in OnItsWay : WalletOf[d] # WalletOf[c])
      /\ \/ Releases(c) /\ prompt' = prompt
         \/ held = None /\ Open(c) /\ awaits' = awaits
         \/ OwnScope(c) /\ Nest(c) /\ awaits' = awaits
    BY <1>1, RunResult
<1>3. Joins(c) /\ awaits' \in [Calls -> Calls \cup {None}]
    <2>1. awaits \in [Calls -> Calls \cup {None}]
        BY <1>1 DEF Shape
    <2>2. QED
        BY <1>1, <1>2, <2>1, OpenJoins, NestJoins, ReleaseJoins
<1>4. OnItsWay = {} => (mixed' <=> mixed) /\ (doubled' <=> doubled)
    <2>1. OnItsWay = {} => \A d \in Calls : scope[d] # "asks"
        BY <1>1 DEF Scoped, OnItsWay, UnderWay
    <2>2. QED
        BY <1>2, <1>3, <2>1 DEF Joins
<1>5. Calm' => Calm /\ \A d \in OnItsWay : WalletOf[d] = WalletOf[c]
    BY <1>2, <1>3 DEF Calm, Joins, Planning
<1>6. /\ status'[c] \in UnderWay /\ Moves(c, status'[c])
      /\ prompt' = prompt \/ (prompt' = c /\ status'[c] \in {"opening", "asking"})
    BY <1>3 DEF Joins
<1>7. Asking'
    BY <1>1, <1>6, MoveAsking
<1>8. OnTheirWay'
    <2>1. held' \in {held, None, c}
        BY <1>3 DEF Joins
    <2>2. Planning \/ status[c] \in {"asked", "closing", "opened"}
        OBVIOUS
    <2>3. QED
        BY <1>1, <1>6, <2>1, <2>2, MoveOnTheirWay
<1>9. CASE Releases(c)
    <2>1. Scoped'
        BY <1>1, <1>9, ReleasesScoped
    <2>2. Kept'
        BY <1>1, <1>5, <1>9, ReleasesKept
    <2>3. QED
        BY <1>3, <1>4, <1>7, <1>8, <2>1, <2>2
<1>10. CASE held = None /\ Open(c) /\ awaits' = awaits
    <2>1. scope[c] = "none"
        BY <1>10, CallsAssumption
    <2>2. Scoped'
        BY <1>1, <1>10, <2>1, OpenScoped
    <2>3. Kept'
        BY <1>1, <1>5, <1>10, <2>1, OpenKept
    <2>4. QED
        BY <1>3, <1>4, <1>7, <1>8, <2>2, <2>3
<1>11. CASE OwnScope(c) /\ Nest(c) /\ awaits' = awaits
    <2>1. Scoped'
        BY <1>1, <1>11, NestScoped
    <2>2. held # None
        BY <1>11 DEF OwnScope
    <2>3. Kept'
        BY <1>1, <1>5, <1>11, <2>2, NestKept
    <2>4. QED
        BY <1>3, <1>4, <1>7, <1>8, <2>1, <2>3
<1>12. QED
    BY <1>2, <1>9, <1>10, <1>11

\* What Joins leaves of the rest.
LEMMA JoinShape ==
    ASSUME Shape, NEW c \in Calls, Joins(c), awaits' \in [Calls -> Calls \cup {None}],
           UNCHANGED <<mode, stage, late, ambient, own, deriving, verifying, signed>>,
           intents' \in Seq(Calls), ending' \in Calls \cup {None}, step' \in Nat, total' \in Nat
    PROVE  Shape'
<1>1. /\ held' \in Calls \cup {None} /\ latest' \in Calls \cup {None} /\ prompt' \in Calls \cup {None}
      /\ status' \in [Calls -> Statuses]
      /\ scope' \in [Calls -> {"none", "asks", "rides", "owns", "closing"}]
    BY DEF Joins, Shape, Moves
<1>2. QED
    BY <1>1 DEF Shape

-----------------------------------------------------------------------------
(* Every step preserves the invariant.                                     *)

LEMMA ScriptInit == Init => ScriptInv
<1> SUFFICES ASSUME Init PROVE ScriptInv
    OBVIOUS
<1>1. Shape
    BY DEF Init, Shape, Statuses
<1>2. Recorded /\ Asking /\ Scoped /\ OnTheirWay
    BY DEF Init, Recorded, Asking, Scoped, OnTheirWay, Early, UnderWay
<1>3. InOrder /\ Kept
    BY DEF Init, InOrder, Executing, Kept, OnItsWay, UnderWay
<1>4. QED
    BY <1>1, <1>2, <1>3 DEF ScriptInv

\* Steps that leave the calls and the scope alone.
LEMMA QuietStepInv ==
    ASSUME ScriptInv, Shape', Asking',
           UNCHANGED <<mode, left, status, intents, holder, ending, ambient, own, step, total, review,
                       late, mixed, doubled>>,
           aborted' = aborted \/ aborted' = TRUE,
           \/ stage' = stage
           \/ stage = "ready" /\ stage' = "running"
    PROVE  ScriptInv'
<1>1. Recorded' /\ Scoped' /\ OnTheirWay'
    BY DEF ScriptInv, Recorded, Scoped, OnTheirWay, Planning, holder
<1>2. InOrder'
    BY DEF ScriptInv, InOrder, Planning, Executing, OnItsWay, holder
<1>3. Kept'
    BY DEF ScriptInv, Kept, Calm, Planning, Executing, OnItsWay, holder
<1>4. QED
    BY <1>1, <1>2, <1>3 DEF ScriptInv

\* A call is made, or refused: it has no part in any scope.
LEMMA EarlyStepInv ==
    ASSUME ScriptInv, NEW c \in Calls, NEW st \in {"asked", "failed"}, status[c] \in Early,
           status' = [status EXCEPT ![c] = st], st = "asked" => stage = "running",
           UNCHANGED <<mode, stage, left, aborted, late, intents, holder, ending, session, asking, page, signed, history>>
    PROVE  ScriptInv'
<1>1. /\ Shape /\ Recorded /\ Asking /\ InOrder /\ Scoped /\ OnTheirWay /\ Kept
      /\ st \in Statuses /\ st \notin UnderWay /\ status[c] \notin UnderWay
    BY DEF ScriptInv, Statuses, UnderWay, Early
<1>2. Moves(c, st)
    BY <1>1, MovesTo
<1>3. Shape'
    BY <1>1, <1>2 DEF Shape, Moves, holder, session, asking, page
<1>4. \A i \in DOMAIN intents : intents[i] \in Calls /\ intents[i] # c
    BY <1>1 DEF Shape, Recorded
<1>5. Recorded'
    BY <1>1, <1>2, <1>4 DEF Recorded, Moves
<1>6. Asking'
    BY <1>1, <1>2, CallsAssumption DEF Shape, Asking, Moves, Early, session, asking
<1>7. OnItsWay' = OnItsWay
    BY <1>1, <1>2 DEF OnItsWay, Moves
<1>8. InOrder'
    <2>1. ASSUME Executing PROVE \A i \in 1..(step - 1) : i \in DOMAIN intents
        BY <1>1, <2>1 DEF Shape, InOrder
    <2>2. QED
        BY <1>1, <1>2, <1>4, <1>7, <2>1 DEF InOrder, Executing, Planning, Moves, page, holder, history
<1>9. Scoped'
    BY <1>1, <1>2 DEF Shape, Scoped, Moves, Early, holder, session
<1>10. OnTheirWay'
    BY <1>1, <1>2 DEF OnTheirWay, Moves, Planning, holder, session
<1>11. Kept'
    <2>1. Calm' => Calm
        BY DEF Calm, Planning, history
    <2>2. \A x \in Calls : status'[x] \in {"closing", "opened", "executing", "asking"}
                           <=> status[x] \in {"closing", "opened", "executing", "asking"}
        BY <1>1, <1>2 DEF Moves, UnderWay
    <2>3. \A x \in Calls : status[x] \in {"closing", "opened", "executing", "asking"} => status'[x] = status[x]
        BY <1>1, <1>2 DEF Moves, UnderWay
    <2>4. QED
        BY <1>1, <1>7, <2>1, <2>2, <2>3 DEF Kept, Planning, Executing, page, holder, session
<1>12. QED
    BY <1>3, <1>5, <1>6, <1>8, <1>9, <1>10, <1>11 DEF ScriptInv

\* In a plan the call is appended to what will be shown.
LEMMA RecordPlannedInv ==
    ASSUME ScriptInv, NEW c \in Calls, RecordPlanned(c)
    PROVE  ScriptInv'
<1>1. /\ status[c] = "asked" /\ Planning
      /\ intents' = Append(intents, c) /\ status' = [status EXCEPT ![c] = "planned"]
      /\ UNCHANGED <<mode, stage, left, aborted, late, holder, ending, session, asking, page, signed, history>>
    BY DEF RecordPlanned, script
<1>2. /\ Shape /\ Recorded /\ Asking /\ InOrder /\ Scoped /\ OnTheirWay /\ Kept
      /\ "planned" \in Statuses /\ "planned" \notin UnderWay /\ status[c] \notin UnderWay
    BY <1>1 DEF ScriptInv, Statuses, UnderWay
<1>3. Moves(c, "planned")
    BY <1>1, <1>2, MovesTo
<1>4. /\ intents' \in Seq(Calls) /\ Len(intents') = Len(intents) + 1
      /\ DOMAIN intents' = DOMAIN intents \cup {Len(intents) + 1}
      /\ Len(intents) + 1 \notin DOMAIN intents /\ Len(intents) \in Nat
      /\ \A i \in DOMAIN intents : i < Len(intents) + 1 /\ intents'[i] = intents[i]
      /\ intents'[Len(intents) + 1] = c
    BY <1>1, <1>2, Appended DEF Shape
<1>5. \A i \in DOMAIN intents : intents[i] \in Calls /\ intents[i] # c
    BY <1>1, <1>2 DEF Shape, Recorded, Early
<1>6. Shape'
    BY <1>1, <1>2, <1>3, <1>4 DEF Shape, Moves, holder, session, asking, page
<1>7. Recorded'
    BY <1>2, <1>3, <1>4, <1>5 DEF Recorded, Moves, Early
<1>8. Asking'
    BY <1>1, <1>2, <1>3, CallsAssumption DEF Shape, Asking, Moves, session, asking
<1>9. OnItsWay' = OnItsWay
    BY <1>2, <1>3 DEF OnItsWay, Moves
<1>10. InOrder'
    <2>1. ASSUME Executing PROVE step \in DOMAIN intents /\ \A i \in 1..(step - 1) : i \in DOMAIN intents
        BY <1>2, <2>1 DEF Shape, InOrder, Executing
    <2>2. intents' # <<>> /\ Len(intents) <= Len(intents')
        BY <1>4
    <2>3. Executing' => step' <= total' /\ total' <= Len(intents') /\ (left' => aborted')
        BY <1>1, <1>2, <1>4, <2>2 DEF InOrder, Executing, page, Shape
    <2>4. Executing' => \A i \in 1..(step' - 1) : status'[intents'[i]] = "done"
        BY <1>1, <1>2, <1>3, <1>4, <1>5, <2>1 DEF InOrder, Executing, page, Moves
    <2>5. \A x \in OnItsWay' : Executing' /\ intents'[step'] = x
        BY <1>1, <1>2, <1>4, <1>9, <2>1 DEF InOrder, Executing, page
    <2>6. QED
        BY <1>1, <1>2, <2>2, <2>3, <2>4, <2>5 DEF InOrder, Executing, Planning, page, holder, history
<1>11. Scoped'
    BY <1>1, <1>2, <1>3 DEF Shape, Scoped, Moves, holder, session
<1>12. OnTheirWay'
    BY <1>1 DEF OnTheirWay, Planning
<1>13. Kept'
    <2>1. Calm' => Calm
        BY <1>1 DEF Calm, Planning, history
    <2>2. \A x \in Calls : status'[x] \in {"closing", "opened", "executing", "asking"}
                           <=> status[x] \in {"closing", "opened", "executing", "asking"}
        BY <1>2, <1>3 DEF Moves, UnderWay
    <2>3. \A x \in Calls : status[x] \in {"closing", "opened", "executing", "asking"} => status'[x] = status[x]
        BY <1>2, <1>3 DEF Moves, UnderWay
    <2>4. QED
        BY <1>1, <1>2, <1>9, <2>1, <2>2, <2>3 DEF Kept, Planning, Executing, page, holder, session
<1>14. QED
    BY <1>6, <1>7, <1>8, <1>10, <1>11, <1>12, <1>13 DEF ScriptInv

\* In a live run the call is recorded and runs at once.
LEMMA RecordLiveInv ==
    ASSUME ScriptInv, NEW c \in Calls, RecordLive(c)
    PROVE  ScriptInv'
<1>1. /\ status[c] = "asked" /\ ~ Planning
      /\ intents' = Append(intents, c) /\ Run(c)
      /\ UNCHANGED <<mode, stage, left, late, ending, session, page, signed>>
    BY DEF RecordLive, script
<1>2. /\ Shape /\ Recorded /\ InOrder /\ Scoped
      /\ status[c] \notin UnderWay /\ scope[c] = "none"
    BY <1>1 DEF ScriptInv, UnderWay, Scoped
<1>3. Joins(c) /\ awaits' \in [Calls -> Calls \cup {None}] /\ Asking' /\ Scoped' /\ OnTheirWay' /\ Kept'
    BY <1>1, <1>2, RunParts DEF session
<1>4. /\ intents' \in Seq(Calls) /\ Len(intents') = Len(intents) + 1
      /\ DOMAIN intents' = DOMAIN intents \cup {Len(intents) + 1}
      /\ Len(intents) + 1 \notin DOMAIN intents /\ Len(intents) \in Nat
      /\ \A i \in DOMAIN intents : i < Len(intents) + 1 /\ intents'[i] = intents[i]
      /\ intents'[Len(intents) + 1] = c
    BY <1>1, <1>2, Appended DEF Shape
<1>5. \A i \in DOMAIN intents : intents[i] \in Calls /\ intents[i] # c
    BY <1>1, <1>2 DEF Shape, Recorded, Early
<1>6. Shape'
    <2>1. /\ ending' \in Calls \cup {None} /\ step' \in Nat /\ total' \in Nat
          /\ UNCHANGED <<mode, stage, late, ambient, own, deriving, verifying, signed>>
        BY <1>1, <1>2 DEF Shape, page, session
    <2>2. QED
        BY <1>2, <1>3, <1>4, <2>1, JoinShape
<1>7. Recorded'
    <2>1. status'[c] \in UnderWay /\ \A x \in Calls \ {c} : status'[x] = status[x]
        BY <1>3 DEF Joins, Moves
    <2>2. \A i \in DOMAIN intents' : intents'[i] \in Calls /\ status'[intents'[i]] \notin Early
        BY <1>2, <1>4, <1>5, <2>1 DEF Recorded, Early, UnderWay
    <2>3. \A i, j \in DOMAIN intents' : intents'[i] = intents'[j] => i = j
        BY <1>2, <1>4, <1>5 DEF Recorded
    <2>4. \A x \in Calls : status'[x] \in UnderWay => \E i \in DOMAIN intents' : intents'[i] = x
        BY <1>2, <1>4, <2>1 DEF Recorded
    <2>5. QED
        BY <2>2, <2>3, <2>4 DEF Recorded
<1>8. InOrder'
    BY <1>1, <1>2 DEF InOrder, Executing, Planning, page
<1>9. QED
    BY <1>3, <1>6, <1>7, <1>8 DEF ScriptInv

\* The execution of a plan comes to step n.
LEMMA StepBegins ==
    ASSUME ScriptInv, Planning, stage = "returned", OnItsWay = {}, ~left,
           NEW n \in 1..Len(intents), Run(intents[n]),
           \A i \in 1..(n - 1) : status[intents[i]] = "done",
           ~Executing => Settled(ending), ending' \in {None, ending},
           step' = n, total' \in Nat, n <= total', total' <= Len(intents),
           UNCHANGED <<mode, stage, left, late, ambient, own, deriving, verifying, intents, signed>>
    PROVE  ScriptInv'
<1>1. PICK c \in Calls : c = intents[n]
    BY DEF ScriptInv, Shape
<1>2. /\ Shape /\ Recorded /\ Asking /\ InOrder /\ Scoped /\ OnTheirWay /\ Kept /\ Calm
      /\ n \in DOMAIN intents /\ Len(intents) \in Nat /\ DOMAIN intents = 1..Len(intents)
      /\ \A i \in DOMAIN intents : intents[i] \in Calls
      /\ \A x \in Calls : status[x] \notin {"closing", "opening", "opened", "asking", "executing", "barred"}
    BY DEF ScriptInv, Shape, InOrder, Calm, OnItsWay, UnderWay
<1>3. scope[c] = "none" \/ held = c
    <2>1. scope[c] # "asks"
        BY <1>2 DEF Scoped
    <2>2. scope[c] # "closing"
        BY <1>2, CallsAssumption DEF Kept, Settled
    <2>3. scope[c] \in {"rides", "owns"} => held = c
        BY <1>2 DEF Kept
    <2>4. scope[c] \in {"none", "asks", "rides", "owns", "closing"}
        BY <1>2 DEF Shape
    <2>5. QED
        BY <2>1, <2>2, <2>3, <2>4
<1>4. Executing' /\ status[c] \notin UnderWay
    BY <1>2 DEF Executing, UnderWay
<1>5. /\ Joins(c) /\ awaits' \in [Calls -> Calls \cup {None}]
      /\ (mixed' <=> mixed) /\ (doubled' <=> doubled)
      /\ Asking' /\ Scoped' /\ OnTheirWay' /\ Kept'
    BY <1>1, <1>3, <1>4, RunParts
<1>6. Shape'
    BY <1>2, <1>5, JoinShape DEF Shape
<1>7. Recorded'
    <2>1. status'[c] \notin Early
        BY <1>5 DEF Joins, UnderWay, Early
    <2>2. Moves(c, status'[c])
        BY <1>5 DEF Joins
    <2>3. QED
        BY <1>1, <1>2, <2>1, <2>2, MoveRecorded
<1>8. InOrder'
    <2>1. \A i \in 1..(n - 1) : intents[i] # c /\ intents[i] \in Calls
        BY <1>1, <1>2 DEF Recorded
    <2>2. \A x \in Calls \ {c} : status'[x] = status[x]
        BY <1>5 DEF Joins, Moves
    <2>3. OnItsWay' \subseteq {c}
        BY <1>2, <2>2 DEF OnItsWay
    <2>4. intents # <<>>
        BY <1>2
    <2>5. QED
        BY <1>1, <1>2, <1>4, <1>5, <2>1, <2>2, <2>3, <2>4 DEF InOrder, Planning
<1>9. QED
    BY <1>5, <1>6, <1>7, <1>8 DEF ScriptInv

LEMMA ApproveInv ==
    ASSUME ScriptInv, Approve
    PROVE  ScriptInv'
<1>1. /\ review /\ ~ Executing /\ Settled(ending) /\ ~left /\ stage = "returned"
      /\ total' = Len(intents) /\ step' = 1 /\ ending' = None /\ Run(intents[1])
      /\ UNCHANGED <<mode, stage, left, late, ambient, own, deriving, verifying, intents, signed>>
    BY DEF Approve, script, session
<1>2. Planning /\ intents # <<>> /\ OnItsWay = {}
    BY <1>1 DEF ScriptInv, InOrder
<1>3. Len(intents) \in Nat /\ 1 \in 1..Len(intents) /\ 1 <= Len(intents)
    BY <1>2 DEF ScriptInv, Shape
<1>4. \A i \in 1..(1 - 1) : status[intents[i]] = "done"
    OBVIOUS
<1>5. QED
    BY <1>1, <1>2, <1>3, <1>4, StepBegins

\* A release, the calls being where they are.
LEMMA ReleaseScoped ==
    ASSUME Shape, Scoped, ReleaseNow, UNCHANGED <<status, ambient, own>>
    PROVE  Scoped'
<1>1. /\ held' = None
      /\ \A x \in Calls : x # held => scope'[x] = scope[x]
      /\ held # None => held \in Calls /\ scope[held] \in {"owns", "rides"}
      /\ held # None => scope'[held] = IF scope[held] = "owns" THEN "closing" ELSE "none"
    BY ReleaseResult DEF Shape, Scoped
<1>2. \A x \in Calls : /\ status[x] \in {"idle", "asked", "planned", "closing"} => scope'[x] = "none"
                       /\ scope'[x] = "asks" <=> status[x] = "opening"
    BY <1>1, CallsAssumption DEF Scoped
<1>3. ambient # None => scope'[ambient] = "closing" \/ ambient \in own
    BY <1>1 DEF Scoped, Shape
<1>4. QED
    BY <1>1, <1>2, <1>3 DEF Scoped

\* The execution of a plan is at a step that is over.
LEMMA StepOver ==
    ASSUME ScriptInv, Executing, status[intents[step]] \notin UnderWay
    PROVE  /\ Planning /\ stage = "returned" /\ OnItsWay = {}
           /\ step \in 1..total /\ total \in Nat \ {0} /\ total <= Len(intents)
           /\ Len(intents) \in Nat /\ DOMAIN intents = 1..Len(intents)
<1>1. Planning /\ stage = "returned"
    BY DEF ScriptInv, InOrder
<1>2. OnItsWay = {}
    BY <1>1 DEF ScriptInv, InOrder, OnItsWay
<1>3. QED
    BY <1>1, <1>2 DEF ScriptInv, InOrder, Shape, Executing

\* The execution of a plan ends.
LEMMA StopInv ==
    ASSUME ScriptInv, Executing, status[intents[step]] \notin UnderWay, NEW rows, NEW from, Stop(rows, from),
           UNCHANGED <<script, aborted, intents, session, review, total, signed>>
    PROVE  ScriptInv'
<1>1. /\ Shape /\ Recorded /\ Asking /\ InOrder /\ Scoped /\ OnTheirWay /\ Kept
      /\ Planning /\ stage = "returned" /\ OnItsWay = {}
    BY StepOver DEF ScriptInv
<1>2. /\ step' = 0 /\ ReleaseNow /\ ending' = IF held = None THEN None ELSE latest
      /\ UNCHANGED <<mode, stage, left, late, status, awaits, intents, prompt, ambient, own, deriving,
                     verifying, mixed, doubled, review, total, signed>>
    BY DEF Stop, script, session, history
<1>3. /\ held' = None /\ latest' = None
      /\ scope' \in [Calls -> {"none", "asks", "rides", "owns", "closing"}]
      /\ \A x \in Calls : x # held => scope'[x] = scope[x]
      /\ held # None => held \in Calls /\ scope[held] \in {"owns", "rides"}
      /\ held # None => scope'[held] = IF scope[held] = "owns" THEN "closing" ELSE "none"
    BY <1>1, <1>2, ReleaseResult DEF Shape, Scoped
<1>4. Shape'
    <2>1. ending' \in Calls \cup {None} /\ step' \in Nat
        BY <1>1, <1>2 DEF Shape
    <2>2. UNCHANGED <<mode, stage, late, status, awaits, intents, prompt, ambient, own, deriving,
                      verifying, total, signed>>
        BY <1>2
    <2>3. held' \in Calls \cup {None} /\ latest' \in Calls \cup {None}
        BY <1>3
    <2>4. QED
        BY <1>1, <1>3, <2>1, <2>2, <2>3 DEF Shape
<1>5. Recorded' /\ Asking'
    BY <1>1, <1>2 DEF Recorded, Asking
<1>6. Scoped'
    BY <1>1, <1>2, ReleaseScoped
<1>7. InOrder' /\ OnTheirWay'
    BY <1>1, <1>2, <1>3 DEF InOrder, OnTheirWay, OnItsWay, Executing, Planning
<1>8. Kept'
    <2>1. SUFFICES ASSUME Calm PROVE Kept'
        BY <1>2 DEF Kept, Calm, Planning
    <2>2. \A x \in Calls : status[x] \notin {"closing", "opening", "opened", "asking", "executing"}
        BY <1>1 DEF OnItsWay, UnderWay
    <2>3. \A x \in Calls : scope[x] \notin {"asks", "closing"}
        BY <1>1, <2>1, <2>2 DEF Kept, Scoped
    <2>4. \A x \in Calls : scope[x] \in {"rides", "owns"} => held = x /\ (scope[x] = "owns" => ambient = x)
        BY <1>1, <2>1 DEF Kept
    <2>5. held # None => latest = held
        BY <1>1, <2>1 DEF Kept
    <2>6. \A x \in Calls : scope'[x] \notin {"asks", "rides", "owns"}
        BY <1>3, <2>3, <2>4, CallsAssumption
    <2>7. ASSUME NEW x \in Calls, scope'[x] = "closing"
          PROVE  ambient' = x /\ Planning' /\ ~Executing' /\ ending' = x
        <3>1. x = held /\ scope[x] = "owns" /\ x # None
            BY <1>3, <2>3, <2>7, CallsAssumption
        <3>2. QED
            BY <1>1, <1>2, <2>4, <2>5, <3>1 DEF Planning, Executing
    <2>8. OnItsWay' = {} /\ own' = {}
        BY <1>1, <1>2, <2>1 DEF OnItsWay, Kept
    <2>9. QED
        BY <1>2, <1>3, <2>2, <2>6, <2>7, <2>8 DEF Kept
<1>9. QED
    BY <1>4, <1>5, <1>6, <1>7, <1>8 DEF ScriptInv

LEMMA AdvanceInv ==
    ASSUME ScriptInv, Advance
    PROVE  ScriptInv'
<1>1. /\ Executing /\ status[intents[step]] = "done" /\ "done" \notin UnderWay
      /\ UNCHANGED <<script, aborted, intents, session, review, total, signed>>
    BY DEF Advance, UnderWay
<1>2. /\ Planning /\ stage = "returned" /\ OnItsWay = {}
      /\ step \in 1..total /\ total \in Nat \ {0} /\ total <= Len(intents)
      /\ Len(intents) \in Nat /\ DOMAIN intents = 1..Len(intents)
    BY <1>1, StepOver
<1>3. CASE step < total /\ ~aborted
    <2> DEFINE n == step + 1
    <2>1. step' = n /\ Run(intents[n]) /\ ending' = ending
        BY <1>3 DEF Advance
    <2>2. n \in 1..Len(intents) /\ n <= total /\ n - 1 = step
        BY <1>2, <1>3
    <2>3. ~left
        BY <1>1, <1>3 DEF ScriptInv, InOrder
    <2>4. \A i \in 1..(n - 1) : status[intents[i]] = "done"
        BY <1>1, <1>2, <2>2 DEF ScriptInv, InOrder
    <2>5. total' \in Nat /\ n <= total' /\ total' <= Len(intents)
        BY <1>1, <1>2, <2>2
    <2>6. UNCHANGED <<mode, stage, left, late, ambient, own, deriving, verifying, intents, signed>>
        BY <1>1 DEF script, session
    <2> HIDE DEF n
    <2>7. QED
        BY <1>1, <1>2, <2>1, <2>2, <2>3, <2>4, <2>5, <2>6, StepBegins
<1>4. CASE ~(step < total /\ ~aborted)
    <2>1. Stop(Mark(shown, intents[step], "done"), step + 1)
        BY <1>4 DEF Advance
    <2>2. QED
        BY <1>1, <2>1, StopInv
<1>5. QED
    BY <1>3, <1>4

LEMMA StepFailedInv ==
    ASSUME ScriptInv, StepFailed
    PROVE  ScriptInv'
<1>1. status[intents[step]] \notin UnderWay
    BY DEF StepFailed, UnderWay
<1>2. QED
    BY <1>1, StopInv DEF StepFailed

\* The script is over; the page releases the scope of a live run.
LEMMA ReturnInv ==
    ASSUME ScriptInv, Return
    PROVE  ScriptInv'
<1>1. /\ stage = "running"
      /\ late' = {c \in Calls : status[c] \in {"asked", "closing", "opening", "opened", "asking"}} \cup own
      /\ UNCHANGED <<mode, left, aborted, status, intents, awaits, ambient, own, deriving, verifying, prompt,
                     step, total, signed, mixed, doubled>>
    BY DEF Return, session, asking, history, holder
<1>2. /\ Shape /\ Recorded /\ Asking /\ InOrder /\ Scoped /\ Kept /\ ~Executing /\ ~review
      /\ late' \subseteq Calls
    BY <1>1 DEF ScriptInv, InOrder, Shape
<1>3. Recorded' /\ Asking'
    BY <1>1, <1>2 DEF Recorded, Asking
<1>4. CASE Planning
    <2>1. /\ stage' = "returned" /\ review' \in {FALSE, intents # <<>> /\ ~left}
          /\ UNCHANGED <<held, latest, scope, ending>>
        BY <1>4 DEF Return, holder
    <2>2. Shape' /\ Scoped' /\ OnTheirWay'
        BY <1>1, <1>2, <1>4, <2>1 DEF Shape, Scoped, OnTheirWay, Planning
    <2>3. InOrder'
        BY <1>1, <1>2, <1>4, <2>1 DEF InOrder, Executing, Planning, OnItsWay
    <2>4. Kept'
        BY <1>1, <1>2, <1>4, <2>1 DEF Kept, Calm, Executing, Planning, OnItsWay
    <2>5. QED
        BY <1>3, <2>2, <2>3, <2>4 DEF ScriptInv
<1>5. CASE ~Planning
    <2>1. /\ stage' = "closing" /\ ReleaseNow /\ ending' = (IF held = None THEN None ELSE latest)
          /\ review' = review
        BY <1>5 DEF Return
    <2>2. /\ held' = None /\ latest' = None
          /\ scope' \in [Calls -> {"none", "asks", "rides", "owns", "closing"}]
        BY <1>2, <2>1, ReleaseResult
    <2>3. ending' \in Calls \cup {None}
        BY <1>2, <2>1 DEF Shape
    <2>4. Shape'
        BY <1>1, <1>2, <2>1, <2>2, <2>3 DEF Shape
    <2>5. Scoped'
        BY <1>1, <1>2, <2>1, ReleaseScoped
    <2>6. OnTheirWay'
        BY <1>1, <2>2 DEF OnTheirWay
    <2>7. InOrder' /\ Kept'
        BY <1>1, <1>2, <1>5, <2>1 DEF InOrder, Executing, Planning, Kept, Calm
    <2>8. QED
        BY <1>3, <2>4, <2>5, <2>6, <2>7 DEF ScriptInv
<1>6. QED
    BY <1>4, <1>5

LEMMA FinishInv ==
    ASSUME ScriptInv, Finish
    PROVE  ScriptInv'
<1>1. /\ stage = "closing" /\ stage' = "returned" /\ ReleaseNow /\ ending' = None
      /\ UNCHANGED <<mode, left, late, aborted, status, intents, awaits, ambient, own, deriving, verifying, prompt,
                     review, step, total, signed, mixed, doubled>>
    BY DEF Finish, session, asking, history, page
<1>2. /\ Shape /\ Recorded /\ Asking /\ InOrder /\ Scoped /\ OnTheirWay /\ ~Planning /\ ~Executing /\ ~review
    BY <1>1 DEF ScriptInv, InOrder
<1>3. /\ held' = None /\ latest' = None
      /\ scope' \in [Calls -> {"none", "asks", "rides", "owns", "closing"}]
    BY <1>1, <1>2, ReleaseResult
<1>4. Shape'
    BY <1>1, <1>2, <1>3 DEF Shape
<1>5. Recorded' /\ Asking'
    BY <1>1, <1>2 DEF Recorded, Asking
<1>6. Scoped'
    BY <1>1, <1>2, ReleaseScoped
<1>7. OnTheirWay'
    BY <1>1, <1>2, <1>3 DEF OnTheirWay, Planning
<1>8. InOrder' /\ Kept'
    BY <1>1, <1>2 DEF InOrder, Executing, Planning, Kept, Calm
<1>9. QED
    BY <1>4, <1>5, <1>6, <1>7, <1>8 DEF ScriptInv

\* Leaving the page releases the scope of what goes on.
LEMMA LeaveInv ==
    ASSUME ScriptInv, Leave
    PROVE  ScriptInv'
<1>1. /\ left' = TRUE
      /\ UNCHANGED <<mode, stage, late, status, intents, awaits, ending, ambient, own, deriving, verifying,
                     prompt, review, step, total, signed, mixed, doubled>>
      /\ \/ aborted' = TRUE /\ ReleaseNow
         \/ ~Executing /\ UNCHANGED <<aborted, held, latest, scope>>
    BY DEF Leave, session, asking, history, page
<1>2. /\ Shape /\ Recorded /\ Asking /\ InOrder /\ Scoped /\ OnTheirWay
    BY DEF ScriptInv
<1>3. /\ held' \in {held, None} /\ latest' \in {latest, None}
      /\ scope' \in [Calls -> {"none", "asks", "rides", "owns", "closing"}]
    BY <1>1, <1>2, ReleaseResult DEF Shape
<1>4. Shape'
    BY <1>1, <1>2, <1>3 DEF Shape
<1>5. Recorded' /\ Asking' /\ OnTheirWay'
    BY <1>1, <1>2, <1>3 DEF Recorded, Asking, OnTheirWay, Planning
<1>6. Scoped'
    <2>1. CASE ReleaseNow
        BY <1>1, <1>2, <2>1, ReleaseScoped
    <2>2. CASE UNCHANGED <<held, scope>>
        BY <1>1, <1>2, <2>2 DEF Scoped
    <2>3. QED
        BY <1>1, <2>1, <2>2
<1>7. InOrder'
    BY <1>1, <1>2, <1>3 DEF InOrder, Executing, Planning, OnItsWay
<1>8. Kept'
    BY <1>1 DEF Kept, Calm
<1>9. QED
    BY <1>4, <1>5, <1>6, <1>7, <1>8 DEF ScriptInv

\* A call that has waited for the scope goes on.
LEMMA JoinInv ==
    ASSUME ScriptInv, NEW c \in Calls, status[c] \in {"closing", "opened"}, Joins(c),
           awaits' \in [Calls -> Calls \cup {None}], Asking', Scoped', OnTheirWay', Kept',
           UNCHANGED <<mode, stage, left, aborted, late, intents, ending, ambient, own, deriving, verifying,
                       review, step, total, signed, mixed>>,
           held' = None => held = None, held = None => held' \in {None, c}
    PROVE  ScriptInv'
<1>1. /\ Shape /\ Recorded /\ InOrder /\ Scoped
      /\ c \in OnItsWay /\ Moves(c, status'[c]) /\ status'[c] \in UnderWay
    BY DEF ScriptInv, OnItsWay, UnderWay, Joins
<1>2. Shape'
    BY <1>1, JoinShape DEF Shape
<1>3. Recorded'
    <2>1. \E i \in DOMAIN intents : intents[i] = c
        BY <1>1 DEF Recorded, OnItsWay
    <2>2. status'[c] \notin Early
        BY <1>1 DEF UnderWay, Early
    <2>3. QED
        BY <1>1, <2>1, <2>2, MoveRecorded
<1>4. InOrder'
    <2>1. OnItsWay' = OnItsWay
        BY <1>1 DEF OnItsWay, Moves
    <2>2. Planning => (doubled' <=> doubled)
        <3>1. Planning => \A d \in Calls : scope[d] # "asks"
            BY <1>1 DEF InOrder, Scoped, OnItsWay, UnderWay
        <3>2. QED
            BY <3>1 DEF Joins
    <2>3. Executing => \A i \in 1..(step - 1) : intents[i] \in Calls /\ intents[i] # c
        BY <1>1 DEF InOrder, Shape
    <2>4. Planning => Executing
        BY <1>1 DEF InOrder
    <2>5. QED
        BY <1>1, <2>1, <2>2, <2>3, <2>4 DEF InOrder, Executing, Planning, Moves
<1>5. QED
    BY <1>2, <1>3, <1>4 DEF ScriptInv

LEMMA GoOnInv ==
    ASSUME ScriptInv, NEW c \in Calls, GoOn(c)
    PROVE  ScriptInv'
<1>1. /\ status[c] = "closing" /\ Settled(awaits[c]) /\ awaits' = [awaits EXCEPT ![c] = None]
      /\ (held = None /\ Open(c)) \/ (held # None /\ Nest(c))
      /\ UNCHANGED <<mode, stage, left, aborted, late, intents, ending, ambient, own, deriving, verifying,
                     review, step, total, signed, mixed>>
    BY DEF GoOn, script, session, page
<1>2. /\ Shape /\ Asking /\ InOrder /\ Scoped /\ OnTheirWay /\ Kept
      /\ c \in OnItsWay /\ scope[c] = "none"
    BY <1>1 DEF ScriptInv, OnItsWay, UnderWay, Scoped
<1>3. Joins(c) /\ (held # None => held' = held)
    BY <1>1, <1>2, OpenJoins, NestJoins, NestResult
<1>4. /\ awaits' \in [Calls -> Calls \cup {None}]
      /\ \A x \in Calls \ {c} : awaits'[x] = awaits[x]
    BY <1>1, <1>2 DEF Shape
<1>5. Asking' /\ OnTheirWay'
    BY <1>1, <1>2, <1>3, MoveAsking, MoveOnTheirWay DEF Joins
<1>6. Scoped'
    BY <1>1, <1>2, OpenScoped, NestScoped
<1>7. (Calm' => Calm /\ \A d \in OnItsWay : WalletOf[d] = WalletOf[c]) /\ (Planning => Executing /\ Executing')
    <2>1. Calm' => Calm
        BY <1>1, <1>3 DEF Calm, Joins, Planning
    <2>2. Planning => Executing
        BY <1>2 DEF InOrder
    <2>3. QED
        BY <1>1, <1>2, <2>1, <2>2 DEF Kept, Executing
<1>8. Kept'
    <2>1. CASE held = None /\ Open(c)
        BY <1>1, <1>2, <1>4, <1>7, <2>1, OpenKept
    <2>2. CASE held # None /\ Nest(c)
        BY <1>1, <1>2, <1>4, <1>7, <2>2, NestKept
    <2>3. QED
        BY <1>1, <2>1, <2>2
<1>9. QED
    BY <1>1, <1>3, <1>4, <1>5, <1>6, <1>8, JoinInv DEF Joins

LEMMA EnterInv ==
    ASSUME ScriptInv, NEW c \in Calls, Enter(c)
    PROVE  ScriptInv'
<1>1. /\ status[c] = "opened" /\ Nest(c) /\ awaits' = awaits
      /\ UNCHANGED <<mode, stage, left, aborted, late, intents, ending, ambient, own, deriving, verifying,
                     review, step, total, signed, mixed>>
    BY DEF Enter, script, session, page
<1>2. /\ Shape /\ Asking /\ InOrder /\ Scoped /\ OnTheirWay /\ Kept
      /\ c \in OnItsWay /\ awaits' \in [Calls -> Calls \cup {None}]
    BY <1>1 DEF ScriptInv, OnItsWay, UnderWay, Shape
<1>3. Joins(c) /\ held' = held
    BY <1>1, <1>2, NestJoins, NestResult
<1>4. Asking' /\ OnTheirWay'
    BY <1>1, <1>2, <1>3, MoveAsking, MoveOnTheirWay DEF Joins
<1>5. Scoped'
    BY <1>1, <1>2, NestScoped
<1>6. (Calm' => Calm /\ \A d \in OnItsWay : WalletOf[d] = WalletOf[c]) /\ (Planning => Executing /\ Executing')
    <2>1. Calm' => Calm
        BY <1>1, <1>3 DEF Calm, Joins, Planning
    <2>2. Planning => Executing
        BY <1>2 DEF InOrder
    <2>3. QED
        BY <1>1, <1>2, <2>1, <2>2 DEF Kept, Executing
<1>7. Kept'
    BY <1>1, <1>2, <1>6, NestKept
<1>8. QED
    BY <1>1, <1>2, <1>3, <1>4, <1>5, <1>7, JoinInv

\* The key of a request is right: the call has its scope, or a handle.
LEMMA UnlockedInv ==
    ASSUME ScriptInv, NEW c \in Calls, Unlocked(c)
    PROVE  ScriptInv'
<1>1. /\ c \in verifying /\ verifying' = verifying \ {c} /\ ambient' = c
      /\ UNCHANGED <<mode, stage, left, aborted, late, intents, latest, awaits, ending, deriving, prompt,
                     review, step, total, signed, mixed, doubled>>
    BY DEF Unlocked, script, asking, page, history
<1>2. /\ Shape /\ Recorded /\ Asking /\ InOrder /\ Scoped /\ OnTheirWay /\ Kept
      /\ status[c] \in {"opening", "asking"} /\ c \in OnItsWay
    BY <1>1 DEF ScriptInv, Asking, OnItsWay, UnderWay
<1>3. PICK st \in {"opened", "executing"} :
          /\ Moves(c, st)
          /\ \/ /\ st = "opened" /\ status[c] = "opening" /\ held' = c /\ own' = own
                /\ scope' = [scope EXCEPT ![c] = "owns"]
             \/ /\ st = "executing" /\ status[c] = "asking" /\ own' = own \cup {c}
                /\ UNCHANGED <<scope, held>>
    <2>1. {"opened", "executing"} \subseteq Statuses
        BY DEF Statuses
    <2>2. CASE status[c] = "opening"
        BY <1>2, <2>1, <2>2, MovesTo DEF Unlocked
    <2>3. CASE status[c] = "asking"
        BY <1>2, <2>1, <2>3, MovesTo DEF Unlocked
    <2>4. QED
        BY <1>2, <2>2, <2>3
<1>4. OnItsWay' = OnItsWay
    BY <1>2, <1>3 DEF OnItsWay, UnderWay, Moves
<1>5. Shape'
    BY <1>1, <1>2, <1>3 DEF Shape, Moves
<1>6. Recorded'
    <2>1. \E i \in DOMAIN intents : intents[i] = c
        BY <1>2 DEF Recorded, OnItsWay
    <2>2. QED
        BY <1>1, <1>2, <1>3, <2>1, MoveRecorded DEF Early
<1>7. Asking'
    <2>1. prompt # c /\ c \notin deriving
        BY <1>1, <1>2, CallsAssumption DEF Asking
    <2>2. \A x \in (deriving \cup verifying) \ {c} : status'[x] \in {"opening", "asking"}
        BY <1>2, <1>3 DEF Asking, Moves, Shape
    <2>3. prompt # None => status'[prompt] \in {"opening", "asking"}
        BY <1>2, <1>3, <2>1 DEF Asking, Moves, Shape
    <2>4. QED
        BY <1>1, <1>2, <2>1, <2>2, <2>3 DEF Asking
<1>8. InOrder'
    <2>1. Executing => \A i \in 1..(step - 1) : intents[i] \in Calls /\ intents[i] # c
        BY <1>2 DEF InOrder, Shape
    <2>2. Planning => Executing
        BY <1>2 DEF InOrder
    <2>3. QED
        BY <1>1, <1>2, <1>3, <1>4, <2>1, <2>2 DEF InOrder, Executing, Planning, Moves
<1>9. Scoped'
    <2>1. CASE st = "opened"
        <3>1. held' = c /\ own' = own /\ scope' = [scope EXCEPT ![c] = "owns"] /\ Moves(c, "opened")
            BY <1>3, <2>1
        <3>2. scope'[c] = "owns" /\ \A x \in Calls \ {c} : scope'[x] = scope[x]
            BY <1>2, <3>1 DEF Shape
        <3>3. \A x \in Calls : status'[x] \in {"idle", "asked", "planned", "closing"} => scope'[x] = "none"
            BY <1>2, <3>1, <3>2 DEF Scoped, Moves
        <3>4. \A x \in Calls : scope'[x] = "asks" <=> status'[x] = "opening"
            BY <1>2, <3>1, <3>2 DEF Scoped, Moves
        <3>5. \A x \in own' : status'[x] = "executing"
            BY <1>2, <3>1 DEF Scoped, Shape, Moves
        <3>6. QED
            BY <1>1, <3>1, <3>2, <3>3, <3>4, <3>5 DEF Scoped
    <2>2. CASE st = "executing"
        <3>1. /\ status[c] = "asking" /\ own' = own \cup {c} /\ scope' = scope /\ held' = held
              /\ Moves(c, "executing")
            BY <1>3, <2>2
        <3>2. \A x \in Calls : status'[x] \in {"idle", "asked", "planned", "closing"} => scope'[x] = "none"
            BY <1>2, <3>1 DEF Scoped, Moves
        <3>3. \A x \in Calls : scope'[x] = "asks" <=> status'[x] = "opening"
            BY <1>2, <3>1 DEF Scoped, Moves
        <3>4. \A x \in own' : status'[x] = "executing"
            BY <1>2, <3>1 DEF Scoped, Shape, Moves
        <3>5. held' # None => scope'[held'] \in {"rides", "owns"}
            BY <1>2, <3>1 DEF Scoped
        <3>6. ambient' \in own'
            BY <1>1, <3>1
        <3>7. QED
            BY <3>2, <3>3, <3>4, <3>5, <3>6 DEF Scoped
    <2>3. QED
        BY <2>1, <2>2
<1>10. OnTheirWay'
    BY <1>1, <1>2, <1>3 DEF OnTheirWay, Planning, Moves
<1>11. Kept'
    <2>1. SUFFICES ASSUME Calm PROVE Kept'
        BY <1>1 DEF Kept, Calm, Planning
    <2>2. /\ status[c] = "opening" /\ scope[c] = "asks" /\ latest = c /\ held = None /\ ambient = None
        BY <1>2, <2>1 DEF Kept, Scoped
    <2>3. Moves(c, "opened") /\ held' = c /\ own' = {} /\ scope' = [scope EXCEPT ![c] = "owns"]
        BY <1>2, <1>3, <2>1, <2>2 DEF Kept
    <2>4. \A x \in Calls \ {c} : scope'[x] = scope[x] /\ scope[x] \notin {"asks", "rides", "owns", "closing"}
        BY <1>2, <2>1, <2>2, <2>3, CallsAssumption DEF Kept, Shape
    <2>5. scope'[c] = "owns"
        BY <1>2, <2>3 DEF Shape
    <2>6. \A x \in Calls : status'[x] # "asking"
        BY <1>2, <2>1, <2>3 DEF Kept, Moves
    <2>7. \A x \in OnItsWay : WalletOf[x] = WalletOf[c]
        BY <1>2, <2>1 DEF Kept
    <2>8. c # None
        BY CallsAssumption
    <2>9. QED
        BY <1>1, <1>2, <1>4, <2>1, <2>2, <2>3, <2>4, <2>5, <2>6, <2>7, <2>8 DEF Kept
<1>12. QED
    BY <1>5, <1>6, <1>7, <1>8, <1>9, <1>10, <1>11 DEF ScriptInv

\* A call is over: its request is dismissed, or run() ends.
LEMMA CallOverInv ==
    ASSUME ScriptInv, NEW c \in Calls, NEW st \in {"done", "failed"}, c \in OnItsWay, status[c] # "closing",
           status' = [status EXCEPT ![c] = st], Asking',
           scope' = IF status[c] = "opening" THEN [scope EXCEPT ![c] = "none"] ELSE scope,
           own' = own \ {c}, ambient' = IF c \in own THEN None ELSE ambient,
           deriving' \subseteq Calls, prompt' \in Calls \cup {None}, signed' \in [Calls -> Nat],
           UNCHANGED <<mode, stage, left, aborted, late, intents, held, latest, awaits, ending, verifying,
                       review, step, total, mixed, doubled>>
    PROVE  ScriptInv'
<1>1. /\ Shape /\ Recorded /\ Asking /\ InOrder /\ Scoped /\ OnTheirWay /\ Kept
      /\ st \in Statuses /\ st \notin UnderWay /\ st \notin Early
    BY DEF ScriptInv, Statuses, UnderWay, Early
<1>2. Moves(c, st)
    BY <1>1, MovesTo
<1>3. OnItsWay' = OnItsWay \ {c}
    BY <1>1, <1>2 DEF OnItsWay, Moves
<1>4. scope' \in [Calls -> {"none", "asks", "rides", "owns", "closing"}]
    BY <1>1 DEF Shape
<1>5. Shape'
    <2>1. ambient' \in Calls \cup {None} /\ own' \subseteq Calls /\ status' \in [Calls -> Statuses]
        BY <1>1, <1>2 DEF Shape, Moves
    <2>2. QED
        BY <1>1, <1>4, <2>1 DEF Shape
<1>6. Recorded'
    <2>1. \E i \in DOMAIN intents : intents[i] = c
        BY <1>1 DEF Recorded, OnItsWay
    <2>2. QED
        BY <1>1, <1>2, <2>1, MoveRecorded
<1>7. InOrder'
    <2>1. Executing => \A i \in 1..(step - 1) : intents[i] \in Calls /\ intents[i] # c
        <3>1. status[c] # "done"
            BY DEF OnItsWay, UnderWay
        <3>2. SUFFICES ASSUME Executing, NEW i \in 1..(step - 1)
                       PROVE  intents[i] \in Calls /\ intents[i] # c
            OBVIOUS
        <3>3. i \in DOMAIN intents
            BY <1>1, <3>2 DEF InOrder, Shape
        <3>4. status[intents[i]] = "done"
            BY <1>1, <3>2 DEF InOrder
        <3>5. QED
            BY <1>1, <3>1, <3>3, <3>4 DEF Shape
    <2>2. QED
        BY <1>1, <1>2, <1>3, <2>1 DEF InOrder, Executing, Planning, Moves
<1>8. Scoped'
    <2>1. \A x \in Calls \ {c} : scope'[x] = scope[x] /\ status'[x] = status[x]
        BY <1>1, <1>2 DEF Shape, Moves
    <2>2. status'[c] = st /\ scope'[c] # "asks" /\ (scope[c] # "asks" => scope'[c] = scope[c])
        BY <1>1, <1>2 DEF Scoped, Shape, Moves
    <2>3. \A x \in Calls : scope'[x] = "asks" <=> status'[x] = "opening"
        BY <1>1, <2>1, <2>2 DEF Scoped
    <2>4. held # None => scope'[held] = scope[held]
        BY <1>1, <2>1, <2>2 DEF Scoped, Shape
    <2>5. ambient' # None => \/ ambient' = held /\ scope'[ambient'] = "owns"
                             \/ scope'[ambient'] = "closing"
                             \/ ambient' \in own'
        BY <1>1, <2>1, <2>2 DEF Scoped, Shape
    <2>6. \A x \in own' : status'[x] = "executing"
        BY <1>1, <2>1 DEF Scoped, Shape
    <2>7. \A x \in Calls : status'[x] \in {"idle", "asked", "planned", "closing"} => scope'[x] = "none"
        BY <1>1, <2>1, <2>2 DEF Scoped
    <2>8. QED
        BY <1>1, <2>3, <2>4, <2>5, <2>6, <2>7 DEF Scoped
<1>9. OnTheirWay'
    BY <1>1, <1>2 DEF OnTheirWay, Planning, Moves
<1>10. Kept'
    <2>1. SUFFICES ASSUME Calm PROVE Kept'
        BY DEF Kept, Calm, Planning
    <2>2. own' = {} /\ ambient' = ambient
        BY <1>1, <2>1 DEF Kept
    <2>3. \A x \in Calls : scope'[x] # scope[x] => scope'[x] = "none"
        BY <1>1 DEF Shape
    <2>4. \A x \in Calls : status'[x] \in {"asking", "opened", "executing"} => status'[x] = status[x]
        BY <1>2 DEF Moves
    <2>5. \A d \in Calls : status[d] = "closing" => status'[d] = "closing"
        BY <1>2 DEF Moves
    <2>6. \A x \in Calls : scope'[x] = "closing" =>
               /\ ambient' = x
               /\ \/ Planning' /\ ~Executing' /\ ending' = x
                  \/ \E d \in Calls : status'[d] = "closing" /\ awaits'[d] = x /\ WalletOf[d] # WalletOf[x]
        <3>1. ASSUME NEW x \in Calls, scope'[x] = "closing"
              PROVE  \/ Planning' /\ ~Executing' /\ ending' = x
                     \/ \E d \in Calls : status'[d] = "closing" /\ awaits'[d] = x /\ WalletOf[d] # WalletOf[x]
            <4>1. scope[x] = "closing"
                BY <2>3, <3>1
            <4>2. \/ Planning /\ ~Executing /\ ending = x
                  \/ \E d \in Calls : status[d] = "closing" /\ awaits[d] = x /\ WalletOf[d] # WalletOf[x]
                BY <1>1, <2>1, <4>1 DEF Kept
            <4>3. QED
                BY <2>5, <4>2 DEF Planning, Executing
        <3>2. QED
            BY <1>1, <2>1, <2>2, <2>3, <3>1 DEF Kept
    <2>7. \A x \in Calls : scope'[x] = "asks" => latest' = x /\ held' = None /\ ambient' = None
        BY <1>1, <2>1, <2>2, <2>3 DEF Kept
    <2>8. \A x \in Calls : scope'[x] \in {"rides", "owns"} =>
               /\ held' = x
               /\ scope'[x] = "rides" => WalletOf[x] \in External
               /\ scope'[x] = "owns" => ambient' = x
        BY <1>1, <2>1, <2>2, <2>3 DEF Kept
    <2>9. QED
        BY <1>1, <1>3, <2>1, <2>2, <2>4, <2>6, <2>7, <2>8 DEF Kept
<1>11. QED
    BY <1>5, <1>6, <1>7, <1>8, <1>9, <1>10 DEF ScriptInv

LEMMA DismissInv ==
    ASSUME ScriptInv, Dismiss
    PROVE  ScriptInv'
<1>1. /\ Shape /\ Asking /\ Scoped
    BY DEF ScriptInv
<1>2. PICK c \in Calls : c = prompt /\ status[c] \in {"opening", "asking"} /\ c \notin verifying
    BY <1>1 DEF Dismiss, Asking, Shape
<1>3. /\ status' = [status EXCEPT ![c] = "failed"]
      /\ scope' = IF status[c] = "opening" THEN [scope EXCEPT ![c] = "none"] ELSE scope
      /\ deriving' = deriving \ {c} /\ prompt' = None
      /\ UNCHANGED <<mode, stage, left, aborted, late, intents, held, latest, awaits, ending, ambient, own,
                     verifying, review, step, total, signed, mixed, doubled>>
    BY <1>2 DEF Dismiss, script, page, history
<1>4. c \notin own /\ c \in OnItsWay
    BY <1>1, <1>2 DEF Scoped, OnItsWay, UnderWay
<1>5. Moves(c, "failed")
    BY <1>1, <1>3, MovesTo DEF Statuses
<1>6. Asking'
    BY <1>1, <1>2, <1>3, <1>5 DEF Asking, Shape, Moves
<1>7. deriving' \subseteq Calls /\ prompt' \in Calls \cup {None} /\ signed' \in [Calls -> Nat]
    BY <1>1, <1>3 DEF Shape
<1>8. own' = own \ {c} /\ ambient' = (IF c \in own THEN None ELSE ambient)
    BY <1>3, <1>4
<1>9. QED
    BY <1>2, <1>3, <1>4, <1>6, <1>7, <1>8, CallOverInv

LEMMA OverInv ==
    ASSUME ScriptInv, NEW c \in Calls, NEW st \in {"done", "failed"}, status[c] \in {"executing", "barred"},
           Over(c, st)
    PROVE  ScriptInv'
<1>1. /\ Shape /\ Asking /\ Scoped
    BY DEF ScriptInv
<1>2. /\ status' = [status EXCEPT ![c] = st] /\ signed' = [signed EXCEPT ![c] = 0]
      /\ own' = own \ {c} /\ ambient' = (IF c \in own THEN None ELSE ambient)
      /\ UNCHANGED <<mode, stage, left, aborted, late, intents, held, latest, scope, awaits, ending, deriving,
                     verifying, prompt, review, step, total, mixed, doubled>>
    BY DEF Over, script, holder, asking, page, history
<1>3. c \in OnItsWay /\ st \in Statuses
    BY DEF OnItsWay, UnderWay, Statuses
<1>4. Moves(c, st)
    BY <1>1, <1>2, <1>3, MovesTo
<1>5. Asking'
    BY <1>1, <1>2, <1>4 DEF Asking, Shape, Moves
<1>6. deriving' \subseteq Calls /\ prompt' \in Calls \cup {None} /\ signed' \in [Calls -> Nat]
    BY <1>1, <1>2 DEF Shape
<1>7. scope' = IF status[c] = "opening" THEN [scope EXCEPT ![c] = "none"] ELSE scope
    BY <1>2
<1>8. QED
    BY <1>2, <1>3, <1>5, <1>6, <1>7, CallOverInv

\* The finally of a scope that was released.
LEMMA ClosedInv ==
    ASSUME ScriptInv, NEW h \in Calls, Closed(h)
    PROVE  ScriptInv'
<1>1. /\ scope[h] = "closing" /\ scope' = [scope EXCEPT ![h] = "none"] /\ ambient' = None
      /\ UNCHANGED <<mode, stage, left, aborted, late, status, intents, held, latest, awaits, ending, own,
                     deriving, verifying, prompt, review, step, total, signed, mixed, doubled>>
    BY DEF Closed, script, asking, page, history
<1>2. /\ Shape /\ Recorded /\ Asking /\ InOrder /\ Scoped /\ OnTheirWay /\ Kept
    BY DEF ScriptInv
<1>3. Shape' /\ Recorded' /\ Asking' /\ OnTheirWay'
    BY <1>1, <1>2 DEF Shape, Recorded, Asking, OnTheirWay, Planning
<1>4. InOrder'
    BY <1>1, <1>2 DEF InOrder, Executing, Planning, OnItsWay
<1>5. \A x \in Calls \ {h} : scope'[x] = scope[x]
    BY <1>1, <1>2 DEF Shape
<1>6. scope'[h] = "none"
    BY <1>1, <1>2 DEF Shape
<1>7. Scoped'
    BY <1>1, <1>2, <1>5, <1>6 DEF Scoped, Shape
<1>8. Kept'
    <2>1. SUFFICES ASSUME Calm PROVE Kept'
        BY <1>1 DEF Kept, Calm, Planning
    <2>2. \A x \in Calls : scope'[x] \notin {"asks", "owns", "closing"}
        BY <1>1, <1>2, <1>5, <1>6, <2>1, CallsAssumption DEF Kept
    <2>3. \A x \in Calls : scope'[x] = "rides" => held' = x /\ WalletOf[x] \in External
        BY <1>1, <1>2, <1>5, <1>6, <2>1 DEF Kept
    <2>4. QED
        BY <1>1, <1>2, <2>1, <2>2, <2>3 DEF Kept, OnItsWay
<1>9. QED
    BY <1>3, <1>4, <1>7, <1>8 DEF ScriptInv

LEMMA ScriptNext == ScriptInv /\ [Next]_vars => ScriptInv'
<1> SUFFICES ASSUME ScriptInv, [Next]_vars PROVE ScriptInv'
    OBVIOUS
<1>0. Shape /\ Asking
    BY DEF ScriptInv
<1>1. CASE UNCHANGED vars \/ Start \/ Abort
    <2>1. Shape' /\ Asking'
        BY <1>0, <1>1 DEF vars, Start, Abort, script, holder, session, asking, page, history, Shape, Asking
    <2>2. QED
        BY <1>1, <2>1, QuietStepInv DEF vars, Start, Abort, script, holder, session, asking, page, history
<1>2. CASE Return \/ Finish \/ Approve \/ Advance \/ StepFailed \/ Leave \/ Dismiss
    BY <1>2, ReturnInv, FinishInv, ApproveInv, AdvanceInv, StepFailedInv, LeaveInv, DismissInv
<1>3. CASE Submit
    <2>1. Shape' /\ Asking'
        BY <1>0, <1>3 DEF Submit, script, holder, asking, page, history, Shape, Asking
    <2>2. QED
        BY <1>3, <2>1, QuietStepInv DEF Submit, script, holder, asking, page, history
<1>4. ASSUME NEW c \in Calls, Ask(c) PROVE ScriptInv'
    BY <1>4, EarlyStepInv DEF Ask, Early
<1>5. ASSUME NEW c \in Calls, Refuse(c) PROVE ScriptInv'
    BY <1>5, EarlyStepInv DEF Refuse, Early, script
<1>6. ASSUME NEW c \in Calls,
             RecordPlanned(c) \/ RecordLive(c) \/ GoOn(c) \/ Enter(c) \/ Closed(c) \/ Unlocked(c)
      PROVE  ScriptInv'
    BY <1>6, RecordPlannedInv, RecordLiveInv, GoOnInv, EnterInv, ClosedInv, UnlockedInv
<1>7. ASSUME NEW c \in Calls, KeyDerived(c) PROVE ScriptInv'
    <2>1. Shape' /\ Asking'
        BY <1>0, <1>7 DEF KeyDerived, script, holder, asking, page, history, Shape, Asking
    <2>2. QED
        BY <1>7, <2>1, QuietStepInv DEF KeyDerived, script, holder, asking, page, history
<1>8. ASSUME NEW c \in Calls, WrongPassword(c) PROVE ScriptInv'
    <2>1. Shape' /\ Asking'
        BY <1>0, <1>8 DEF WrongPassword, script, holder, asking, page, history, Shape, Asking
    <2>2. QED
        BY <1>8, <2>1, QuietStepInv DEF WrongPassword, script, holder, asking, page, history
<1>9. ASSUME NEW c \in Calls, Sign(c) PROVE ScriptInv'
    <2>1. Shape' /\ Asking'
        BY <1>0, <1>9 DEF Sign, script, holder, session, asking, page, history, Shape, Asking
    <2>2. QED
        BY <1>9, <2>1, QuietStepInv DEF Sign, script, holder, session, asking, page, history
<1>10. ASSUME NEW c \in Calls, Done(c) \/ Throw(c) PROVE ScriptInv'
    BY <1>10, OverInv DEF Done, Throw
<1>11. QED
    BY <1>1, <1>2, <1>3, <1>4, <1>5, <1>6, <1>7, <1>8, <1>9, <1>10 DEF Next

-----------------------------------------------------------------------------
(* The theorems.                                                           *)

\* The inductive invariant holds of every behaviour.
THEOREM ScriptInvariant == Spec => []ScriptInv
<1>1. QED
    BY ScriptInit, ScriptNext, PTL DEF Spec

\* An intent of an approved plan keeps its authorization unless the page is
\* left; one of a live run unless the page is left, the run has ended, or the
\* script did not await calls of two wallets or calls that asked for a scope.
THEOREM ScopeOutlastsIntent == Spec => []InFlightKeepsScope
<1>1. ASSUME ScriptInv PROVE InFlightKeepsScope
    <2>1. SUFFICES ASSUME NEW c \in Calls, status[c] = "executing", ~Authorized(c), ~left,
                          Planning \/ (stage = "running" /\ ~mixed /\ ~doubled)
                   PROVE  FALSE
        BY DEF InFlightKeepsScope
    <2>2. Shape /\ InOrder /\ Scoped /\ Kept /\ c \in OnItsWay
        BY <1>1, <2>1 DEF ScriptInv, OnItsWay, UnderWay
    <2>3. Calm
        BY <2>1, <2>2 DEF Calm, InOrder, Planning
    <2>4. WalletOf[c] \notin External /\ held # None
        BY <2>1, <2>2, <2>3 DEF Kept, Authorized
    <2>5. held \in Calls /\ scope[held] \in {"rides", "owns"} /\ WalletOf[held] = WalletOf[c]
        BY <2>2, <2>3, <2>4 DEF Shape, Scoped, Kept
    <2>6. ambient = held
        BY <2>2, <2>3, <2>4, <2>5 DEF Kept
    <2>7. QED
        BY <2>1, <2>4, <2>5, <2>6 DEF Authorized
<1>2. QED
    BY <1>1, ScriptInvariant, PTL

\* After the run and the execution an authorization is left only to the calls
\* that were on their way to one when the run returned, or had one of their own
\* (`late`), and to a scope that is about to close.
THEOREM NoScopeLeft == Spec => []ScopeReleased
<1>1. ASSUME ScriptInv PROVE ScopeReleased
    <2>1. SUFFICES ASSUME stage \in {"closing", "returned"}, ~Executing
                   PROVE  /\ held \in late \cup {None}
                          /\ ambient \in late \cup {None} \/ scope[ambient] = "closing"
        BY DEF ScopeReleased
    <2>2. Shape /\ InOrder /\ Scoped /\ OnTheirWay
        BY <1>1 DEF ScriptInv
    <2>3. CASE ~Planning
        BY <2>1, <2>2, <2>3 DEF OnTheirWay, Scoped
    <2>4. CASE Planning
        <3>1. held = None /\ \A c \in OnItsWay : FALSE
            BY <2>1, <2>2, <2>4 DEF InOrder
        <3>2. own = {}
            BY <2>2, <3>1 DEF Shape, Scoped, OnItsWay, UnderWay
        <3>3. QED
            BY <2>2, <3>1, <3>2 DEF Scoped
    <2>5. QED
        BY <2>3, <2>4
<1>2. QED
    BY <1>1, ScriptInvariant, PTL

\* Only Sign signs.
LEMMA OnlySignSigns ==
    ASSUME ScriptInv, [Next]_vars, NEW c \in Calls, signed'[c] > signed[c]
    PROVE  Sign(c)
<1>1. Shape /\ signed[c] \in Nat /\ ~ (signed[c] > signed[c])
    BY DEF ScriptInv, Shape
<1>2. signed' # signed
    BY <1>1
<1>3. ASSUME NEW x \in Calls, NEW st \in {"done", "failed"}, Over(x, st) PROVE FALSE
    <2>1. signed' = [signed EXCEPT ![x] = 0] /\ signed \in [Calls -> Nat]
        BY <1>1, <1>3 DEF Over, Shape
    <2>2. signed'[c] = 0 \/ signed'[c] = signed[c]
        BY <2>1
    <2>3. QED
        BY <1>1, <2>2
<1>4. ASSUME NEW x \in Calls, Sign(x) PROVE Sign(c)
    <2>1. signed' = [signed EXCEPT ![x] = @ + 1] /\ signed \in [Calls -> Nat]
        BY <1>1, <1>4 DEF Sign, Shape
    <2>2. x # c => signed'[c] = signed[c]
        BY <2>1
    <2>3. QED
        BY <1>1, <1>4, <2>2
<1>5. ASSUME NEW x \in Calls,
             Ask(x) \/ Refuse(x) \/ RecordPlanned(x) \/ RecordLive(x) \/ GoOn(x) \/ Enter(x)
                 \/ Closed(x) \/ KeyDerived(x) \/ Unlocked(x) \/ WrongPassword(x)
      PROVE  signed' = signed
    BY <1>5 DEF Ask, Refuse, RecordPlanned, RecordLive, GoOn, Enter, Closed, KeyDerived, Unlocked, WrongPassword
<1>6. ASSUME \/ Start \/ Return \/ Finish \/ Approve \/ Advance \/ StepFailed
             \/ Submit \/ Dismiss \/ Abort \/ Leave \/ UNCHANGED vars
      PROVE  signed' = signed
    BY <1>6 DEF Start, Return, Finish, Approve, Advance, StepFailed, Submit, Dismiss, Abort, Leave, vars
<1>7. ASSUME NEW x \in Calls, Done(x) \/ Throw(x) PROVE FALSE
    BY <1>3, <1>7 DEF Done, Throw
<1>8. QED
    BY <1>2, <1>4, <1>5, <1>6, <1>7 DEF Next

\* A plan is signed step by step, only while it is executed, and never past a
\* step that is not done.
THEOREM PlanIsSignedInOrder == Spec => SignsPlanInOrder
<1>1. ScriptInv /\ [Next]_vars =>
          [\A c \in Calls : Planning /\ signed'[c] > signed[c] =>
              /\ Executing /\ intents[step] = c
              /\ \A i \in 1..(step - 1) : status[intents[i]] = "done"]_vars
    <2>1. ASSUME ScriptInv, [Next]_vars, NEW c \in Calls, Planning, signed'[c] > signed[c]
          PROVE  /\ Executing /\ intents[step] = c
                 /\ \A i \in 1..(step - 1) : status[intents[i]] = "done"
        <3>1. status[c] = "executing"
            BY <2>1, OnlySignSigns DEF Sign
        <3>2. c \in OnItsWay
            BY <3>1 DEF OnItsWay, UnderWay
        <3>3. QED
            BY <2>1, <3>2 DEF ScriptInv, InOrder
    <2>2. QED
        BY <2>1
<1>2. QED
    BY <1>1, ScriptInvariant, PTL DEF Spec, SignsPlanInOrder

-----------------------------------------------------------------------------
(* The rest of the state: the rows of the page, the budget, the numbers.   *)

RestOK ==
    /\ aborted \in BOOLEAN /\ left \in BOOLEAN /\ review \in BOOLEAN
    /\ index \in [Calls -> Nat] /\ spent \in [Keys -> Nat]
    /\ approvals \in 0..MaxApprovals
    /\ shown \in Seq(Rows)
    /\ sent \in [Calls -> Nat]

Told == prompts \in Nat /\ mixed \in BOOLEAN /\ doubled \in BOOLEAN

LEMMA RunTold ==
    ASSUME Told, NEW c \in Calls
    PROVE  /\ Open(c) => prompts' \in Nat /\ doubled' \in BOOLEAN
           /\ Nest(c) => prompts' \in Nat /\ doubled' \in BOOLEAN
           /\ Run(c) => Told'
<1>1. Request(c) \/ UNCHANGED asking => prompts' \in Nat
    BY DEF Told, Request, asking
<1>2. Open(c) => prompts' \in Nat /\ doubled' \in BOOLEAN
    BY <1>1 DEF Open, Told
<1>3. Nest(c) => prompts' \in Nat /\ doubled' \in BOOLEAN
    BY <1>1 DEF Nest, Told
<1>4. Run(c) => mixed' \in BOOLEAN
    BY DEF Run, Told
<1>5. Run(c) => prompts' \in Nat /\ doubled' \in BOOLEAN
    BY <1>1, <1>2, <1>3 DEF Run, Told
<1>6. QED
    BY <1>2, <1>3, <1>4, <1>5 DEF Told

\* The calls that are left when a plan stops.
LEMMA RestOfPlan ==
    ASSUME Shape, total <= Len(intents), NEW n \in 1..(total + 1)
    PROVE  /\ Len(SubSeq(intents, n, total)) = total - n + 1
           /\ Len(SubSeq(intents, n, total)) \in Nat
           /\ \A k \in 1..Len(SubSeq(intents, n, total)) :
                 SubSeq(intents, n, total)[k] = intents[n + k - 1]
<1>1. /\ intents \in Seq(Calls) /\ total \in Nat /\ Len(intents) \in Nat
      /\ n \in 1..(Len(intents) + 1) /\ total \in (n - 1)..Len(intents)
    BY DEF Shape
<1>2. Len(SubSeq(intents, n, total)) = total - n + 1
    BY <1>1, SubSeqProperties
<1>3. total - n + 1 \in Nat
    BY <1>1
<1>4. \A k \in 1..(total - n + 1) : SubSeq(intents, n, total)[k] = intents[n + k - 1]
    BY <1>1, SubSeqProperties
<1>5. QED
    BY <1>2, <1>3, <1>4

LEMMA RestRows ==
    ASSUME Shape, total <= Len(intents), NEW n \in 1..(total + 1), NEW rows \in Seq(Rows)
    PROVE  MarkRest(rows, n, "skipped") \in Seq(Rows)
<1>1. "skipped" \in Rows
    BY DEF Rows
<1>2. QED
    BY <1>1, RestOfPlan, MarkEachRows DEF MarkRest

\* A plan that is executed has this shape.
LEMMA ExecutingPlan ==
    ASSUME ScriptInv, Executing
    PROVE  /\ Planning /\ stage = "returned"
           /\ step \in 1..total /\ total \in Nat \ {0} /\ step + 1 \in 1..(total + 1)
           /\ total <= Len(intents) /\ step \in DOMAIN intents
           /\ Len(intents) \in Nat /\ DOMAIN intents = 1..Len(intents)
           /\ \A c \in OnItsWay : c = intents[step]
BY DEF ScriptInv, Shape, InOrder, Executing

LEMMA StepRows ==
    ASSUME ScriptInv, RestOK, Advance \/ StepFailed
    PROVE  shown' \in Seq(Rows)
<1>1. {"running", "done", "failed"} \subseteq Rows /\ shown \in Seq(Rows)
    BY DEF Rows, RestOK
<1>2. step + 1 \in 1..(total + 1) /\ total <= Len(intents) /\ Shape
    BY ExecutingPlan DEF Advance, StepFailed, ScriptInv
<1>3. /\ Mark(shown, intents[step], "done") \in Seq(Rows)
      /\ Mark(shown, intents[step], "failed") \in Seq(Rows)
    BY <1>1, MarkRows
<1>4. \/ shown' = Mark(Mark(shown, intents[step], "done"), intents[step + 1], "running")
      \/ shown' = MarkRest(Mark(shown, intents[step], "done"), step + 1, "skipped")
      \/ shown' = MarkRest(Mark(shown, intents[step], "failed"), step + 1, "skipped")
    BY DEF Advance, StepFailed, Stop
<1>5. QED
    BY <1>1, <1>2, <1>3, <1>4, MarkRows, RestRows

LEMMA ApproveRows ==
    ASSUME ScriptInv, RestOK, Approve
    PROVE  shown' \in Seq(Rows)
<1>1. shown' = Mark(MarkEach(shown, intents, "pending"), intents[1], "running")
    BY DEF Approve
<1>2. "pending" \in Rows /\ "running" \in Rows /\ shown \in Seq(Rows) /\ Len(intents) \in Nat
    BY DEF Rows, RestOK, ScriptInv, Shape
<1>3. QED
    BY <1>1, <1>2, MarkEachRows, MarkRows

LEMMA RestNext ==
    ASSUME ScriptInv, RestOK, [Next]_vars
    PROVE  RestOK'
<1> USE DEF RestOK
<1>1. CASE UNCHANGED vars
    BY <1>1 DEF vars, script, page
<1>2. CASE Start \/ Finish \/ Submit \/ Dismiss \/ Abort \/ Leave
    BY <1>2 DEF Start, Finish, Submit, Dismiss, Abort, Leave, script, page
<1>3. CASE Return
    <2>1. /\ \/ review' \in {FALSE, intents # <<>> /\ ~left} /\ shown' = IF review' THEN [i \in DOMAIN intents |-> "pending"] ELSE <<>>
             \/ review' = review /\ shown' = shown
          /\ UNCHANGED <<aborted, left, index, spent, approvals, sent>>
        BY <1>3 DEF Return
    <2>2. [i \in DOMAIN intents |-> "pending"] \in Seq(Rows)
        <3>1. DOMAIN intents = 1..Len(intents) /\ Len(intents) \in Nat
            BY DEF ScriptInv, Shape
        <3>2. [i \in DOMAIN intents |-> "pending"] \in [1..Len(intents) -> Rows]
            BY <3>1 DEF Rows
        <3>3. QED
            BY <3>1, <3>2
    <2>3. review' \in BOOLEAN
        BY <2>1
    <2>4. <<>> \in Seq(Rows)
        OBVIOUS
    <2>5. shown' \in Seq(Rows)
        BY <2>1, <2>2, <2>4
    <2>6. QED
        BY <2>1, <2>3, <2>5
<1>4. CASE Approve
    <2>1. /\ approvals < MaxApprovals /\ approvals' = approvals + 1 /\ aborted' = FALSE
          /\ UNCHANGED <<left, index, spent, review, sent>>
        BY <1>4 DEF Approve, script
    <2>2. approvals' \in 0..MaxApprovals
        BY <2>1, CallsAssumption
    <2>3. shown' \in Seq(Rows)
        BY <1>4, ApproveRows
    <2>4. QED
        BY <2>1, <2>2, <2>3
<1>5. CASE Advance \/ StepFailed
    <2>1. UNCHANGED <<aborted, left, index, spent, review, approvals, sent>>
        BY <1>5 DEF Advance, StepFailed, script
    <2>2. QED
        BY <1>5, <2>1, StepRows
<1>6. ASSUME NEW c \in Calls,
             \/ Refuse(c) \/ RecordPlanned(c) \/ GoOn(c) \/ Enter(c) \/ Closed(c)
             \/ KeyDerived(c) \/ Unlocked(c) \/ WrongPassword(c)
      PROVE  RestOK'
    BY <1>6 DEF Refuse, RecordPlanned, GoOn, Enter, Closed, KeyDerived, Unlocked, WrongPassword, script, page
<1>7. ASSUME NEW c \in Calls, Done(c) \/ Throw(c) PROVE RestOK'
    BY <1>7 DEF Done, Throw, Over, script, page
<1>8. ASSUME NEW c \in Calls, Ask(c) PROVE RestOK'
    <2>1. Len(intents) + 1 \in Nat
        BY DEF ScriptInv, Shape
    <2>2. QED
        BY <1>8, <2>1 DEF Ask, page
<1>9. ASSUME NEW c \in Calls, RecordLive(c) PROVE RestOK'
    <2>1. /\ spent' = [spent EXCEPT ![KeyOf[c]] = @ + Amount[c]]
          /\ UNCHANGED <<aborted, left, index, review, approvals, shown, sent>>
        BY <1>9 DEF RecordLive, script, page
    <2>2. KeyOf[c] \in Keys /\ Amount[c] \in Nat
        BY CallsAssumption
    <2>3. QED
        BY <2>1, <2>2
<1>10. ASSUME NEW c \in Calls, Sign(c) PROVE RestOK'
    <2>1. /\ sent' = [sent EXCEPT ![c] = IF signed[c] = 0 THEN @ + 1 ELSE @]
          /\ UNCHANGED <<aborted, left, index, spent, review, approvals, shown>>
        BY <1>10 DEF Sign, script, page
    <2>2. sent' \in [Calls -> Nat]
        BY <2>1
    <2>3. QED
        BY <2>1, <2>2
<1>11. QED
    BY <1>1, <1>2, <1>3, <1>4, <1>5, <1>6, <1>7, <1>8, <1>9, <1>10 DEF Next

LEMMA ToldNext ==
    ASSUME ScriptInv, Told, [Next]_vars
    PROVE  Told'
<1>1. CASE \/ UNCHANGED vars \/ Start \/ Return \/ Finish \/ Submit \/ Dismiss \/ Abort \/ Leave
    BY <1>1 DEF vars, Start, Return, Finish, Submit, Dismiss, Abort, Leave, asking, history, Told
<1>2. CASE Approve
    <2>1. intents # <<>> /\ intents \in Seq(Calls) /\ Run(intents[1])
        BY <1>2 DEF Approve, ScriptInv, InOrder, Shape
    <2>2. intents[1] \in Calls
        BY <2>1
    <2>3. QED
        BY <2>1, <2>2, RunTold
<1>3. CASE Advance
    <2>1. CASE step < total /\ ~aborted
        <3>1. intents \in Seq(Calls) /\ step + 1 \in DOMAIN intents
            BY <1>3, <2>1, ExecutingPlan DEF Advance, ScriptInv, Shape
        <3>2. intents[step + 1] \in Calls
            BY <3>1
        <3>3. QED
            BY <1>3, <2>1, <3>2, RunTold DEF Advance
    <2>2. CASE ~(step < total /\ ~aborted)
        BY <1>3, <2>2 DEF Advance, Stop, history, Told
    <2>3. QED
        BY <2>1, <2>2
<1>4. CASE StepFailed
    BY <1>4 DEF StepFailed, Stop, history, Told
<1>5. ASSUME NEW c \in Calls, RecordLive(c) PROVE Told'
    BY <1>5, RunTold DEF RecordLive
<1>6. ASSUME NEW c \in Calls, GoOn(c) \/ Enter(c) PROVE Told'
    <2>1. Open(c) \/ Nest(c)
        BY <1>6 DEF GoOn, Enter
    <2>2. mixed' = mixed
        BY <1>6 DEF GoOn, Enter
    <2>3. QED
        BY <2>1, <2>2, RunTold DEF Told
<1>7. ASSUME NEW c \in Calls,
             \/ Ask(c) \/ Refuse(c) \/ RecordPlanned(c) \/ Closed(c) \/ KeyDerived(c)
             \/ Unlocked(c) \/ WrongPassword(c) \/ Sign(c) \/ Done(c) \/ Throw(c)
      PROVE  Told'
    BY <1>7 DEF Ask, Refuse, RecordPlanned, Closed, KeyDerived, Unlocked, WrongPassword, Sign, Done, Throw, Over,
       asking, history, Told
<1>8. QED
    BY <1>1, <1>2, <1>3, <1>4, <1>5, <1>6, <1>7 DEF Next

LEMMA RestInit == Init => RestOK /\ Told
<1> SUFFICES ASSUME Init PROVE RestOK /\ Told
    OBVIOUS
<1>1. aborted = FALSE /\ left = FALSE /\ review = FALSE /\ approvals = 0 /\ shown = <<>>
    BY DEF Init
<1>2. index \in [Calls -> Nat] /\ spent \in [Keys -> Nat] /\ sent \in [Calls -> Nat]
    BY DEF Init
<1>3. <<>> \in Seq(Rows)
    OBVIOUS
<1>4. 0 \in 0..MaxApprovals
    BY CallsAssumption
<1>5. Told
    BY DEF Init, Told
<1>6. QED
    BY <1>1, <1>2, <1>3, <1>4, <1>5 DEF RestOK

LEMMA RestHolds == Spec => [](RestOK /\ Told)
<1>1. ScriptInv /\ RestOK /\ Told /\ [Next]_vars => RestOK' /\ Told'
    BY RestNext, ToldNext
<1>2. QED
    BY <1>1, RestInit, ScriptInvariant, PTL DEF Spec

\* Every variable keeps its type: among others, the page shows rows of a plan
\* and nothing else, whatever rows are looked up, added and marked.
THEOREM TypesHold == Spec => []TypeOK
<1>1. ScriptInv /\ RestOK /\ Told => TypeOK
    BY DEF ScriptInv, Shape, RestOK, Told, TypeOK
<1>2. QED
    BY <1>1, RestHolds, ScriptInvariant, PTL

-----------------------------------------------------------------------------
(* The budget of a live run: what is counted is the total of the calls that *)
(* were recorded, and nothing is signed that was not recorded.              *)

Booked == {intents[i] : i \in DOMAIN intents}
Counted(k) == {c \in Booked : KeyOf[c] = k}

BudgetInv ==
    /\ \A c \in Calls : sent[c] > 0 => c \in Booked
    /\ ~Planning =>
           /\ Len(intents) <= MaxSends
           /\ \A k \in Keys : spent[k] = Total(Counted(k)) /\ spent[k] <= Limit[k]

\* The recorded calls are finitely many, as many as there are intents.
LEMMA RecordedFinite ==
    ASSUME Shape, NEW S \in SUBSET Booked
    PROVE  IsFiniteSet(S) /\ Cardinality(S) <= Len(intents)
<1>1. Len(intents) \in Nat /\ DOMAIN intents = 1..Len(intents) /\ intents \in [1..Len(intents) -> Calls]
    BY DEF Shape
<1>2. intents \in Surjection(1..Len(intents), Booked)
    <2>1. intents \in [1..Len(intents) -> Booked]
        BY <1>1 DEF Booked
    <2>2. \A c \in Booked : \E i \in 1..Len(intents) : intents[i] = c
        BY <1>1 DEF Booked
    <2>3. QED
        BY <2>1, <2>2 DEF Surjection
<1>3. IsFiniteSet(1..Len(intents)) /\ Cardinality(1..Len(intents)) = Len(intents)
    BY <1>1, FS_Interval
<1>4. IsFiniteSet(Booked) /\ Cardinality(Booked) <= Len(intents)
    BY <1>2, <1>3, FS_Surjection
<1>5. /\ IsFiniteSet(S) /\ Cardinality(S) <= Cardinality(Booked)
      /\ Cardinality(S) \in Nat /\ Cardinality(Booked) \in Nat
    BY <1>4, FS_Subset, FS_CardinalityType
<1>6. QED
    BY <1>1, <1>4, <1>5

\* Only a record adds to the intents and the budget.
LEMMA OthersKeepRecord ==
    ASSUME [Next]_vars, \A c \in Calls : ~ RecordPlanned(c) /\ ~ RecordLive(c)
    PROVE  UNCHANGED <<mode, intents, spent>>
<1>1. CASE \/ UNCHANGED vars \/ Start \/ Return \/ Finish \/ Approve \/ Advance \/ StepFailed
           \/ Submit \/ Dismiss \/ Abort \/ Leave
    BY <1>1 DEF vars, script, Start, Return, Finish, Approve, Advance, StepFailed, Submit, Dismiss, Abort, Leave
<1>2. ASSUME NEW c \in Calls,
             \/ Ask(c) \/ Refuse(c) \/ GoOn(c) \/ Enter(c) \/ Closed(c) \/ KeyDerived(c)
             \/ Unlocked(c) \/ WrongPassword(c) \/ Sign(c) \/ Done(c) \/ Throw(c)
      PROVE  UNCHANGED <<mode, intents, spent>>
    BY <1>2 DEF script, Ask, Refuse, GoOn, Enter, Closed, KeyDerived, Unlocked, WrongPassword, Sign, Done, Throw, Over
<1>3. QED
    BY <1>1, <1>2 DEF Next

\* What was signed is a call that is executed.
LEMMA SentByExecuting ==
    ASSUME RestOK, [Next]_vars, NEW c \in Calls, sent'[c] # sent[c]
    PROVE  /\ Sign(c) /\ sent'[c] = sent[c] + 1 /\ signed[c] = 0
           /\ status[c] = "executing" /\ status' = status
<1>1. \E x \in Calls : Sign(x)
    BY DEF Next, vars, Start, Return, Finish, Approve, Advance, StepFailed, Submit, Dismiss, Abort, Leave,
       Ask, Refuse, RecordPlanned, RecordLive, GoOn, Enter, Closed, KeyDerived, Unlocked, WrongPassword,
       Done, Throw, Over
<1>2. PICK x \in Calls : Sign(x)
    BY <1>1
<1>3. sent' = [sent EXCEPT ![x] = IF signed[x] = 0 THEN @ + 1 ELSE @] /\ sent \in [Calls -> Nat]
    BY <1>2 DEF Sign, RestOK
<1>4. x = c /\ signed[c] = 0 /\ sent'[c] = sent[c] + 1
    BY <1>3
<1>5. QED
    BY <1>2, <1>4 DEF Sign

LEMMA BudgetNext ==
    ASSUME ScriptInv, RestOK, BudgetInv, [Next]_vars
    PROVE  BudgetInv'
<1>0. Shape /\ Recorded /\ sent \in [Calls -> Nat] /\ spent \in [Keys -> Nat]
    BY DEF ScriptInv, RestOK
<1>1. CASE \A c \in Calls : ~ RecordPlanned(c) /\ ~ RecordLive(c)
    <2>1. UNCHANGED <<mode, intents, spent>>
        BY <1>1, OthersKeepRecord
    <2>2. Booked' = Booked /\ \A k : Counted(k)' = Counted(k)
        BY <2>1 DEF Booked, Counted
    <2>3. ASSUME NEW c \in Calls, sent'[c] > 0 PROVE c \in Booked'
        <3>1. sent'[c] # sent[c] => status[c] \in UnderWay
            BY SentByExecuting DEF UnderWay
        <3>2. status[c] \in UnderWay => c \in Booked
            BY <1>0 DEF Recorded, Booked
        <3>3. QED
            BY <2>2, <2>3, <3>1, <3>2 DEF BudgetInv
    <2>4. ~ Planning' => /\ Len(intents') <= MaxSends
                         /\ \A k \in Keys : spent'[k] = Total(Counted(k)') /\ spent'[k] <= Limit[k]
        BY <2>1, <2>2 DEF BudgetInv, Planning
    <2>5. QED
        BY <2>3, <2>4 DEF BudgetInv
<1>2. ASSUME NEW c \in Calls, intents' = Append(intents, c) PROVE Booked' = Booked \cup {c}
    <2>1. /\ DOMAIN intents' = DOMAIN intents \cup {Len(intents) + 1}
          /\ \A i \in DOMAIN intents : intents'[i] = intents[i]
          /\ intents'[Len(intents) + 1] = c
        BY <1>0, <1>2, Appended DEF Shape
    <2>2. QED
        BY <2>1 DEF Booked
<1>3. ASSUME NEW c \in Calls, RecordPlanned(c) PROVE BudgetInv'
    <2>1. /\ Planning /\ mode' = mode /\ sent' = sent /\ intents' = Append(intents, c)
        BY <1>3 DEF RecordPlanned, script
    <2>2. QED
        BY <1>2, <2>1 DEF BudgetInv, Planning
<1>4. ASSUME NEW c \in Calls, RecordLive(c) PROVE BudgetInv'
    <2>1. /\ status[c] = "asked" /\ ~Planning /\ Len(intents) < MaxSends /\ WithinBudget(c)
          /\ intents' = Append(intents, c)
          /\ spent' = [spent EXCEPT ![KeyOf[c]] = @ + Amount[c]]
          /\ UNCHANGED <<mode, sent>>
        BY <1>4 DEF RecordLive, script
    <2>2. Booked' = Booked \cup {c} /\ c \notin Booked
        BY <1>0, <1>2, <2>1 DEF Recorded, Booked, Early
    <2>3. Len(intents') <= MaxSends
        BY <1>0, <2>1, CallsAssumption DEF Shape
    <2>4. ASSUME NEW k \in Keys
          PROVE  spent'[k] = Total(Counted(k)') /\ spent'[k] <= Limit[k]
        <3>1. spent[k] = Total(Counted(k)) /\ spent[k] <= Limit[k]
            BY <2>1 DEF BudgetInv
        <3>2. CASE k = KeyOf[c]
            <4>1. Counted(k)' = Counted(k) \cup {c} /\ c \notin Counted(k)
                BY <2>2, <3>2 DEF Counted
            <4>2. Counted(k) \in SUBSET Booked /\ Booked \in SUBSET Calls
                BY <1>0 DEF Counted, Booked, Shape
            <4>3. IsFiniteSet(Counted(k)) /\ Counted(k) \in SUBSET Calls
                BY <1>0, <4>2, RecordedFinite
            <4>4. Total(Counted(k) \cup {c}) = Total(Counted(k)) + Amount[c]
                BY <4>1, <4>3, TotalWith
            <4>5. Total(Counted(k)') = Total(Counted(k)) + Amount[c]
                BY <4>1, <4>4
            <4>6. spent'[k] = spent[k] + Amount[c] /\ spent[k] + Amount[c] <= Limit[k]
                BY <1>0, <2>1, <3>2 DEF WithinBudget
            <4>7. QED
                BY <3>1, <4>5, <4>6
        <3>3. CASE k # KeyOf[c]
            <4>1. Counted(k)' = Counted(k)
                BY <2>2, <3>3 DEF Counted
            <4>2. spent'[k] = spent[k]
                BY <1>0, <2>1, <3>3
            <4>3. QED
                BY <3>1, <4>1, <4>2
        <3>4. QED
            BY <3>2, <3>3
    <2>5. \A x \in Calls : sent'[x] > 0 => x \in Booked'
        BY <2>1, <2>2 DEF BudgetInv
    <2>6. QED
        BY <2>3, <2>4, <2>5 DEF BudgetInv
<1>5. QED
    BY <1>1, <1>3, <1>4

LEMMA BudgetKept ==
    ASSUME ScriptInv, RestOK, BudgetInv
    PROVE  BudgetHolds
<1> DEFINE out == {c \in Calls : sent[c] > 0}
<1>1. SUFFICES ASSUME ~ Planning
               PROVE  /\ Cardinality(out) <= MaxSends
                      /\ \A k \in Keys : Total(OutOf(k)) <= Limit[k]
    BY DEF BudgetHolds
<1>2. Shape /\ out \in SUBSET Booked /\ Booked \in SUBSET Calls
    BY DEF ScriptInv, BudgetInv, Shape, Booked
<1>3. Cardinality(out) <= MaxSends
    <2>1. IsFiniteSet(out) /\ Cardinality(out) <= Len(intents)
        BY <1>2, RecordedFinite
    <2>2. Cardinality(out) \in Nat /\ Len(intents) \in Nat /\ Len(intents) <= MaxSends
        BY <1>1, <1>2, <2>1, FS_CardinalityType DEF BudgetInv, Shape
    <2>3. QED
        BY <2>1, <2>2, CallsAssumption
<1>4. ASSUME NEW k \in Keys PROVE Total(OutOf(k)) <= Limit[k]
    <2>1. /\ Counted(k) \in SUBSET Booked /\ Counted(k) \in SUBSET Calls
          /\ OutOf(k) \in SUBSET Counted(k)
        BY <1>2 DEF Counted, OutOf
    <2>2. IsFiniteSet(Counted(k))
        BY <1>2, <2>1, RecordedFinite
    <2>3. Total(OutOf(k)) <= Total(Counted(k))
        BY <2>1, <2>2, TotalOfPart
    <2>4. Total(Counted(k)) = spent[k] /\ spent[k] <= Limit[k]
        BY <1>1 DEF BudgetInv
    <2>5. Total(OutOf(k)) \in Nat /\ spent[k] \in Nat /\ Limit[k] \in Nat
        <3>1. IsFiniteSet(OutOf(k)) /\ OutOf(k) \in SUBSET Calls
            BY <2>1, <2>2, FS_Subset
        <3>2. QED
            BY <3>1, TotalWithout, CallsAssumption DEF RestOK
    <2>6. QED
        BY <2>3, <2>4, <2>5
<1>5. QED
    BY <1>3, <1>4

LEMMA BudgetInvariant == Spec => []BudgetInv
<1>1. Init => BudgetInv
    <2> SUFFICES ASSUME Init PROVE BudgetInv
        OBVIOUS
    <2>1. /\ intents = <<>> /\ spent = [k \in Keys |-> 0]
          /\ \A c \in Calls : sent[c] = 0
        BY DEF Init
    <2>2. \A k : Counted(k) = {}
        BY <2>1 DEF Counted, Booked
    <2>3. Total({}) = 0
        <3>1. {} \in SUBSET Calls /\ IsFiniteSet({})
            BY FS_EmptySet
        <3>2. QED
            BY <3>1, TotalWithout
    <2>4. ASSUME NEW k \in Keys PROVE spent[k] = Total(Counted(k)) /\ spent[k] <= Limit[k]
        <3>1. spent[k] = 0 /\ Limit[k] \in Nat
            BY <2>1, CallsAssumption
        <3>2. Total(Counted(k)) = 0
            BY <2>2, <2>3
        <3>3. QED
            BY <3>1, <3>2
    <2>5. Len(intents) <= MaxSends
        BY <2>1, CallsAssumption
    <2>6. QED
        BY <2>1, <2>4, <2>5 DEF BudgetInv
<1>2. ScriptInv /\ RestOK /\ BudgetInv /\ [Next]_vars => BudgetInv'
    BY BudgetNext
<1>3. QED
    BY <1>1, <1>2, RestHolds, ScriptInvariant, PTL DEF Spec

\* Whatever a live run signs stays within the number of transactions allowed
\* and the budget of every asset whose intents count in the units of its line,
\* for every budget and every interleaving.
THEOREM LiveRunStaysInBudget == Spec => []BudgetHolds
<1>1. ScriptInv /\ RestOK /\ BudgetInv => BudgetHolds
    BY BudgetKept
<1>2. QED
    BY <1>1, BudgetInvariant, RestHolds, ScriptInvariant, PTL

-----------------------------------------------------------------------------
(* No intent twice.  With numbers of their own the intents have the rows of *)
(* their positions, so that the first execution leaves the page with a row  *)
(* for each of them that says how it ended, and there is no second one.     *)

Ended == {"done", "failed", "skipped"}
PastPrompt == {"executing", "done", "failed"}

\* Only what has its authorization behind it was signed, and that once.
SentSoFar ==
    \A c \in Calls :
        /\ sent[c] \in {0, 1}
        /\ sent[c] = 1 => status[c] \in PastPrompt /\ (status[c] = "executing" => signed[c] > 0)

RowsRight ==
    /\ Planning /\ approvals = 0 =>
           Len(shown) <= Len(intents) /\ \A i \in DOMAIN intents : status[intents[i]] = "planned"
    /\ Executing =>
           /\ Len(shown) = total /\ \A i \in 1..(step - 1) : shown[i] \in Ended
           /\ \A i \in DOMAIN intents : i > step => status[intents[i]] = "planned"
    /\ approvals > 0 /\ ~ Executing =>
           shown # <<>> /\ \A i \in DOMAIN shown : shown[i] \in Ended

Approved ==
    /\ Executing => approvals > 0
    /\ approvals > 0 => review

PlanNumbered == Planning => Numbered

OnceInv == Approved /\ (PlanNumbered => SentSoFar /\ RowsRight)

LEMMA ApprovedNext ==
    ASSUME ScriptInv, RestOK, Approved, [Next]_vars
    PROVE  Approved'
<1>0. approvals \in Nat /\ step \in Nat
    BY CallsAssumption DEF RestOK, ScriptInv, Shape
<1>1. CASE Return
    BY <1>0, <1>1 DEF Return, Approved, Executing, ScriptInv, InOrder
<1>2. CASE Approve
    BY <1>0, <1>2 DEF Approve, Approved
<1>3. CASE Advance \/ StepFailed
    BY <1>3 DEF Advance, StepFailed, Approved, Executing
<1>4. CASE UNCHANGED vars \/ Start \/ Finish \/ Submit \/ Dismiss \/ Abort \/ Leave
    BY <1>4 DEF vars, Start, Finish, Submit, Dismiss, Abort, Leave, page, Approved, Executing
<1>5. ASSUME NEW c \in Calls,
             \/ Ask(c) \/ Refuse(c) \/ RecordPlanned(c) \/ RecordLive(c) \/ GoOn(c) \/ Enter(c)
             \/ Closed(c) \/ KeyDerived(c) \/ Unlocked(c) \/ WrongPassword(c) \/ Sign(c)
             \/ Done(c) \/ Throw(c)
      PROVE  Approved'
    BY <1>5 DEF Ask, Refuse, RecordPlanned, RecordLive, GoOn, Enter, Closed, KeyDerived, Unlocked,
       WrongPassword, Sign, Done, Throw, Over, page, Approved, Executing
<1>6. QED
    BY <1>1, <1>2, <1>3, <1>4, <1>5 DEF Next

\* A number is given once, and the intents only grow.
LEMMA NumberedBefore ==
    ASSUME ScriptInv, RestOK, [Next]_vars, PlanNumbered'
    PROVE  PlanNumbered
<1>0. intents \in Seq(Calls) /\ Recorded /\ index \in [Calls -> Nat]
    BY DEF ScriptInv, Shape, RestOK
<1>1. CASE UNCHANGED <<mode, intents, index>>
    BY <1>1 DEF PlanNumbered, Numbered, Planning
<1>2. ASSUME NEW c \in Calls, Ask(c) PROVE PlanNumbered
    <2>1. SUFFICES ASSUME Planning PROVE Numbered
        BY DEF PlanNumbered
    <2>2. /\ intents' = intents /\ index' = [index EXCEPT ![c] = Len(intents) + 1] /\ status[c] \in Early
          /\ Numbered'
        BY <1>2, <2>1 DEF Ask, Early, PlanNumbered, Planning
    <2>3. \A i \in DOMAIN intents : intents[i] \in Calls /\ intents[i] # c
        BY <1>0, <2>2 DEF Recorded
    <2>4. \A i \in DOMAIN intents : index'[intents[i]] = index[intents[i]]
        BY <1>0, <2>2, <2>3
    <2>5. QED
        BY <2>2, <2>4 DEF Numbered
<1>3. ASSUME NEW c \in Calls, RecordPlanned(c) \/ RecordLive(c) PROVE PlanNumbered
    <2>1. intents' = Append(intents, c) /\ index' = index /\ mode' = mode
        BY <1>3 DEF RecordPlanned, RecordLive, script
    <2>2. DOMAIN intents \subseteq DOMAIN intents' /\ \A i \in DOMAIN intents : intents'[i] = intents[i]
        BY <1>0, <2>1, Appended
    <2>3. QED
        BY <2>1, <2>2 DEF PlanNumbered, Planning, Numbered
<1>4. CASE \/ UNCHANGED vars \/ Start \/ Return \/ Finish \/ Approve \/ Advance \/ StepFailed
           \/ Submit \/ Dismiss \/ Abort \/ Leave
    <2>1. UNCHANGED <<mode, intents, index>>
        BY <1>4 DEF vars, script, Start, Return, Finish, Approve, Advance, StepFailed, Submit, Dismiss, Abort, Leave
    <2>2. QED
        BY <1>1, <2>1
<1>5. ASSUME NEW c \in Calls,
             \/ Refuse(c) \/ GoOn(c) \/ Enter(c) \/ Closed(c) \/ KeyDerived(c)
             \/ Unlocked(c) \/ WrongPassword(c) \/ Sign(c) \/ Done(c) \/ Throw(c)
      PROVE  PlanNumbered
    <2>1. UNCHANGED <<mode, intents, index>>
        BY <1>5 DEF script, Refuse, GoOn, Enter, Closed, KeyDerived, Unlocked, WrongPassword, Sign, Done, Throw, Over
    <2>2. QED
        BY <1>1, <2>1
<1>6. QED
    BY <1>2, <1>3, <1>4, <1>5 DEF Next

\* What was signed stays signed; a call that was not yet let in goes on.
LEMMA SentSoFarMoves ==
    ASSUME SentSoFar, sent' = sent, NEW moved \in SUBSET Calls,
           \A c \in moved : status[c] \notin PastPrompt,
           \A c \in Calls \ moved : /\ status'[c] = status[c] \/ status'[c] \in {"done", "failed"}
                                    /\ status'[c] = "executing" => signed'[c] = signed[c]
    PROVE  SentSoFar'
<1>1. ASSUME NEW c \in Calls, sent[c] = 1
      PROVE  status'[c] \in PastPrompt /\ (status'[c] = "executing" => signed'[c] > 0)
    <2>1. status[c] \in PastPrompt /\ (status[c] = "executing" => signed[c] > 0)
        BY <1>1 DEF SentSoFar
    <2>2. c \notin moved
        BY <2>1
    <2>3. /\ status'[c] = status[c] \/ status'[c] \in {"done", "failed"}
          /\ status'[c] = "executing" => signed'[c] = signed[c]
        BY <2>2
    <2>4. CASE status'[c] = status[c]
        BY <2>1, <2>3, <2>4
    <2>5. CASE status'[c] \in {"done", "failed"}
        BY <2>5 DEF PastPrompt
    <2>6. QED
        BY <2>3, <2>4, <2>5
<1>2. QED
    BY <1>1 DEF SentSoFar

\* run() moves no other call.
LEMMA RunMoves ==
    ASSUME Shape, NEW c \in Calls
    PROVE  /\ Open(c) => \A x \in Calls \ {c} : status'[x] = status[x]
           /\ Nest(c) => \A x \in Calls \ {c} : status'[x] = status[x]
           /\ Run(c) => \A x \in Calls \ {c} : status'[x] = status[x]
<1>1. Open(c) => \A x \in Calls \ {c} : status'[x] = status[x]
    BY OpenResult DEF Rides, Barred, Opens, Moves
<1>2. Nest(c) => \A x \in Calls \ {c} : status'[x] = status[x]
    BY NestResult DEF Goes, Barred, Asks, Moves
<1>3. Run(c) => \A x \in Calls \ {c} : status'[x] = status[x]
    BY <1>1, <1>2, RunResult DEF Releases, Moves
<1>4. QED
    BY <1>1, <1>2, <1>3

\* Steps that leave the rows alone and the planned calls planned.
LEMMA RowsKept ==
    ASSUME ScriptInv, RowsRight, UNCHANGED <<mode, intents, page>>,
           \A c \in Calls : status[c] = "planned" => status'[c] = "planned"
    PROVE  RowsRight'
<1>1. \A i \in DOMAIN intents : intents[i] \in Calls
    BY DEF ScriptInv, Shape
<1>2. Planning' /\ approvals' = 0 =>
          Len(shown') <= Len(intents') /\ \A i \in DOMAIN intents' : status'[intents'[i]] = "planned"
    BY <1>1 DEF RowsRight, Planning, page
<1>3. Executing' => /\ Len(shown') = total' /\ \A i \in 1..(step' - 1) : shown'[i] \in Ended
                    /\ \A i \in DOMAIN intents' : i > step' => status'[intents'[i]] = "planned"
    BY <1>1 DEF RowsRight, Executing, page
<1>4. approvals' > 0 /\ ~ Executing' => shown' # <<>> /\ \A i \in DOMAIN shown' : shown'[i] \in Ended
    BY DEF RowsRight, Executing, page
<1>5. QED
    BY <1>2, <1>3, <1>4 DEF RowsRight

\* In a live run there are no rows.
LEMMA RowsOfLive ==
    ASSUME ScriptInv, RestOK, Approved, ~ Planning
    PROVE  RowsRight
<1>1. ~ Executing /\ ~ review
    BY DEF ScriptInv, InOrder
<1>2. approvals = 0
    BY <1>1, CallsAssumption DEF Approved, RestOK
<1>3. QED
    BY <1>1, <1>2 DEF RowsRight

\* One call moves, the page stays.
LEMMA MoveOnce ==
    ASSUME ScriptInv, SentSoFar, RowsRight, UNCHANGED <<mode, intents, page, sent>>, NEW c \in Calls,
           \A x \in Calls \ {c} : status'[x] = status[x] /\ signed'[x] = signed[x],
           status[c] # "planned",
           status[c] \notin PastPrompt \/ status'[c] \in {"done", "failed"}
    PROVE  SentSoFar' /\ RowsRight'
<1>1. SentSoFar'
    <2>1. CASE status[c] \notin PastPrompt
        <3>1. {c} \in SUBSET Calls
            OBVIOUS
        <3>2. QED
            BY <2>1, <3>1, SentSoFarMoves
    <2>2. CASE status'[c] \in {"done", "failed"}
        <3>1. {} \in SUBSET Calls /\ status'[c] # "executing"
            BY <2>2
        <3>2. \A x \in Calls : /\ status'[x] = status[x] \/ status'[x] \in {"done", "failed"}
                               /\ status'[x] = "executing" => signed'[x] = signed[x]
            BY <2>2, <3>1
        <3>3. QED
            BY <3>1, <3>2, SentSoFarMoves
    <2>3. QED
        BY <2>1, <2>2
<1>2. QED
    BY <1>1, RowsKept

\* When the execution stops, the rows that are left are marked too.
LEMMA RowsWhenOver ==
    ASSUME ScriptInv, RestOK, Numbered, RowsRight, Executing, NEW over \in {"done", "failed"}
    PROVE  LET rows == MarkRest(Mark(shown, intents[step], over), step + 1, "skipped")
           IN  rows # <<>> /\ \A i \in DOMAIN rows : rows[i] \in Ended
<1> DEFINE mid == Mark(shown, intents[step], over)
           rows == MarkRest(mid, step + 1, "skipped")
<1>1. /\ step \in 1..total /\ total \in Nat \ {0} /\ step + 1 \in 1..(total + 1)
      /\ total <= Len(intents) /\ step \in DOMAIN intents /\ Len(intents) \in Nat
      /\ Shape /\ intents \in Seq(Calls) /\ shown \in Seq(Rows)
      /\ over \in Rows /\ "skipped" \in Rows
    BY ExecutingPlan DEF ScriptInv, Shape, RestOK, Rows
<1>2. Len(shown) = total /\ \A i \in 1..(step - 1) : shown[i] \in Ended
    BY DEF RowsRight
<1>3. /\ mid \in Seq(Rows) /\ Len(mid) = total /\ mid[step] = over
      /\ \A j \in 1..total : j # step => mid[j] = shown[j]
    <2>1. step <= Len(shown) + 1
        BY <1>1, <1>2
    <2>2. /\ mid \in Seq(Rows) /\ Len(mid) = IF step <= Len(shown) THEN Len(shown) ELSE step
          /\ mid[step] = over
          /\ \A j \in 1..Len(shown) : j # step => mid[j] = shown[j]
        BY <1>1, <2>1, MarkFound
    <2> HIDE DEF mid
    <2>3. QED
        BY <1>1, <1>2, <2>2
<1> HIDE DEF mid
<1>4. \A i \in 1..step : mid[i] \in Ended
    BY <1>1, <1>2, <1>3 DEF Ended
<1> DEFINE cs == SubSeq(intents, step + 1, total)
<1>5. /\ Len(cs) = total - (step + 1) + 1
      /\ \A k \in 1..Len(cs) : cs[k] = intents[(step + 1) + k - 1]
    BY <1>1, RestOfPlan
<1>6. rows = MarkEach(mid, cs, "skipped")
    BY DEF MarkRest
<1>7. rows \in Seq(Rows)
    BY <1>1, <1>3, RestRows
<1> HIDE DEF cs, rows
<1>8. /\ step + 1 \in Nat \ {0} /\ total \in Nat /\ step + 1 <= Len(mid) + 1
      /\ step + 1 <= total + 1 /\ total <= Len(intents)
    BY <1>1, <1>3
<1>9. /\ Len(rows) = IF total <= Len(mid) THEN Len(mid) ELSE total
      /\ \A j \in (step + 1)..total : rows[j] = "skipped"
      /\ \A j \in 1..Len(mid) : j \notin (step + 1)..total => rows[j] = mid[j]
    <2> DEFINE from == step + 1
    <2>1. /\ intents \in Seq(Calls) /\ Numbered /\ mid \in Seq(Rows) /\ "skipped" \in Rows
          /\ from \in Nat \ {0} /\ total \in Nat /\ from <= Len(mid) + 1
          /\ from <= total + 1 /\ total <= Len(intents)
          /\ Stretch(cs, from, total)
        BY <1>1, <1>3, <1>5, <1>8 DEF Stretch
    <2> HIDE DEF from
    <2>2. OnlyMarked(MarkEach(mid, cs, "skipped"), mid, from, total, "skipped")
        BY <2>1, MarkEachFound
    <2>3. QED
        BY <1>6, <2>2 DEF from, OnlyMarked
<1>10. Len(rows) = total
    BY <1>1, <1>3, <1>9
<1>11. ASSUME NEW i \in 1..total PROVE rows[i] \in Ended
    <2>1. CASE i <= step
        <3>1. i \in 1..step /\ i \in 1..Len(mid) /\ i \notin (step + 1)..total
            BY <1>1, <1>3, <2>1
        <3>2. QED
            BY <1>4, <1>9, <3>1
    <2>2. CASE ~ (i <= step)
        BY <1>1, <1>9, <2>2 DEF Ended
    <2>3. QED
        BY <2>1, <2>2
<1>12. rows # <<>> /\ DOMAIN rows = 1..total
    BY <1>1, <1>7, <1>10
<1>13. QED
    BY <1>11, <1>12 DEF rows, mid

\* The first approval: every intent gets its row.
LEMMA ApproveOnce ==
    ASSUME ScriptInv, RestOK, Approved, Numbered, SentSoFar, RowsRight, Approve
    PROVE  SentSoFar' /\ RowsRight'
<1>1. /\ review /\ ~ Executing /\ ~ PlanFinished /\ Planning /\ intents # <<>>
      /\ total' = Len(intents) /\ step' = 1 /\ approvals' = approvals + 1
      /\ shown' = Mark(MarkEach(shown, intents, "pending"), intents[1], "running")
      /\ Run(intents[1])
      /\ UNCHANGED <<mode, intents, sent, signed>>
    BY DEF Approve, script, ScriptInv, InOrder
<1>2. /\ Shape /\ Recorded /\ intents \in Seq(Calls) /\ shown \in Seq(Rows)
      /\ Len(intents) \in Nat \ {0} /\ DOMAIN intents = 1..Len(intents)
      /\ status \in [Calls -> Statuses] /\ Len(shown) \in Nat /\ approvals \in Nat
    <2>1. Shape /\ Recorded /\ intents \in Seq(Calls) /\ shown \in Seq(Rows) /\ status \in [Calls -> Statuses]
        BY DEF ScriptInv, Shape, RestOK
    <2>2. approvals \in Nat
        BY CallsAssumption DEF RestOK
    <2>3. QED
        BY <1>1, <2>1, <2>2
<1>3. approvals = 0
    <2>1. ASSUME approvals > 0 PROVE PlanFinished
        BY <1>1, <2>1 DEF RowsRight, PlanFinished, Ended
    <2>2. QED
        BY <1>1, <1>2, <2>1
<1>4. Len(shown) <= Len(intents) /\ \A i \in DOMAIN intents : status[intents[i]] = "planned"
    BY <1>1, <1>3 DEF RowsRight
<1>5. intents[1] \in Calls /\ status[intents[1]] = "planned"
    BY <1>2, <1>4
<1>6. \A x \in Calls \ {intents[1]} : status'[x] = status[x]
    BY <1>1, <1>2, <1>5, RunMoves
<1>7. SentSoFar'
    <2>1. {intents[1]} \in SUBSET Calls /\ status[intents[1]] \notin PastPrompt
        BY <1>5 DEF PastPrompt
    <2>2. QED
        BY <1>1, <1>6, <2>1, SentSoFarMoves
<1>8. Len(shown') = Len(intents)
    <2> DEFINE rows == MarkEach(shown, intents, "pending")
    <2>1. "pending" \in Rows /\ "running" \in Rows
        BY DEF Rows
    <2>2. Stretch(intents, 1, Len(intents))
        BY <1>2 DEF Stretch
    <2>3. rows \in Seq(Rows)
        BY <1>2, <2>1, MarkEachRows
    <2>4. OnlyMarked(rows, shown, 1, Len(intents), "pending")
        <3>1. 1 \in Nat \ {0} /\ 1 <= Len(shown) + 1 /\ 1 <= Len(intents) + 1 /\ Len(intents) <= Len(intents)
            BY <1>2
        <3>2. QED
            BY <1>2, <2>1, <2>2, <3>1, MarkEachFound
    <2>5. Len(rows) = Len(intents)
        BY <1>2, <1>4, <2>4 DEF OnlyMarked
    <2>6. shown' = Mark(rows, intents[1], "running")
        BY <1>1
    <2> HIDE DEF rows
    <2>7. 1 \in DOMAIN intents /\ 1 <= Len(rows) + 1 /\ 1 <= Len(rows)
        BY <1>2, <2>5
    <2>8. Len(Mark(rows, intents[1], "running")) = IF 1 <= Len(rows) THEN Len(rows) ELSE 1
        BY <1>2, <2>1, <2>3, <2>7, MarkFound
    <2>9. QED
        BY <2>5, <2>6, <2>7, <2>8
<1>9. RowsRight'
    <2>1. \A i \in DOMAIN intents : i > 1 => status'[intents[i]] = "planned"
        BY <1>2, <1>4, <1>6 DEF Recorded
    <2>2. Executing' /\ approvals' # 0
        BY <1>1, <1>2 DEF Executing
    <2>3. QED
        BY <1>1, <1>8, <2>1, <2>2 DEF RowsRight
<1>10. QED
    BY <1>7, <1>9

\* The execution stops.
LEMMA StopOnce ==
    ASSUME ScriptInv, RestOK, Approved, Numbered, SentSoFar, RowsRight, Executing,
           NEW over \in {"done", "failed"}, Stop(Mark(shown, intents[step], over), step + 1),
           UNCHANGED <<approvals, signed, sent>>
    PROVE  SentSoFar' /\ RowsRight'
<1>1. /\ step' = 0 /\ shown' = MarkRest(Mark(shown, intents[step], over), step + 1, "skipped")
      /\ status' = status
    BY DEF Stop
<1>2. SentSoFar'
    BY <1>1 DEF SentSoFar
<1>3. shown' # <<>> /\ \A i \in DOMAIN shown' : shown'[i] \in Ended
    BY <1>1, RowsWhenOver
<1>4. ~ Executing' /\ approvals' # 0
    BY <1>1, CallsAssumption DEF Executing, Approved, RestOK
<1>5. QED
    BY <1>2, <1>3, <1>4 DEF RowsRight

\* A step of the plan is done: the next one begins, or the plan is over.
LEMMA AdvanceOnce ==
    ASSUME ScriptInv, RestOK, Approved, Numbered, SentSoFar, RowsRight, Advance
    PROVE  SentSoFar' /\ RowsRight'
<1>1. /\ Executing /\ UNCHANGED <<mode, intents, total, approvals, sent, signed>>
    BY DEF Advance, script
<1>2. /\ Shape /\ Recorded /\ intents \in Seq(Calls) /\ shown \in Seq(Rows)
    BY DEF ScriptInv, Shape, RestOK
<1>3. /\ step \in 1..total /\ total \in Nat \ {0} /\ total <= Len(intents)
      /\ step \in DOMAIN intents /\ DOMAIN intents = 1..Len(intents) /\ Len(intents) \in Nat
    BY <1>1, ExecutingPlan
<1>4. /\ Len(shown) = total /\ \A i \in 1..(step - 1) : shown[i] \in Ended
      /\ \A i \in DOMAIN intents : i > step => status[intents[i]] = "planned"
    BY <1>1 DEF RowsRight
<1>5. approvals > 0 /\ approvals \in Nat
    BY <1>1, CallsAssumption DEF Approved, RestOK
<1>6. CASE step < total /\ ~ aborted
    <2> DEFINE n == step + 1
               mid == Mark(shown, intents[step], "done")
    <2>1. step' = n /\ shown' = Mark(mid, intents[n], "running") /\ Run(intents[n])
        BY <1>6 DEF Advance
    <2>2. n \in DOMAIN intents /\ n \in 1..total /\ n > step /\ step = n - 1 /\ n # step
        BY <1>3, <1>6
    <2> HIDE DEF n
    <2>3. intents[n] \in Calls /\ status[intents[n]] = "planned"
        BY <1>2, <1>4, <2>2
    <2>4. \A x \in Calls \ {intents[n]} : status'[x] = status[x]
        BY <1>2, <2>1, <2>3, RunMoves
    <2>5. SentSoFar'
        <3>1. {intents[n]} \in SUBSET Calls /\ status[intents[n]] \notin PastPrompt
            BY <2>3 DEF PastPrompt
        <3>2. QED
            BY <1>1, <2>4, <3>1, SentSoFarMoves
    <2>6. "done" \in Rows /\ "running" \in Rows
        BY DEF Rows
    <2>7. /\ mid \in Seq(Rows) /\ Len(mid) = total /\ mid[step] = "done"
          /\ \A j \in 1..total : j # step => mid[j] = shown[j]
        <3>1. step <= Len(shown) + 1 /\ step <= Len(shown)
            BY <1>3, <1>4
        <3>2. /\ mid \in Seq(Rows) /\ Len(mid) = (IF step <= Len(shown) THEN Len(shown) ELSE step)
              /\ mid[step] = "done"
              /\ \A j \in 1..Len(shown) : j # step => mid[j] = shown[j]
            BY <1>2, <1>3, <2>6, <3>1, MarkFound
        <3> HIDE DEF mid
        <3>3. QED
            BY <1>4, <3>1, <3>2
    <2> HIDE DEF mid
    <2>8. /\ Len(shown') = total
          /\ \A j \in 1..total : j # n => shown'[j] = mid[j]
        <3>1. n <= Len(mid) + 1 /\ n <= Len(mid)
            BY <1>3, <2>2, <2>7
        <3>2. /\ Len(Mark(mid, intents[n], "running")) = IF n <= Len(mid) THEN Len(mid) ELSE n
              /\ \A j \in 1..Len(mid) : j # n => Mark(mid, intents[n], "running")[j] = mid[j]
            BY <1>2, <2>2, <2>6, <2>7, <3>1, MarkFound
        <3>3. QED
            BY <2>1, <2>7, <3>1, <3>2
    <2>9. \A i \in 1..(n - 1) : shown'[i] \in Ended
        <3>1. ASSUME NEW i \in 1..(n - 1) PROVE shown'[i] \in Ended
            <4>1. i \in 1..total /\ i # n /\ (i = step \/ i \in 1..(step - 1))
                BY <1>3, <2>2
            <4>2. mid[i] \in Ended
                BY <1>4, <2>7, <4>1 DEF Ended
            <4>3. QED
                BY <2>8, <4>1, <4>2
        <3>2. QED
            BY <3>1
    <2>10. ASSUME NEW i \in DOMAIN intents, i > n PROVE status'[intents[i]] = "planned"
        <3>1. i # n /\ i > step
            BY <1>3, <2>2, <2>10
        <3>2. intents[i] \in Calls /\ intents[i] # intents[n]
            BY <1>2, <2>2, <3>1 DEF Recorded
        <3>3. QED
            BY <1>4, <2>4, <3>1, <3>2
    <2>11. Executing' /\ approvals' # 0
        BY <1>1, <1>5, <2>1, <2>2 DEF Executing
    <2>12. RowsRight'
        BY <1>1, <2>1, <2>8, <2>9, <2>10, <2>11 DEF RowsRight
    <2>13. QED
        BY <2>5, <2>12
<1>7. CASE ~ (step < total /\ ~ aborted)
    <2>1. Stop(Mark(shown, intents[step], "done"), step + 1)
        BY <1>7 DEF Advance
    <2>2. QED
        BY <1>1, <2>1, StopOnce
<1>8. QED
    BY <1>6, <1>7

LEMMA ReturnOnce ==
    ASSUME ScriptInv, RestOK, Approved, SentSoFar, RowsRight, Return
    PROVE  SentSoFar' /\ RowsRight'
<1>1. /\ stage = "running"
      /\ \/ shown' = IF review' THEN [i \in DOMAIN intents |-> "pending"] ELSE <<>>
         \/ ~Planning /\ shown' = shown
      /\ UNCHANGED <<mode, intents, status, sent, signed, step, approvals>>
    BY DEF Return
<1>2. ~ Executing /\ ~ review
    BY <1>1 DEF ScriptInv, InOrder
<1>3. approvals = 0
    BY <1>2, CallsAssumption DEF Approved, RestOK
<1>4. SentSoFar'
    BY <1>1 DEF SentSoFar
<1>5. Planning => Len(shown') <= Len(intents)
    <2>1. Len(intents) \in Nat /\ DOMAIN intents = 1..Len(intents)
        BY DEF ScriptInv, Shape
    <2>2. QED
        BY <1>1, <2>1
<1>6. RowsRight'
    BY <1>1, <1>2, <1>3, <1>5 DEF RowsRight, Planning, Executing
<1>7. QED
    BY <1>4, <1>6

LEMMA RecordPlannedOnce ==
    ASSUME ScriptInv, RestOK, SentSoFar, RowsRight, NEW c \in Calls, RecordPlanned(c)
    PROVE  SentSoFar' /\ RowsRight'
<1>1. /\ status[c] = "asked" /\ intents' = Append(intents, c)
      /\ status' = [status EXCEPT ![c] = "planned"]
      /\ UNCHANGED <<mode, page, signed, sent>>
    BY DEF RecordPlanned, script
<1>2. /\ Shape /\ Recorded /\ status'[c] = "planned" /\ \A x \in Calls \ {c} : status'[x] = status[x]
      /\ shown \in Seq(Rows) /\ Len(shown) \in Nat
    BY <1>1 DEF ScriptInv, Shape, RestOK
<1>3. SentSoFar'
    <2>1. {c} \in SUBSET Calls /\ status[c] \notin PastPrompt
        BY <1>1 DEF PastPrompt
    <2>2. QED
        BY <1>1, <1>2, <2>1, SentSoFarMoves
<1>4. /\ DOMAIN intents' = DOMAIN intents \cup {Len(intents) + 1}
      /\ Len(intents') = Len(intents) + 1 /\ Len(intents) \in Nat
      /\ \A i \in DOMAIN intents : intents'[i] = intents[i]
      /\ intents'[Len(intents) + 1] = c
    BY <1>1, <1>2, Appended DEF Shape
<1>5. \A i \in DOMAIN intents : intents[i] \in Calls /\ intents[i] # c
    BY <1>1, <1>2 DEF Shape, Recorded, Early
<1>6. \A i \in DOMAIN intents' : \/ i \in DOMAIN intents /\ status'[intents'[i]] = status[intents[i]]
                                 \/ status'[intents'[i]] = "planned"
    BY <1>2, <1>4, <1>5
<1>7. Planning' /\ approvals' = 0 =>
          Len(shown') <= Len(intents') /\ \A i \in DOMAIN intents' : status'[intents'[i]] = "planned"
    <2> SUFFICES ASSUME Planning', approvals' = 0
                 PROVE  /\ Len(shown') <= Len(intents')
                        /\ \A i \in DOMAIN intents' : status'[intents'[i]] = "planned"
        OBVIOUS
    <2>1. Len(shown) <= Len(intents) /\ \A i \in DOMAIN intents : status[intents[i]] = "planned"
        BY <1>1 DEF RowsRight, Planning, page
    <2>2. Len(shown') <= Len(intents')
        BY <1>1, <1>2, <1>4, <2>1 DEF page
    <2>3. QED
        BY <1>6, <2>1, <2>2
<1>8. Executing' => /\ Len(shown') = total' /\ \A i \in 1..(step' - 1) : shown'[i] \in Ended
                    /\ \A i \in DOMAIN intents' : i > step' => status'[intents'[i]] = "planned"
    <2>1. Executing' <=> Executing
        BY <1>1 DEF Executing, page
    <2>2. QED
        BY <1>1, <1>6, <2>1 DEF RowsRight, page
<1>9. approvals' > 0 /\ ~ Executing' => shown' # <<>> /\ \A i \in DOMAIN shown' : shown'[i] \in Ended
    BY <1>1 DEF RowsRight, Executing, page
<1>10. QED
    BY <1>3, <1>7, <1>8, <1>9 DEF RowsRight

LEMMA SignOnce ==
    ASSUME ScriptInv, RestOK, SentSoFar, RowsRight, NEW c \in Calls, Sign(c)
    PROVE  SentSoFar' /\ RowsRight'
<1>1. /\ status[c] = "executing" /\ signed' = [signed EXCEPT ![c] = @ + 1]
      /\ sent' = [sent EXCEPT ![c] = IF signed[c] = 0 THEN @ + 1 ELSE @]
      /\ UNCHANGED <<mode, intents, status, page>>
    BY DEF Sign, script
<1>2. signed \in [Calls -> Nat] /\ sent \in [Calls -> Nat]
    BY DEF ScriptInv, Shape, RestOK
<1>3. RowsRight'
    BY <1>1, RowsKept
<1>4. ASSUME NEW x \in Calls
      PROVE  /\ sent'[x] \in {0, 1}
             /\ sent'[x] = 1 => status'[x] \in PastPrompt /\ (status'[x] = "executing" => signed'[x] > 0)
    <2>1. CASE x = c
        <3>1. status'[c] \in PastPrompt
            BY <1>1 DEF PastPrompt
        <3>2. signed'[c] = signed[c] + 1 /\ signed[c] \in Nat /\ signed'[c] > 0
            BY <1>1, <1>2
        <3>3. sent'[c] = IF signed[c] = 0 THEN sent[c] + 1 ELSE sent[c]
            BY <1>1, <1>2
        <3>4. sent[c] \in {0, 1} /\ (sent[c] = 1 => signed[c] > 0)
            BY <1>1 DEF SentSoFar
        <3>5. QED
            BY <2>1, <3>1, <3>2, <3>3, <3>4
    <2>2. CASE x # c
        BY <1>1, <1>2, <2>2 DEF SentSoFar
    <2>3. QED
        BY <2>1, <2>2
<1>5. QED
    BY <1>3, <1>4 DEF SentSoFar

LEMMA OnceNext ==
    ASSUME ScriptInv, RestOK, OnceInv, [Next]_vars
    PROVE  OnceInv'
<1>1. Approved /\ Approved'
    BY ApprovedNext DEF OnceInv
<1>2. SUFFICES ASSUME PlanNumbered' PROVE SentSoFar' /\ RowsRight'
    BY <1>1 DEF OnceInv
<1>3. PlanNumbered /\ SentSoFar /\ RowsRight
    BY <1>2, NumberedBefore DEF OnceInv
<1>4. Shape /\ (Executing \/ review => Planning)
    BY DEF ScriptInv, InOrder
<1>5. CASE UNCHANGED vars \/ Start \/ Finish \/ Submit \/ Abort \/ Leave
    <2>1. UNCHANGED <<mode, intents, page, signed, sent, status>>
        BY <1>5 DEF vars, script, Start, Finish, Submit, Abort, Leave, page
    <2>2. SentSoFar'
        BY <1>3, <2>1 DEF SentSoFar
    <2>3. QED
        BY <1>3, <2>1, <2>2, RowsKept
<1>6. CASE Return
    BY <1>1, <1>3, <1>6, ReturnOnce
<1>7. CASE Approve
    <2>1. Numbered
        BY <1>3, <1>4, <1>7 DEF Approve, PlanNumbered
    <2>2. QED
        BY <1>1, <1>3, <1>7, <2>1, ApproveOnce
<1>8. CASE Advance
    <2>1. Numbered
        BY <1>3, <1>4, <1>8 DEF Advance, PlanNumbered
    <2>2. QED
        BY <1>1, <1>3, <1>8, <2>1, AdvanceOnce
<1>9. CASE StepFailed
    <2>1. /\ Numbered /\ Executing /\ Stop(Mark(shown, intents[step], "failed"), step + 1)
          /\ UNCHANGED <<approvals, signed, sent>>
        BY <1>3, <1>4, <1>9 DEF StepFailed, PlanNumbered
    <2>2. QED
        BY <1>1, <1>3, <2>1, StopOnce
<1>10. CASE Dismiss
    <2>1. PICK c \in Calls : c = prompt /\ status[c] \in {"opening", "asking"}
        BY <1>4, <1>10 DEF Dismiss, Shape, ScriptInv, Asking
    <2>2. /\ status' = [status EXCEPT ![c] = "failed"]
          /\ UNCHANGED <<mode, intents, page, signed, sent>>
        BY <1>10, <2>1 DEF Dismiss, script
    <2>3. \A x \in Calls \ {c} : status'[x] = status[x] /\ signed'[x] = signed[x]
        BY <1>4, <2>2 DEF Shape
    <2>4. status[c] # "planned" /\ status[c] \notin PastPrompt
        BY <2>1 DEF PastPrompt
    <2>5. QED
        BY <1>3, <2>2, <2>3, <2>4, MoveOnce
<1>11. ASSUME NEW c \in Calls, Ask(c) \/ Refuse(c) PROVE SentSoFar' /\ RowsRight'
    <2>1. /\ status[c] \in {"idle", "asked"} /\ UNCHANGED <<mode, intents, page, signed, sent>>
          /\ \A x \in Calls \ {c} : status'[x] = status[x] /\ signed'[x] = signed[x]
        BY <1>4, <1>11 DEF Ask, Refuse, script, Shape
    <2>2. status[c] # "planned" /\ status[c] \notin PastPrompt
        BY <2>1 DEF PastPrompt
    <2>3. QED
        BY <1>3, <2>1, <2>2, MoveOnce
<1>12. ASSUME NEW c \in Calls, GoOn(c) \/ Enter(c) \/ Unlocked(c) PROVE SentSoFar' /\ RowsRight'
    <2>1. status[c] \in {"closing", "opened", "opening", "asking"}
        BY <1>12 DEF GoOn, Enter, Unlocked
    <2>2. UNCHANGED <<mode, intents, page, signed, sent>>
        BY <1>12 DEF GoOn, Enter, Unlocked, script
    <2>3. GoOn(c) \/ Enter(c) => Open(c) \/ Nest(c)
        BY DEF GoOn, Enter
    <2>4. Unlocked(c) => \E st : status' = [status EXCEPT ![c] = st]
        BY DEF Unlocked
    <2>5. \A x \in Calls \ {c} : status'[x] = status[x]
        BY <1>4, <1>12, <2>3, <2>4, RunMoves DEF Shape
    <2>6. status[c] # "planned" /\ status[c] \notin PastPrompt
        BY <2>1 DEF PastPrompt
    <2>7. QED
        BY <1>3, <2>2, <2>5, <2>6, MoveOnce
<1>13. ASSUME NEW c \in Calls, Closed(c) \/ KeyDerived(c) \/ WrongPassword(c) PROVE SentSoFar' /\ RowsRight'
    <2>1. UNCHANGED <<mode, intents, page, signed, sent, status>>
        BY <1>13 DEF Closed, KeyDerived, WrongPassword, script
    <2>2. SentSoFar'
        BY <1>3, <2>1 DEF SentSoFar
    <2>3. QED
        BY <1>3, <2>1, <2>2, RowsKept
<1>14. ASSUME NEW c \in Calls, Done(c) \/ Throw(c) PROVE SentSoFar' /\ RowsRight'
    <2>1. PICK st \in {"done", "failed"} : Over(c, st) /\ status[c] \in {"executing", "barred"}
        BY <1>14 DEF Done, Throw
    <2>2. /\ status' = [status EXCEPT ![c] = st] /\ signed' = [signed EXCEPT ![c] = 0]
          /\ UNCHANGED <<mode, intents, page, sent>>
        BY <2>1 DEF Over, script
    <2>3. /\ \A x \in Calls \ {c} : status'[x] = status[x] /\ signed'[x] = signed[x]
          /\ status'[c] \in {"done", "failed"}
        BY <1>4, <2>2 DEF Shape
    <2>4. QED
        BY <1>3, <2>1, <2>2, <2>3, MoveOnce
<1>15. ASSUME NEW c \in Calls, RecordPlanned(c) \/ Sign(c) PROVE SentSoFar' /\ RowsRight'
    BY <1>3, <1>15, RecordPlannedOnce, SignOnce
<1>16. ASSUME NEW c \in Calls, RecordLive(c) PROVE SentSoFar' /\ RowsRight'
    <2>1. /\ status[c] = "asked" /\ ~ Planning /\ Run(c)
          /\ UNCHANGED <<mode, page, sent, signed>>
        BY <1>16 DEF RecordLive, script
    <2>2. \A x \in Calls \ {c} : status'[x] = status[x]
        BY <1>4, <2>1, RunMoves
    <2>3. {c} \in SUBSET Calls /\ status[c] \notin PastPrompt
        BY <2>1 DEF PastPrompt
    <2>4. SentSoFar'
        BY <1>3, <2>1, <2>2, <2>3, SentSoFarMoves
    <2>5. ~ Executing /\ approvals = 0
        BY <1>1, <1>4, <2>1, CallsAssumption DEF Approved, RestOK
    <2>6. ~ Planning' /\ ~ Executing' /\ approvals' = 0
        BY <2>1, <2>5 DEF Planning, Executing, page
    <2>7. QED
        BY <2>4, <2>6 DEF RowsRight
<1>17. QED
    BY <1>5, <1>6, <1>7, <1>8, <1>9, <1>10, <1>11, <1>12, <1>13, <1>14, <1>15, <1>16 DEF Next

LEMMA OnceInvariant == Spec => []OnceInv
<1>1. Init => OnceInv
    <2> SUFFICES ASSUME Init PROVE OnceInv
        OBVIOUS
    <2>1. /\ approvals = 0 /\ step = 0 /\ shown = <<>> /\ intents = <<>>
          /\ \A c \in Calls : sent[c] = 0 /\ status[c] = "idle"
        BY DEF Init
    <2>2. Approved
        BY <2>1 DEF Approved, Executing
    <2>3. SentSoFar
        BY <2>1 DEF SentSoFar
    <2>4. RowsRight
        BY <2>1 DEF RowsRight, Executing
    <2>5. QED
        BY <2>2, <2>3, <2>4 DEF OnceInv
<1>2. ScriptInv /\ RestOK /\ OnceInv /\ [Next]_vars => OnceInv'
    BY OnceNext
<1>3. QED
    BY <1>1, <1>2, RestHolds, ScriptInvariant, PTL DEF Spec

\* As long as the steps of a plan have numbers of their own no intent is
\* executed twice, whatever fails, is aborted or left, and however often the
\* user approves.
THEOREM NumberedCallsAreSentOnce == Spec => []SentOnceIfNumbered
<1>1. OnceInv => SentOnceIfNumbered
    BY DEF OnceInv, PlanNumbered, Numbered, SentSoFar, SentOnceIfNumbered
<1>2. QED
    BY <1>1, OnceInvariant, PTL

\* And then there is no second approval: after the first, whether it went
\* through, failed or was aborted, every row says how its intent ended.
THEOREM NumberedPlanIsApprovedOnce == Spec => [][Numbered /\ Approve => approvals = 0]_vars
<1>1. ScriptInv /\ RestOK /\ OnceInv => (Numbered /\ Approve => approvals = 0)
    <2>1. ASSUME RestOK, OnceInv, Numbered, Approve, approvals # 0 PROVE FALSE
        <3>1. approvals > 0
            BY <2>1, CallsAssumption DEF RestOK
        <3>2. PlanFinished
            BY <2>1, <3>1 DEF OnceInv, PlanNumbered, RowsRight, Approve, PlanFinished, Ended
        <3>3. QED
            BY <2>1, <3>2 DEF Approve
    <2>2. QED
        BY <2>1
<1>2. QED
    BY <1>1, OnceInvariant, RestHolds, ScriptInvariant, PTL DEF Spec
=============================================================================
