----------------------------- MODULE MCScriptRun -----------------------------
(* Two calls of one wallet, one of another that takes two transactions, and *)
(* one of a Ledger or extension.                                            *)
EXTENDS ScriptRun, TLC

CONSTANTS c1, c2, c3, c4, w1, w2, ledger, avax, sol

MCCalls == {c1, c2, c3, c4}
MCWalletOf == (c1 :> w1) @@ (c2 :> w1) @@ (c3 :> w2) @@ (c4 :> ledger)
MCKeyOf == (c1 :> avax) @@ (c2 :> avax) @@ (c3 :> sol) @@ (c4 :> avax)
MCAmount == (c1 :> 1) @@ (c2 :> 1) @@ (c3 :> 1) @@ (c4 :> 2)
MCSignatures == (c1 :> 1) @@ (c2 :> 1) @@ (c3 :> 2) @@ (c4 :> 1)
MCLimit == (avax :> 2) @@ (sol :> 1)

\* Every intent in the base units of its budget line.
MCFromX == [c \in MCCalls |-> 1]
\* The first is a move out of the C-Chain: it takes two transactions, and one of
\* its base units is worth two of the budget line, instead of 10^9.
MCFromC == [MCFromX EXCEPT ![c1] = 2]
MCMoves == [MCSignatures EXCEPT ![c1] = 2]
MCAlike == Permutations({c1, c2})
=============================================================================
