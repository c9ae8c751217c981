----------------------------- MODULE MCSignOnly ------------------------------
(* A batch with a nested operation, an independent operation of the same     *)
(* wallet, one of another wallet, and one of a Ledger.                       *)
EXTENDS SignOnly

CONSTANTS batch, step1, send, other, ledger, walletA, walletB

Nesting == [o \in Ops |-> IF o = step1 THEN batch ELSE None]
Wallets == [o \in Ops |-> IF o = other THEN walletB ELSE walletA]

=============================================================================
