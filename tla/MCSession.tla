------------------------------ MODULE MCSession ------------------------------
(* A batch with two nested operations, an independent operation of the same  *)
(* wallet, and one of another wallet.                                        *)
EXTENDS Session

CONSTANTS batch, step1, step2, send, other, walletA, walletB

Nesting == [o \in Ops |->
               IF o \in {step1, step2} THEN batch ELSE None]
Wallets == [o \in Ops |->
               IF o = other THEN walletB ELSE walletA]

=============================================================================
