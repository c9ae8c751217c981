---------------------------- MODULE MCSwapRecords ----------------------------
(* Two swaps and room for one record: AVAX to BTC by way of BTC.b, which is *)
(* two transactions and then Lombard's, and the newer one, BTC to AVAX with *)
(* its second step.                                                         *)
EXTENDS SwapRecords

MCLegs == [s \in Swaps |-> IF s = 1 THEN 2 ELSE 1]
=============================================================================
