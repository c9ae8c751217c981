----------------------------- MODULE MCFailover ------------------------------
(* Instances of Failover: two mainnet endpoints and, where a networkId has   *)
(* to be left, one testnet endpoint.                                         *)
EXTENDS Failover

CONSTANTS main1, main2, test1, hMain1, hMain2, hTest1, e1, e2

TwoMainnets == <<main1, main2>>
WithTestnet == <<main1, main2, test1>>

Ids   == [n \in {main1, main2, test1} |-> IF n = test1 THEN 5 ELSE 1]
Names == [n \in {main1, main2, test1} |->
            CASE n = main1 -> hMain1 [] n = main2 -> hMain2 [] n = test1 -> hTest1]

=============================================================================
