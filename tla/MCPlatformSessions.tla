-------------------------- MODULE MCPlatformSessions --------------------------
(* Avalanche and EVM, whose logout leaves the listener on the extension, and *)
(* Solana, whose logout removes it; two passes may overlap.                   *)
EXTENDS PlatformSessions, TLC

CONSTANTS avalanche, evm, solana, p1, p2

MCRank == (avalanche :> 1) @@ (evm :> 2) @@ (solana :> 3)
PassSymmetry == Permutations({p1, p2})
=============================================================================
