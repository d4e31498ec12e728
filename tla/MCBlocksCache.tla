--------------------------- MODULE MCBlocksCache ---------------------------
(***************************************************************************)
(* A chain of four blocks and two forks of it at number 3.                 *)
(*   b2 carries a signature of one core for b1; b3 has no sign             *)
(*   transactions; b4 is signed by two cores; c3 is signed and followed by *)
(*   the state block c4; in d3 one core signs twice.  e1 and e2 are sign   *)
(*   blocks for b3 and b2.                                                 *)
(***************************************************************************)
EXTENDS BlocksCache, TLC

CONSTANTS b1, b2, b3, b4, c3, c4, d3, e1, e2, k1, k2

Core == INSTANCE CoreVerification WITH Cores <- <<k1, k2>>, SignTxLimit <- 7

Main == <<b1, b2, b3, b4>>
OneChain == {Main}
Forks == {Main, <<b1, b2, c3, c4>>, <<b1, b2, d3>>}
MCBlocks == {b1, b2, b3, b4, c3, c4, d3}

MCPrev == b1 :> NoBlock @@ b2 :> b1 @@ b3 :> b2 @@ b4 :> b3 @@ c3 :> b2 @@ c4 :> c3 @@ d3 :> b2

SignTx(core, hash) ==
  [isSignBlockTx |-> TRUE, fromAddress |-> core, toAddress |-> core, data |-> hash]
OtherTx == [isSignBlockTx |-> FALSE, fromAddress |-> k1, toAddress |-> k2, data |-> NoBlock]

MCTxs == b1 :> <<OtherTx>> @@ b2 :> <<SignTx(k1, b1), OtherTx>> @@ b3 :> <<OtherTx>>
           @@ b4 :> <<SignTx(k2, b3), SignTx(k1, b3)>> @@ c3 :> <<SignTx(k1, b2)>>
           @@ c4 :> <<OtherTx>> @@ d3 :> <<SignTx(k1, b2), SignTx(k1, b2)>>

MCVerdict ==
  [b \in MCBlocks |-> IF b = c4 THEN MaxInt ELSE Core!BlockVerification(MCTxs[b], MCPrev[b])]

MCExtras == {e1, e2}
MCExtraPrev == e1 :> b3 @@ e2 :> b2
GoodExtras ==
  e1 :> Core!SignBlockVerification(<<SignTx(k1, b3)>>)
    @@ e2 :> Core!SignBlockVerification(<<SignTx(k1, b2), SignTx(k2, b2)>>)

MCPrevExtras == [b \in MCBlocks |-> CASE b = b4 -> <<e1>> [] b = c3 -> <<e2>> [] OTHER -> <<>>]
MCNextExtras == [b \in MCBlocks |-> CASE b = b3 -> <<e1>> [] b = b2 -> <<e2>> [] OTHER -> <<>>]

OnlyFirst == {n \in Numbers : Core!AutoSignedBlock(<<<<1, 1>>>>, n)}

Wrong == {Junk, c3}
NoWrong == {}
=============================================================================
