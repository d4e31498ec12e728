SPECIFICATION Spec
CONSTANTS
  b1 = b1  b2 = b2  b3 = b3  b4 = b4  c3 = c3  c4 = c4  d3 = d3  e1 = e1  e2 = e2  k1 = k1  k2 = k2
  NoBlock = NoBlock
  Junk = Junk
  Blocks <- MCBlocks
  PrevHash <- MCPrev
  Verdict <- MCVerdict
  AutoSigned <- OnlyFirst
  Extras <- MCExtras
  ExtraPrev <- MCExtraPrev
  ExtraVerdict <- GoodExtras
  PrevExtras <- MCPrevExtras
  NextExtras <- MCNextExtras
  Chains <- Forks
  WrongDumps <- Wrong
  MaxBlock = 4
  RecvCount = 2
  InitCount = 2
  Word = 64
  Verification = TRUE
  Version = 1
  MaxCrashes = 1
  MaxFails = 1
  OpenMayFail = FALSE
INVARIANT CompleteBelowNext
