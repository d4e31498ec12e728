--------------------------- MODULE MCCacheReaders ---------------------------
EXTENDS CacheReaders, MCBlocksCache

CONSTANT r1

\* The hash of b3 begins with the digit 3, that of c3 with 4; the others begin
\* with a letter.
MCDigits == [b \in MCBlocks |-> CASE b = b3 -> 3 [] b = c3 -> 4 [] OTHER -> 0]
=============================================================================
