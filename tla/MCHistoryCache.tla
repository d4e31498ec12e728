--------------------------- MODULE MCHistoryCache ---------------------------
(***************************************************************************)
(* Two tracked addresses: the history of the first takes two pages, the    *)
(* other one has no transactions yet.                                      *)
(***************************************************************************)
EXTENDS HistoryCache, TLC

CONSTANTS a1, a2, t1, t2

MCTxs == {t1, t2}

TwoAddrs == <<a1, a2>>
TwoLedgers == a1 :> <<t1, t2>> @@ a2 :> <<>>
=============================================================================
