--------------------------- MODULE MCClientServer ---------------------------
(***************************************************************************)
(* Two threads; an address that may connect and one that may not.          *)
(***************************************************************************)
EXTENDS ClientServer

CONSTANTS t1, t2, client, stranger

\* With one of the caches, which are alike here, and with none of the parts.
SomeOrNothing == {{"pool", "history"}, {}}
=============================================================================
