-------------------------- MODULE MCJsonRpcRequest --------------------------
EXTENDS JsonRpcRequest

AllSetups == [own: BOOLEAN, ssl: BOOLEAN, pool: BOOLEAN]
Worker == {[own |-> TRUE, ssl |-> FALSE, pool |-> FALSE]}
=============================================================================
