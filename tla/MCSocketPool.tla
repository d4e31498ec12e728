---------------------------- MODULE MCSocketPool ----------------------------
EXTENDS SocketPool, TLC

CONSTANTS r1, r2, n1, n2, n3, f1, f2, f3, plain, secure

Symmetry == Permutations({r1, r2}) \cup Permutations({n1, n2, n3}) \cup Permutations({f1, f2, f3})
=============================================================================
