------------------------------- MODULE MCConn -------------------------------
\* Small instances of ConnServer for TLC.
EXTENDS ConnServer, TLC

\* Addresses and descriptors are interchangeable.
Symmetry == Permutations(Thds) \cup Permutations(Fds)
=============================================================================
