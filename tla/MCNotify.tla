------------------------------ MODULE MCNotify ------------------------------
\* Small instances of NotifyService for TLC.
EXTENDS NotifyService, TLC

\* Threads, users and addresses are interchangeable.
Symmetry == Permutations(Users) \cup Permutations(Conns)
            \cup Permutations(Alarms) \cup Permutations(Addr)
=============================================================================
