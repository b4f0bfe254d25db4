--------------------------- MODULE MCConnectionPool ---------------------------
\* ConnectionPool on small instances; threads and connections are symmetric.
EXTENDS ConnectionPool, TLC

Symmetry == Permutations(Thread) \cup Permutations(Conn)
===============================================================================
