---------------------------- MODULE MCConnectionUse ----------------------------
\* ConnectionUse on small instances; threads and connections are symmetric.
EXTENDS ConnectionUse, TLC

Symmetry == Permutations(Thread) \cup Permutations(Conn)
===============================================================================
