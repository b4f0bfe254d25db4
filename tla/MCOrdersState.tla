---------------------------- MODULE MCOrdersState ----------------------------
\* OrdersState on small instances; orders are interchangeable.
EXTENDS OrdersState, TLC

Symmetry == Permutations(OrderIds)
===============================================================================
