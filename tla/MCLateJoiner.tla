----------------------------- MODULE MCLateJoiner -----------------------------
EXTENDS LateJoiner, TLC

Symmetry == Permutations(OrderId)
===============================================================================
