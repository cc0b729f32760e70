------------------------------ MODULE MCLevelList ------------------------------
EXTENDS LevelList

\* What a freed block still holds is read by nobody (LinksSound, SweepVisitsAll).
ListView ==
  <<vars, [i \in live |-> node[i]], level, order_index, sweep>>
===============================================================================
