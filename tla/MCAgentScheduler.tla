-------------------------- MODULE MCAgentScheduler --------------------------
(* The scheduler with threads and tasks that are interchangeable.          *)
EXTENDS AgentScheduler, TLC

Symmetry == Permutations(Threads) \cup Permutations(Tasks)
=============================================================================
