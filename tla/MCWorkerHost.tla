---------------------------- MODULE MCWorkerHost ----------------------------
(* The host with interchangeable threads, scripts and hashes, and a        *)
(* handler for each way to leave something in a context.                   *)
EXTENDS WorkerHost, TLC

Symmetry == Permutations(Threads) \cup Permutations(Scripts) \cup Permutations(Hashes)

Plain == [settles |-> FALSE, returns |-> "promise", hops |-> 0, status |-> 200]

MCHandlers == {
  [Plain EXCEPT !.returns = "deferred"],
  [Plain EXCEPT !.settles = TRUE],
  [Plain EXCEPT !.settles = TRUE, !.returns = "exception"] }
=============================================================================
