---------------------------- MODULE MCEnginePool ----------------------------
(* The engine pool with one handler for each way in which handlers differ  *)
(* to their host.                                                          *)
EXTENDS EnginePool

Plain == [method |-> "GET", calls |-> FALSE, settles |-> FALSE,
          returns |-> "promise", hops |-> 0, status |-> 200]

MCHandlers == {
  [Plain EXCEPT !.returns = "response", !.method = "POST", !.status = 1000],
  [Plain EXCEPT !.returns = "nothing", !.method = "PATCH"],
  [Plain EXCEPT !.returns = "string", !.method = "HEAD"],
  [Plain EXCEPT !.returns = "object"],
  [Plain EXCEPT !.returns = "loops"],
  [Plain EXCEPT !.calls = TRUE, !.hops = 1],
  [Plain EXCEPT !.returns = "deferred"],
  [Plain EXCEPT !.returns = "deferred", !.hops = 1],
  [Plain EXCEPT !.settles = TRUE, !.status = 65936],
  [Plain EXCEPT !.settles = TRUE, !.returns = "exception"],
  [Plain EXCEPT !.settles = TRUE, !.returns = "response"] }
=============================================================================
