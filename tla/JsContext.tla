----------------------------- MODULE JsContext -----------------------------
(***************************************************************************)
(* What the hosts of workex-runtime see of a QuickJS context: the global   *)
(* __workex_resolved__ through which the response of an asynchronous       *)
(* handler travels, the queue of pending jobs of its runtime, and the      *)
(* promises of earlier requests that wait for something in the script.     *)
(*                                                                         *)
(* A handler (the fetch of a worker's script) is a record:                 *)
(*   settles  it first settles what earlier requests wait for              *)
(*   returns  what it returns: a response, another object, a string,       *)
(*            undefined (nothing), an exception, a promise that settles by *)
(*            itself, one that is deferred to a later request, or one that *)
(*            is rejected; or loops: it never returns                      *)
(*   hops     the jobs before its promise settles (the awaits in it)       *)
(*   status   the status it gives its response                             *)
(***************************************************************************)
EXTENDS Integers, Sequences

CONSTANT None

Fresh == [resolved |-> None, jobs |-> <<>>, deferred |-> <<>>]

(* The polyfill: a status that is 0 or absent is replaced by 200.          *)
PolyfillStatus(s) == IF s = 0 THEN 200 ELSE s

(* try_extract_response: the u32 of the script becomes a u16.              *)
ExtractedStatus(s) == s % 65536

(* The Response object a handler makes for request r.                      *)
ResponseOf(r, handler) ==
  [request |-> r, status |-> PolyfillStatus(handler.status)]

(* WorkexResponse, as Rust reads it from the object.                       *)
Extract(response) == [response EXCEPT !.status = ExtractedStatus(@)]

(* A promise with a then callback that stores its value in the global.     *)
Listening(r, handler) == [response |-> ResponseOf(r, handler), hops |-> handler.hops]

(* The body of the handler: what it settles is queued.                     *)
Called(ctx, handler) ==
  IF handler.settles
  THEN [ctx EXCEPT !.jobs = @ \o ctx.deferred, !.deferred = <<>>]
  ELSE ctx

(* r.then(function(v) { __workex_resolved__ = v; }) on what it returned;   *)
(* the callback of a rejected promise is never called.                     *)
Then(ctx, r, handler) ==
  IF handler.returns = "promise"
  THEN [ctx EXCEPT !.jobs = Append(@, Listening(r, handler))]
  ELSE IF handler.returns = "deferred"
  THEN [ctx EXCEPT !.deferred = Append(@, Listening(r, handler))]
  ELSE ctx

IsPromise(handler) == handler.returns \in {"promise", "deferred", "rejected"}

(* Mutant: the global keeps the value of an earlier request.               *)
DispatchKeeps(ctx, r, handler) ==
  IF handler.returns = "exception" THEN Called(ctx, handler)
  ELSE IF IsPromise(handler) THEN Then(Called(ctx, handler), r, handler)
  ELSE [Called(ctx, handler) EXCEPT !.resolved =
          IF handler.returns = "response" THEN ResponseOf(r, handler) ELSE None]

(* __workex_dispatch__ of a warm context: a promise is listened to and the *)
(* global reset, any other result is stored there; an exception leaves the *)
(* dispatcher at once.  What is no Response counts as None there.          *)
Dispatch(ctx, r, handler) ==
  IF handler.returns = "exception" THEN Called(ctx, handler)
  ELSE IF IsPromise(handler)
  THEN Then([Called(ctx, handler) EXCEPT !.resolved = None], r, handler)
  ELSE [Called(ctx, handler) EXCEPT !.resolved =
          IF handler.returns = "response" THEN ResponseOf(r, handler) ELSE None]

(* The script evaluated by execute_worker and by SharedRuntime: the global *)
(* is reset before the call.                                               *)
ResetAndDispatch(ctx, r, handler) ==
  Dispatch([ctx EXCEPT !.resolved = None], r, handler)

(* execute_pending_job: the first job of the queue; the last hop of a      *)
(* promise stores its response in the global.                              *)
RunJob(ctx) ==
  LET job == Head(ctx.jobs) IN
  IF job.hops = 0
  THEN [ctx EXCEPT !.jobs = Tail(@), !.resolved = job.response]
  ELSE [ctx EXCEPT !.jobs = Append(Tail(@), [job EXCEPT !.hops = @ - 1])]
=============================================================================
