----------------------------- MODULE EnginePool -----------------------------
(***************************************************************************)
(* Requests served by WorkexEnginePool (workex-runtime/src/engine.rs) in   *)
(* the two servers of workex-cli, the dev server (main.rs) and the workerd *)
(* compatible one (workerd_compat.rs), and by a single WorkexEngine, as    *)
(* worker_test.rs of workex-bench does.                                    *)
(*                                                                         *)
(* The pool is behind a mutex that a connection holds from taking a        *)
(* context to giving it back, the outbound fetch of the handler included,  *)
(* which blocks.  A panic under the lock poisons the mutex: lock().unwrap()*)
(* then panics for every later request, which ends its connection.         *)
(* execute_worker takes &mut self; mutex stands for that borrow as well.   *)
(* No interrupt handler or time limit is set in a context: JavaScript that *)
(* does not come to an end, in the handler or in the jobs it set going,    *)
(* keeps the mutex for ever.                                               *)
(***************************************************************************)
EXTENDS Integers, Sequences, FiniteSets

CONSTANTS
  Conns,        (* the tasks of the connections                            *)
  Handlers,     (* what a request makes the script do, see JsContext; with *)
                (* the method it is sent with, and calls: whether the      *)
                (* handler awaits an outbound fetch and passes it on       *)
  Upstream,     (* status of an outbound response; 0 stands for a failure  *)
  BlockingPanics, (* a blocking client panics in a tokio task: debug builds *)
  None,
  PoolSize,     (* pool_size                                               *)
  MaxRequests   (* bound: requests received                                *)

ASSUME PoolAssumption ==
  /\ PoolSize \in Nat \ {0} /\ MaxRequests \in Nat
  /\ {None, "poisoned"} \cap Conns = {}

ASSUME HandlersAssumption ==
  /\ Upstream \subseteq Nat
  /\ Handlers \subseteq
       [method : STRING, calls : BOOLEAN, settles : BOOLEAN, hops : Nat, status : Nat,
        returns : {"response", "object", "string", "nothing", "exception", "promise",
                   "deferred", "rejected", "loops"}]

J == INSTANCE JsContext

VARIABLES
  server,    (* which program runs                                         *)
  pool,      (* the idle contexts: a stack                                 *)
  mutex,     (* the connection that holds the lock, None, or "poisoned"    *)
  context,   (* the context in use                                         *)
  round,     (* which call of the handler execute_worker is at             *)
  pc,        (* per connection                                             *)
  handler,   (* per request: what it makes the script do                   *)
  seen,      (* per request: the method the script was given               *)
  calls,     (* per request: calls of the handler                          *)
  answer     (* per request: pending, error (500), dropped or a response   *)

vars == <<server, pool, mutex, context, round, pc, handler, seen, calls, answer>>

Servers == {"dev", "workerd", "engine"}
Received == DOMAIN handler

Is(kind) == [kind |-> kind]
Answer(response) == [kind |-> "response", request |-> response.request,
                     status |-> response.status]

(* The request a connection is at: pc is a record of step and number.      *)
At(c, step) == pc[c].at = step
Goto(c, step) == pc' = [pc EXCEPT ![c].at = step]
Current(c) == handler[pc[c].request]

Init ==
  /\ server \in Servers
  /\ pool = IF server = "engine" THEN <<J!Fresh>> ELSE [k \in 1 .. PoolSize |-> J!Fresh]
  /\ mutex = None
  /\ context = None
  /\ round = 1
  /\ pc = [c \in Conns |-> [at |-> "reading", request |-> 0]]
  /\ handler = <<>>
  /\ seen = <<>>
  /\ calls = <<>>
  /\ answer = <<>>

(* The methods the servers know; any other is presented as a GET.          *)
Known == [dev     |-> {"GET", "POST", "PUT", "DELETE", "PATCH", "HEAD", "OPTIONS"},
          engine  |-> {"GET", "POST", "PUT", "DELETE", "PATCH", "HEAD", "OPTIONS"},
          workerd |-> {"GET", "POST", "PUT", "DELETE"}]

(* hyper_to_workex_request: method and url; headers and body are dropped.  *)
Presented(method) == IF method \in Known[server] THEN method ELSE "GET"

(* WorkexEngine::new registers no fetch: a handler that awaits one rejects *)
(* its promise there.                                                      *)
Behaviour(h) ==
  IF server = "engine" /\ h.calls THEN [h EXCEPT !.calls = FALSE, !.returns = "rejected"] ELSE h

Receive(c, h) ==
  /\ At(c, "reading")
  /\ Len(handler) < MaxRequests
  /\ handler' = Append(handler, Behaviour(h))
  /\ seen' = Append(seen, Presented(h.method))
  /\ calls' = Append(calls, 0)
  /\ answer' = Append(answer, Is("pending"))
  /\ pc' = [pc EXCEPT ![c] = [at |-> "locking", request |-> Len(handler) + 1]]
  /\ UNCHANGED <<server, pool, mutex, context, round>>

Pop(stack) == SubSeq(stack, 1, Len(stack) - 1)

(* pool.lock(), then the top context or a new one.                         *)
Lock(c) ==
  /\ At(c, "locking")
  /\ mutex = None
  /\ mutex' = c
  /\ context' = IF pool = <<>> THEN J!Fresh ELSE pool[Len(pool)]
  /\ pool' = IF pool = <<>> THEN pool ELSE Pop(pool)
  /\ round' = 1
  /\ Goto(c, "calling")
  /\ UNCHANGED <<server, handler, seen, calls, answer>>

(* The connection ends without an answer to its request.                   *)
Drop(c) ==
  /\ answer' = [answer EXCEPT ![pc[c].request] = Is("dropped")]
  /\ pc' = [pc EXCEPT ![c] = [at |-> "closed", request |-> 0]]

LockPoisoned(c) ==
  /\ At(c, "locking")
  /\ mutex = "poisoned"
  /\ Drop(c)
  /\ UNCHANGED <<server, pool, mutex, context, round, handler, seen, calls>>

(* The handler runs up to its outbound fetch, which blocks the thread.     *)
FetchOut(c) ==
  /\ At(c, "calling")
  /\ Current(c).calls
  /\ Goto(c, "fetching")
  /\ UNCHANGED <<server, pool, mutex, context, round, handler, seen, calls, answer>>

(* It returns or fails; the handler passes what it got on as its response. *)
FetchReturns(c, status) ==
  /\ At(c, "fetching")
  /\ handler' = [handler EXCEPT ![pc[c].request].status = status]
  /\ Goto(c, "fetched")
  /\ UNCHANGED <<server, pool, mutex, context, round, seen, calls, answer>>

(* In a debug build reqwest::blocking panics inside a tokio task: the lock *)
(* is poisoned, the context lost.                                          *)
FetchPanics(c) ==
  /\ At(c, "fetching")
  /\ BlockingPanics
  /\ mutex' = "poisoned"
  /\ context' = None
  /\ Drop(c)
  /\ UNCHANGED <<server, pool, round, handler, seen, calls>>

Ready(c) == At(c, "fetched") \/ (At(c, "calling") /\ ~Current(c).calls)

(* The handler returns to the dispatcher.  execute_worker calls it first   *)
(* without listening to the result.                                        *)
Invoke(c) ==
  LET r == pc[c].request
      h == Current(c)
  IN
  /\ Ready(c)
  /\ h.returns # "loops"
  /\ calls' = [calls EXCEPT ![r] = @ + 1]
  /\ context' = IF server # "engine" THEN J!Dispatch(context, r, h)
                ELSE IF round = 1 THEN J!Called(context, h)
                ELSE J!ResetAndDispatch(context, r, h)
  /\ Goto(c, IF h.returns = "exception" THEN "failed" ELSE "draining")
  /\ UNCHANGED <<server, pool, mutex, round, handler, seen, answer>>

(* Or it never does, or its jobs never run out: the lock stays with the    *)
(* connection, which runs on.                                              *)
NeverReturns(c) ==
  /\ Ready(c)
  /\ Current(c).returns = "loops"
  /\ calls' = [calls EXCEPT ![pc[c].request] = @ + 1]
  /\ Goto(c, "looping")
  /\ UNCHANGED <<server, pool, mutex, context, round, handler, seen, answer>>

RunOn(c) ==
  /\ At(c, "looping")
  /\ UNCHANGED vars

(* while ctx.execute_pending_job() {}                                      *)
RunJob(c) ==
  /\ At(c, "draining")
  /\ context.jobs # <<>>
  /\ context' = J!RunJob(context)
  /\ UNCHANGED <<server, pool, mutex, round, pc, handler, seen, calls, answer>>

Drained(c) == At(c, "draining") /\ context.jobs = <<>>

(* call_result.is_object(): a promise, or an object that is no Response.   *)
IsObject(h) == J!IsPromise(h) \/ h.returns = "object"

(* Mutant: every promise is asked for by a second call.                    *)
SecondRoundAlways(c) ==
  /\ Drained(c)
  /\ round = 1
  /\ J!IsPromise(Current(c))
  /\ round' = 2
  /\ Goto(c, "calling")
  /\ UNCHANGED <<server, pool, mutex, context, handler, seen, calls, answer>>

(* execute_worker: the first call returned an object; it calls again.      *)
SecondRound(c) ==
  /\ Drained(c)
  /\ server = "engine"
  /\ round = 1
  /\ IsObject(Current(c))
  /\ round' = 2
  /\ Goto(c, "calling")
  /\ UNCHANGED <<server, pool, mutex, context, handler, seen, calls, answer>>

(* Mutant: the global is read also when the result came back directly.     *)
ResultGlobal(r, h) ==
  IF context.resolved # None THEN Answer(J!Extract(context.resolved)) ELSE Is("error")

(* A response returned directly is used as it is; execute_worker accepts a *)
(* string as well.  Otherwise the global is read.                          *)
Result(r, h) ==
  IF h.returns = "response" THEN Answer(J!Extract(J!ResponseOf(r, h)))
  ELSE IF h.returns = "string"
       THEN IF server = "engine" THEN Answer([request |-> r, status |-> 200]) ELSE Is("error")
  ELSE IF h.returns = (IF server = "engine" THEN "nothing" ELSE "object") THEN Is("error")
  ELSE IF context.resolved # None THEN Answer(J!Extract(context.resolved)) ELSE Is("error")

(* The context goes back to the pool also after an error; the engine keeps *)
(* its one.                                                                *)
GiveBack(result) == IF Len(pool) < PoolSize THEN Append(pool, context) ELSE pool

Release(c, result) ==
  /\ answer' = [answer EXCEPT ![pc[c].request] = result]
  /\ pool' = GiveBack(result)
  /\ context' = None
  /\ mutex' = None
  /\ Goto(c, "replying")
  /\ UNCHANGED <<server, round, handler, seen, calls>>

Finish(c) ==
  /\ Drained(c)
  /\ ~(server = "engine" /\ round = 1 /\ IsObject(Current(c)))
  /\ Release(c, Result(pc[c].request, Current(c)))

(* Mutant: the early return of an exception leaves the pool locked.        *)
FailLocked(c) ==
  /\ At(c, "failed")
  /\ answer' = [answer EXCEPT ![pc[c].request] = Is("error")]
  /\ Goto(c, "replying")
  /\ UNCHANGED <<server, pool, mutex, context, round, handler, seen, calls>>

(* An exception returns with ? before the pending jobs are run.            *)
Fail(c) ==
  /\ At(c, "failed")
  /\ Release(c, Is("error"))

(* workex_to_hyper_response: http accepts a status of three digits, and    *)
(* the unwrap of any other panics, with the lock released.                 *)
Encodes(result) == result.kind = "error" \/ result.status \in 100 .. 999

Reply(c) ==
  /\ At(c, "replying")
  /\ IF server = "engine" \/ Encodes(answer[pc[c].request])
     THEN /\ pc' = [pc EXCEPT ![c] = [at |-> "reading", request |-> 0]]
          /\ UNCHANGED answer
     ELSE Drop(c)
  /\ UNCHANGED <<server, pool, mutex, context, round, handler, seen, calls>>

(* The client connects again.                                              *)
Accept(c) ==
  /\ At(c, "closed")
  /\ Goto(c, "reading")
  /\ UNCHANGED <<server, pool, mutex, context, round, handler, seen, calls, answer>>

Serve(c) ==
  \/ Lock(c) \/ LockPoisoned(c) \/ FetchOut(c) \/ Invoke(c) \/ NeverReturns(c)
  \/ RunJob(c) \/ SecondRound(c) \/ Finish(c) \/ Fail(c) \/ Reply(c)
  \/ FetchPanics(c) \/ \E status \in Upstream : FetchReturns(c, status)

Done ==
  /\ Len(handler) = MaxRequests
  /\ \A c \in Conns : At(c, "reading")
  /\ UNCHANGED vars

Next ==
  \/ \E c \in Conns : Serve(c) \/ RunOn(c) \/ Accept(c)
  \/ \E c \in Conns, h \in Handlers : Receive(c, h)
  \/ Done

Spec == Init /\ [][Next]_vars

(* tokio polls ready tasks and the outbound client has a timeout of 30 s.  *)
(* The mutex promises no order among its waiters; weak fairness is enough  *)
(* because the requests are bounded.                                       *)
FairSpec == Spec /\ \A c \in Conns : WF_vars(Serve(c))

-----------------------------------------------------------------------------
IsResponse(a) == a.kind = "response"

(* A Response the script made is delivered at most once.  A promise of one *)
(* request that settles during another may answer that one (the global is  *)
(* shared), but then nothing else: no response is left over in a reused    *)
(* context.                                                                *)
DeliveredOnce ==
  \A r, q \in Received :
    r # q /\ IsResponse(answer[r]) /\ IsResponse(answer[q]) =>
      answer[r].request # answer[q].request

(* A response that the handler returns directly is the answer, whatever    *)
(* the jobs of other requests store in the global afterwards; and who got  *)
(* no response of his own never got one by returning an exception.         *)
DirectIsOwn ==
  \A r \in Received : IsResponse(answer[r]) =>
    /\ handler[r].returns = "response" => answer[r].request = r
    /\ handler[r].returns # "exception"

(* The warm pool calls the handler once per request, so that its writes    *)
(* happen once.                                                            *)
HandlerCalledOnce == server # "engine" => \A r \in Received : calls[r] <= 1

(* Every request ends, with an answer or with its connection, also when    *)
(* handlers throw, never settle, or poison the mutex for all later ones;   *)
(* unless one that never returns has the mutex.                            *)
EveryRequestEnds ==
  \A c \in Conns :
    (pc[c].request # 0) ~> (pc[c].request = 0 \/ \E d \in Conns : At(d, "looping"))
=============================================================================
