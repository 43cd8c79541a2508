--------------------------- MODULE SharedRuntime ---------------------------
(***************************************************************************)
(* SharedRuntime (workex-runtime/src/shared_runtime.rs): the contexts of a *)
(* script on one QuickJS runtime, and the requests that threads handle on  *)
(* them.  All the runtimes of a process are kept here, by number.          *)
(*                                                                         *)
(* The idle contexts are behind a mutex that is held for one push or pop.  *)
(* ctx.with locks the runtime (the parallel feature of rquickjs), so that  *)
(* one thread at a time runs JavaScript on it; the queue of pending jobs   *)
(* belongs to the runtime, the globals to each context.                    *)
(***************************************************************************)
EXTENDS Integers, Sequences, FiniteSets

CONSTANTS
  Threads,
  Handlers,   (* what a request makes the script do, see JsContext         *)
  None,
  MaxPool,    (* max_pool, the contexts kept warm                          *)
  Runtimes    (* the runtimes that may be created                          *)

J == INSTANCE JsContext

VARIABLES
  contexts,  (* per runtime: the globals of each context created on it     *)
  idle,      (* per runtime: the stack of idle contexts                    *)
  jobs,      (* per runtime: the queue of pending jobs                     *)
  locked,    (* per runtime: the thread in ctx.with                        *)
  at,        (* per thread: where it is in handle                          *)
  request,   (* per thread: the request it handles                         *)
  requests   (* per request: runtime, context, handler and reply           *)

sharedVars == <<contexts, idle, jobs, locked, at, request, requests>>

Globals == [resolved |-> None, deferred |-> <<>>]

SharedInit ==
  /\ contexts = [r \in Runtimes |-> <<>>]
  /\ idle = [r \in Runtimes |-> <<>>]
  /\ jobs = [r \in Runtimes |-> <<>>]
  /\ locked = [r \in Runtimes |-> None]
  /\ at = [t \in Threads |-> "away"]
  /\ request = [t \in Threads |-> 0]
  /\ requests = <<>>

(* new: the pool is filled before the runtime is used.                     *)
New(r) ==
  /\ contexts' = [contexts EXCEPT ![r] = [k \in 1 .. MaxPool |-> Globals]]
  /\ idle' = [idle EXCEPT ![r] = [k \in 1 .. MaxPool |-> k]]
  /\ UNCHANGED <<jobs, locked, at, request, requests>>

Runtime(t) == requests[request[t]].runtime
ContextOf(t) == requests[request[t]].context
Handler(t) == requests[request[t]].handler

(* handle(request) is called on runtime r.                                 *)
Begin(t, r, h) ==
  /\ at[t] = "asking"
  /\ requests' = Append(requests, [runtime |-> r, context |-> 0, handler |-> h,
                                   reply |-> None])
  /\ request' = [request EXCEPT ![t] = Len(requests) + 1]
  /\ at' = [at EXCEPT ![t] = "acquiring"]
  /\ UNCHANGED <<contexts, idle, jobs, locked>>

Take(t, ctx) ==
  /\ requests' = [requests EXCEPT ![request[t]].context = ctx]
  /\ at' = [at EXCEPT ![t] = "acquired"]
  /\ UNCHANGED request

(* Mutant: the context that is handed out stays in the pool.               *)
PopNot(stack) == stack

Pop(stack) == SubSeq(stack, 1, Len(stack) - 1)

(* acquire: the top of the idle contexts.                                  *)
AcquireIdle(t) ==
  LET stack == idle[Runtime(t)] IN
  /\ at[t] = "acquiring"
  /\ stack # <<>>
  /\ Take(t, stack[Len(stack)])
  /\ idle' = [idle EXCEPT ![Runtime(t)] = Pop(stack)]
  /\ UNCHANGED <<contexts, jobs, locked>>

(* With none, the lock of the pool is dropped and a context is created.    *)
AcquireNone(t) ==
  /\ at[t] = "acquiring"
  /\ idle[Runtime(t)] = <<>>
  /\ at' = [at EXCEPT ![t] = "creating"]
  /\ UNCHANGED <<contexts, idle, jobs, locked, request, requests>>

CreateContext(t) ==
  /\ at[t] = "creating"
  /\ locked[Runtime(t)] = None
  /\ contexts' = [contexts EXCEPT ![Runtime(t)] = Append(@, Globals)]
  /\ Take(t, Len(contexts[Runtime(t)]) + 1)
  /\ UNCHANGED <<idle, jobs, locked>>

(* The context reaches the memory limit of the runtime: the call returns   *)
(* the error.                                                              *)
CreateContextFails(t) ==
  /\ at[t] = "creating"
  /\ locked[Runtime(t)] = None
  /\ Len(contexts[Runtime(t)]) >= MaxPool
  /\ requests' = [requests EXCEPT ![request[t]].reply = J!Fresh]
  /\ at' = [at EXCEPT ![t] = "away"]
  /\ request' = [request EXCEPT ![t] = 0]
  /\ UNCHANGED <<contexts, idle, jobs, locked>>

(* call_fetch: the lock of the runtime, and the script up to the return of *)
(* the handler.                                                            *)
CallFetch(t) ==
  LET r == Runtime(t)
      globals == contexts[r][ContextOf(t)]
      after == J!ResetAndDispatch([resolved |-> globals.resolved,
                 deferred |-> globals.deferred, jobs |-> jobs[r]], request[t], Handler(t))
  IN
  /\ at[t] = "acquired"
  /\ locked[r] = None
  /\ locked' = [locked EXCEPT ![r] = t]
  /\ contexts' = [contexts EXCEPT ![r][ContextOf(t)] =
                    [resolved |-> after.resolved, deferred |-> after.deferred]]
  /\ jobs' = [jobs EXCEPT ![r] = after.jobs]
  /\ at' = [at EXCEPT ![t] = IF Handler(t).returns = "exception" THEN "failed" ELSE "draining"]
  /\ UNCHANGED <<idle, request, requests>>

(* Mutant: a job stores its value in the context that is running.          *)
ContextRunning(t, job) == ContextOf(t)

(* A job runs in the context that queued it.                               *)
ContextOfJob(t, job) == requests[job.response.request].context

(* execute_pending_job: a job of any context of the runtime.               *)
RunJob(t) ==
  LET r == Runtime(t)
      ctx == ContextOfJob(t, Head(jobs[r]))
      after == J!RunJob([resolved |-> contexts[r][ctx].resolved, jobs |-> jobs[r]])
  IN
  /\ at[t] = "draining"
  /\ jobs[r] # <<>>
  /\ jobs' = [jobs EXCEPT ![r] = after.jobs]
  /\ contexts' = [contexts EXCEPT ![r][ctx].resolved = after.resolved]
  /\ UNCHANGED <<idle, locked, at, request, requests>>

(* Mutant: call_fetch(..)? returns an error before release is reached.      *)
EndFetchEarly(t) ==
  LET r == Runtime(t)
      resolved == contexts[r][ContextOf(t)].resolved
      failed == at[t] = "failed" \/ resolved = None
  IN
  /\ \/ at[t] = "failed"
     \/ at[t] = "draining" /\ jobs[r] = <<>>
  /\ requests' = [requests EXCEPT ![request[t]].reply =
       IF failed THEN J!Fresh ELSE J!Extract(resolved)]
  /\ locked' = [locked EXCEPT ![r] = None]
  /\ at' = [at EXCEPT ![t] = IF failed THEN "away" ELSE "releasing"]
  /\ UNCHANGED <<contexts, idle, jobs, request>>

(* The end of ctx.with: an exception left before the jobs; otherwise the   *)
(* global is the response.                                                 *)
EndFetch(t) ==
  LET r == Runtime(t)
      resolved == contexts[r][ContextOf(t)].resolved
  IN
  /\ \/ at[t] = "failed"
     \/ at[t] = "draining" /\ jobs[r] = <<>>
  /\ requests' = [requests EXCEPT ![request[t]].reply =
       IF at[t] = "draining" /\ resolved # None THEN J!Extract(resolved) ELSE J!Fresh]
  /\ locked' = [locked EXCEPT ![r] = None]
  /\ at' = [at EXCEPT ![t] = "releasing"]
  /\ UNCHANGED <<contexts, idle, jobs, request>>

HasRoom(r) == Len(idle[r]) < MaxPool

(* release: the context goes back, or is dropped when the pool is full.    *)
Release(t) ==
  LET r == Runtime(t) IN
  /\ at[t] = "releasing"
  /\ idle' = [idle EXCEPT ![r] = IF HasRoom(r) THEN Append(@, ContextOf(t)) ELSE @]
  /\ at' = [at EXCEPT ![t] = "away"]
  /\ request' = [request EXCEPT ![t] = 0]
  /\ UNCHANGED <<contexts, jobs, locked, requests>>

Serve(t) ==
  \/ AcquireIdle(t) \/ AcquireNone(t) \/ CreateContext(t) \/ CreateContextFails(t)
  \/ CallFetch(t) \/ RunJob(t) \/ EndFetch(t) \/ Release(t)
=============================================================================
