----------------------------- MODULE WorkerHost -----------------------------
(***************************************************************************)
(* Requests for the scripts of several workers: a thread asks the registry *)
(* for the runtime of its script (module RuntimeRegistry) and handles the  *)
(* request on the runtime it got (module SharedRuntime), as the test       *)
(* registry_handles_requests of registry.rs does with one of each.  Time   *)
(* is not limited: a handler that never returns is a thread that stops in  *)
(* ctx.with for ever, as any may, nothing being fair here.                 *)
(***************************************************************************)
EXTENDS RuntimeRegistry

CONSTANTS Handlers, MaxPool

ASSUME PoolAssumption == MaxPool \in Nat /\ None \notin Threads

ASSUME HandlersAssumption ==
  Handlers \subseteq
    [settles : BOOLEAN, hops : Nat, status : Nat,
     returns : {"response", "object", "string", "undefined", "exception", "promise",
                "deferred", "rejected"}]

VARIABLES contexts, idle, jobs, locked, at, request, requests

S == INSTANCE SharedRuntime

sharedVars == <<contexts, idle, jobs, locked, at, request, requests>>
hostVars == <<vars, sharedVars>>

HostInit == Init /\ S!SharedInit

(* The registry's part of a request.  The runtime it creates has its pool  *)
(* of contexts.                                                            *)
GetOrCreate(t) ==
  \/ /\ LookupHit(t) \/ LookupMiss(t) \/ CreateFails(t) \/ Publish(t)
     /\ UNCHANGED sharedVars
  \/ /\ Create(t)
     /\ S!New(Len(made) + 1)

(* A request for script s arrives at a thread that has none.               *)
Arrive(t, s) ==
  /\ at[t] = "away"
  /\ Call(t, s)
  /\ at' = [at EXCEPT ![t] = "asking"]
  /\ UNCHANGED <<contexts, idle, jobs, locked, request, requests>>

(* get_or_create returned a runtime, which handles the request.            *)
Handle(t, h) ==
  /\ pc[t] = "idle"
  /\ answer[t] # None
  /\ S!Begin(t, answer[t], h)
  /\ UNCHANGED vars

(* It returned an error.                                                   *)
Refuse(t) ==
  /\ pc[t] = "idle"
  /\ answer[t] = None
  /\ at[t] = "asking"
  /\ at' = [at EXCEPT ![t] = "away"]
  /\ UNCHANGED <<vars, contexts, idle, jobs, locked, request, requests>>

Serve(t) == S!Serve(t) /\ UNCHANGED vars

HostDone ==
  /\ calls = MaxCalls
  /\ \A t \in Threads : at[t] = "away"
  /\ UNCHANGED hostVars

HostNext ==
  \/ \E t \in Threads : GetOrCreate(t) \/ Serve(t) \/ Refuse(t)
  \/ \E t \in Threads, s \in Scripts : Arrive(t, s)
  \/ \E t \in Threads, h \in Handlers : Handle(t, h)
  \/ HostDone

HostSpec == HostInit /\ [][HostNext]_hostVars

-----------------------------------------------------------------------------
Requests == DOMAIN requests
Replied(q) == requests[q].reply # None /\ "request" \in DOMAIN requests[q].reply

(* Contexts in use: those of the threads between acquire and release.      *)
InUse == {t \in Threads : at[t] \in {"acquired", "failed", "draining", "releasing"}}

(* A context handles one request at a time: threads that are between       *)
(* acquire and release have different contexts, none of them is idle, and  *)
(* none is idle twice.                                                     *)
ContextExclusive ==
  /\ \A t, u \in InUse : t # u =>
       <<S!Runtime(t), S!ContextOf(t)>> # <<S!Runtime(u), S!ContextOf(u)>>
  /\ \A t \in InUse : \A k \in DOMAIN idle[S!Runtime(t)] :
       idle[S!Runtime(t)][k] # S!ContextOf(t)
  /\ \A r \in Runtimes : \A j, k \in DOMAIN idle[r] :
       idle[r][j] = idle[r][k] => j = k

(* The contexts of a runtime never run out: each of the max_pool warm ones *)
(* is idle or with a thread that will give it back, or another is idle in  *)
(* its place, also after handlers threw, requests failed and contexts      *)
(* beyond the pool were made and dropped; and no more than max_pool idle.  *)
PoolKept ==
  \A r \in 1 .. Len(made) :
    /\ Len(idle[r]) <= MaxPool
    /\ MaxPool <= Len(idle[r]) + Cardinality({t \in InUse : S!Runtime(t) = r})

(* Isolation: a reply was made in the context of the request it answers,   *)
(* so of its script, although the jobs of all contexts of a runtime share  *)
(* a queue that any of its threads runs; and no response is given twice.   *)
RepliesIsolated ==
  \A q \in Requests : Replied(q) =>
    LET maker == requests[q].reply.request IN
    /\ requests[maker].runtime = requests[q].runtime
    /\ requests[maker].context = requests[q].context
    /\ \A p \in Requests : p # q /\ Replied(p) => requests[p].reply.request # maker
=============================================================================
