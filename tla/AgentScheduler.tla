--------------------------- MODULE AgentScheduler ---------------------------
(***************************************************************************)
(* AgentScheduler (workex-vm/src/scheduler.rs): agents are dispatched, run *)
(* on the caller's thread until they finish or reach an await, wait in the *)
(* slab, and are resumed by the call that brings the result of their I/O.  *)
(*                                                                         *)
(* Threads call dispatch and resume concurrently; Tasks are tokio tasks,   *)
(* each of which runs one dispatch_full (dispatch_many spawns them).  They *)
(* share next_id, an atomic, and the slab, behind a Mutex that is held for *)
(* a single insert or remove: each such critical section is one step here, *)
(* and the run of the VM between two of them, which holds no lock, is a    *)
(* step of its own.                                                        *)
(*                                                                         *)
(* What the VM computes is abstracted (see WorkexVM): a run from one await *)
(* reaches the next one, finishes or fails.  An agent is the number that   *)
(* next_id gave it, and step counts the awaits it has reached.             *)
(***************************************************************************)
EXTENDS Integers, Sequences, FiniteSets

CONSTANTS
  Threads,     (* threads of the callers of dispatch and resume            *)
  Tasks,       (* tokio tasks that run dispatch_full                       *)
  None,        (* the empty Option                                         *)
  MaxAgents,   (* bound: agents started (next_id is a u64)                 *)
  MaxAwaits,   (* bound: awaits in the agents' program                     *)
  MaxRetries   (* bound: resume calls with an answer already delivered     *)

ASSUME SchedulerAssumption ==
  /\ Threads \cap Tasks = {}
  /\ MaxAgents \in Nat
  /\ MaxAwaits \in Nat
  /\ MaxRetries \in Nat

AgentIds == 1 .. MaxAgents

(* A point of an agent's execution: the await it waits at.  It stands for  *)
(* the Continuation (agent_id, ip and saved registers), for the IoRequest  *)
(* the agent makes there, and for the result that answers that request.    *)
Awaits == [agent : AgentIds, step : 1 .. MaxAwaits]

VARIABLES
  slots, free_list, count,  (* suspended: Mutex<ContinuationSlab>          *)
  next_id,                  (* AtomicU64                                   *)
  pc,       (* per worker: idle, running (in vm::run), suspended (run      *)
            (* returned Suspended, lock not yet taken), awaiting (tasks:   *)
            (* in execute_io), finished (tasks)                            *)
  frame,    (* per worker: the agent it runs, the awaits it reached and    *)
            (* the I/O result it was started with                          *)
  pending,  (* Suspended results returned to callers, not yet answered     *)
  answered, (* those for which resume was called and may be called again   *)
  retries,  (* repeated resume calls so far                                *)
  outcome   (* per agent: what its caller saw at the end                   *)

Slab == INSTANCE ContinuationSlab
          WITH Continuations <- Awaits, MaxStored <- MaxAgents

slabVars == <<slots, free_list, count>>
vars == <<slots, free_list, count, next_id, pc, frame, pending, answered,
          retries, outcome>>

Workers == Threads \cup Tasks

(* A Suspended result: the handle, which is the slot of the continuation   *)
(* (scheduler.rs:73), and the request to execute.                          *)
Replies == [handle : 0 .. MaxAgents - 1, request : Awaits]

Frames == [agent : AgentIds, step : 0 .. MaxAwaits, io : Awaits \cup {None}]

ASSUME NoneAssumption == None \notin Awaits \cup Frames

-----------------------------------------------------------------------------
Init ==
  /\ Slab!SlabInit
  /\ next_id = 1
  /\ pc = [w \in Workers |-> "idle"]
  /\ frame = [w \in Workers |-> None]
  /\ pending = {}
  /\ answered = {}
  /\ retries = 0
  /\ outcome = [a \in AgentIds |-> "none"]

(* dispatch, and the start of dispatch_full: fetch_add gives the new agent *)
(* its number, VmFrame::new its frame.                                     *)
Dispatch(w) ==
  /\ pc[w] = "idle"
  /\ next_id <= MaxAgents
  /\ next_id' = next_id + 1
  /\ frame' = [frame EXCEPT ![w] = [agent |-> next_id, step |-> 0, io |-> None]]
  /\ pc' = [pc EXCEPT ![w] = "running"]
  /\ UNCHANGED <<slabVars, pending, answered, retries, outcome>>

(* vm::run reaches the next await; a thread goes on to store the           *)
(* continuation, a task awaits the I/O itself.                             *)
RunToAwait(w) ==
  /\ pc[w] = "running"
  /\ frame[w].step < MaxAwaits
  /\ frame' = [frame EXCEPT ![w].step = @ + 1, ![w].io = None]
  /\ pc' = [pc EXCEPT ![w] = IF w \in Threads THEN "suspended" ELSE "awaiting"]
  /\ UNCHANGED <<slabVars, next_id, pending, answered, retries, outcome>>

(* vm::run returns Done or Error: the agent is over.                       *)
RunToEnd(w) ==
  /\ pc[w] = "running"
  /\ \E result \in {"done", "error"} :
       outcome' = [outcome EXCEPT ![frame[w].agent] = result]
  /\ frame' = [frame EXCEPT ![w] = None]
  /\ pc' = [pc EXCEPT ![w] = IF w \in Threads THEN "idle" ELSE "finished"]
  /\ UNCHANGED <<slabVars, next_id, pending, answered, retries>>

(* Mutant: the caller gets the id of the agent, not the slot, to resume    *)
(* with.                                                                   *)
SuspendByAgentId(t) ==
  LET cont == [agent |-> frame[t].agent, step |-> frame[t].step] IN
  /\ pc[t] = "suspended"
  /\ Slab!Insert(cont)
  /\ pending' = pending \cup {[handle |-> cont.agent, request |-> cont]}
  /\ frame' = [frame EXCEPT ![t] = None]
  /\ pc' = [pc EXCEPT ![t] = "idle"]
  /\ UNCHANGED <<next_id, answered, retries, outcome>>

(* execute, under the lock: the continuation goes into the slab and the    *)
(* caller gets its slot as the handle to resume with.                      *)
Suspend(t) ==
  LET cont == [agent |-> frame[t].agent, step |-> frame[t].step] IN
  /\ pc[t] = "suspended"
  /\ Slab!Insert(cont)
  /\ pending' = pending \cup {[handle |-> Slab!InsertIndex, request |-> cont]}
  /\ frame' = [frame EXCEPT ![t] = None]
  /\ pc' = [pc EXCEPT ![t] = "idle"]
  /\ UNCHANGED <<next_id, answered, retries, outcome>>

(* resume(handle, io_result), under the lock: the continuation found there *)
(* runs on with the result; with none the call returns an error and        *)
(* nothing changes.                                                        *)
Continue(t, reply) ==
  LET cont == Slab!Get(reply.handle) IN
  /\ pc[t] = "idle"
  /\ Slab!Remove(reply.handle)
  /\ IF cont = None
     THEN UNCHANGED <<frame, pc>>
     ELSE /\ frame' = [frame EXCEPT ![t] = [agent |-> cont.agent,
                         step |-> cont.step, io |-> reply.request]]
          /\ pc' = [pc EXCEPT ![t] = "running"]
  /\ UNCHANGED <<next_id, outcome>>

(* A caller resumes with the result of a request it was handed.            *)
Resume(t, reply) ==
  /\ reply \in pending
  /\ Continue(t, reply)
  /\ pending' = pending \ {reply}
  /\ answered' = IF retries < MaxRetries THEN answered \cup {reply} ELSE answered
  /\ UNCHANGED retries

(* A caller delivers again a result it has delivered already.              *)
ResumeAgain(t, reply) ==
  /\ reply \in answered
  /\ retries < MaxRetries
  /\ Continue(t, reply)
  /\ retries' = retries + 1
  /\ answered' = IF retries' = MaxRetries THEN {} ELSE answered
  /\ UNCHANGED pending

(* dispatch_full: execute_io completes and the task runs on; the           *)
(* continuation never left the task.                                       *)
IoCompletes(k) ==
  /\ pc[k] = "awaiting"
  /\ frame' = [frame EXCEPT ![k].io =
                 [agent |-> frame[k].agent, step |-> frame[k].step]]
  /\ pc' = [pc EXCEPT ![k] = "running"]
  /\ UNCHANGED <<slabVars, next_id, pending, answered, retries, outcome>>

(* Nothing runs, nothing is pending and no agent can be started.           *)
Quiescent ==
  /\ next_id > MaxAgents
  /\ pending = {}
  /\ \A w \in Workers : pc[w] \in {"idle", "finished"}
  /\ UNCHANGED vars

Step(w) == RunToAwait(w) \/ RunToEnd(w) \/ Suspend(w) \/ IoCompletes(w)

Next ==
  \/ \E w \in Workers : Dispatch(w) \/ RunToAwait(w) \/ RunToEnd(w)
  \/ \E t \in Threads : Suspend(t)
  \/ \E t \in Threads, reply \in pending : Resume(t, reply)
  \/ \E t \in Threads, reply \in answered : ResumeAgain(t, reply)
  \/ \E k \in Tasks : IoCompletes(k)
  \/ Quiescent

Spec == Init /\ [][Next]_vars

(* A thread in the VM is bounded by the instruction limit and the lock is  *)
(* held for one operation, so a worker that can step does; the I/O of a    *)
(* returned request completes and its caller resumes with the result.      *)
Fairness ==
  /\ \A w \in Workers : WF_vars(Step(w))
  /\ WF_vars(\E t \in Threads, reply \in pending : Resume(t, reply))

FairSpec == Spec /\ Fairness

-----------------------------------------------------------------------------
TypeOK ==
  /\ Slab!SlabTypeOK
  /\ next_id \in 1 .. MaxAgents + 1
  /\ pc \in [Workers -> {"idle", "running", "suspended", "awaiting", "finished"}]
  /\ frame \in [Workers -> Frames \cup {None}]
  /\ pending \subseteq Replies
  /\ answered \subseteq Replies
  /\ retries \in 0 .. MaxRetries
  /\ outcome \in [AgentIds -> {"none", "done", "error"}]

(* Where an agent is: the slots that hold its continuation and the workers *)
(* that run it.                                                            *)
SlotsOf(a) == {i \in Slab!Occupied : slots[i + 1].agent = a}
WorkersOf(a) == {w \in Workers : frame[w] # None /\ frame[w].agent = a}

Alive(a) == a < next_id /\ outcome[a] = "none"

(* A started agent that has not ended is in exactly one place, one slot or *)
(* one worker, and any other agent in none: no interleaving of dispatch,   *)
(* resume and repeated resume loses a suspended agent, stores it twice or  *)
(* runs it on two threads.                                                 *)
AgentInOnePlace ==
  \A a \in AgentIds :
    Cardinality(SlotsOf(a)) + Cardinality(WorkersOf(a)) = IF Alive(a) THEN 1 ELSE 0

(* While each result is delivered once, the request a caller was handed    *)
(* and has not answered is the one of the agent that waits in the slot of  *)
(* its handle: a handle is not given to another agent before its caller is *)
(* done with it.                                                           *)
HandlesAreCurrent ==
  retries = 0 => \A reply \in pending : Slab!Get(reply.handle) = reply.request

(* While each result is delivered once, an agent continues only with the   *)
(* result of the request it made at the await it is at, never with that of *)
(* another agent or of an earlier await.                                   *)
RightResult ==
  retries = 0 => \A w \in Workers :
    frame[w] # None /\ frame[w].io # None =>
      frame[w].io = [agent |-> frame[w].agent, step |-> frame[w].step]

(* Every agent that was started ends, when each request is answered.       *)
EveryAgentEnds ==
  \A a \in AgentIds : (a < next_id) ~> (outcome[a] # "none")
=============================================================================
