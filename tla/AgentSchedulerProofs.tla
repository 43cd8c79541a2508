------------------------ MODULE AgentSchedulerProofs ------------------------
(***************************************************************************)
(* Proofs about the two halves of scheduler.rs.  AgentScheduler, for any   *)
(* threads and tasks and any number of agents, awaits and repeated resume  *)
(* calls: where an agent is, whom a handle leads to, and whose result an   *)
(* agent gets.  They rest on those of the slab, which is instantiated with *)
(* its theorems.  DispatchIo, for any agents, modules and stores: under    *)
(* which position the answers of a parallel await are, what an agent that  *)
(* stored a value finds, and that the table of D1 is what agents and hosts *)
(* were told.                                                              *)
(***************************************************************************)
EXTENDS AgentScheduler, DispatchIo, FiniteSetTheorems, SequenceTheorems, TLAPS

SlabP == INSTANCE ContinuationSlabProofs
           WITH Continuations <- Awaits, MaxStored <- MaxAgents

(* Types; a worker has a frame exactly while it is between dispatch or     *)
(* resume and the end of the run or the suspension, and has reached an     *)
(* await when it is at one.                                                *)
WorkerTypes ==
  /\ next_id \in 1 .. MaxAgents + 1
  /\ pc \in [Workers -> {"idle", "running", "suspended", "awaiting", "finished"}]
  /\ frame \in [Workers -> Frames \cup {None}]
  /\ pending \subseteq [handle : Nat, request : Awaits]
  /\ answered \subseteq [handle : Nat, request : Awaits]
  /\ retries \in Nat
  /\ outcome \in [AgentIds -> {"none", "done", "error"}]
  /\ \A a \in AgentIds : a >= next_id => outcome[a] = "none"
  /\ \A w \in Workers :
       /\ frame[w] = None <=> pc[w] \in {"idle", "finished"}
       /\ pc[w] \in {"suspended", "awaiting"} => frame[w].step >= 1

Holds(i, a) == Slab!Get(i) # None /\ Slab!Get(i).agent = a
Runs(w, a) == frame[w] # None /\ frame[w].agent = a

(* AgentInOnePlace without counting: no two slots, no two workers and no   *)
(* slot and worker have the same agent; those they have are alive; and     *)
(* every agent that is alive is somewhere.                                 *)
OnePlace ==
  \A a \in AgentIds :
    /\ \A i, j \in Nat : Holds(i, a) /\ Holds(j, a) => i = j
    /\ \A v, w \in Workers : Runs(v, a) /\ Runs(w, a) => v = w
    /\ \A i \in Nat, w \in Workers : ~(Holds(i, a) /\ Runs(w, a))
    /\ Alive(a) <=> (\E i \in Nat : Holds(i, a)) \/ (\E w \in Workers : Runs(w, a))

(* The inductive invariant.                                                *)
SchedulerInv ==
  /\ SlabP!SlabInv
  /\ WorkerTypes
  /\ OnePlace
  /\ HandlesAreCurrent
  /\ RightResult

-----------------------------------------------------------------------------
(* The slab of the scheduler, as its proofs describe it: the two instances *)
(* of the slab are the same.                                               *)
LEMMA SlabIsSlab ==
  /\ \A i : Slab!Get(i) = SlabP!Get(i) /\ Slab!Get(i)' = SlabP!Get(i)'
  /\ Slab!InsertIndex = SlabP!InsertIndex /\ Slab!Occupied = SlabP!Occupied
  /\ \A c : Slab!Insert(c) <=> SlabP!Insert(c)
  /\ \A h : Slab!Remove(h) <=> SlabP!Remove(h)
  /\ slabVars = SlabP!slabVars /\ slabVars' = SlabP!slabVars'
<1>1. /\ \A i : Slab!Get(i) = SlabP!Get(i) /\ Slab!Get(i)' = SlabP!Get(i)'
      /\ Slab!InsertIndex = SlabP!InsertIndex /\ Slab!Occupied = SlabP!Occupied
  BY DEF Slab!Get, Slab!Indices, SlabP!Get, SlabP!Indices, Slab!InsertIndex, SlabP!InsertIndex,
         Slab!Occupied, SlabP!Occupied
<1>2. \A c : Slab!Insert(c) <=> SlabP!Insert(c)
  BY <1>1 DEF Slab!Insert, SlabP!Insert, Slab!InsertFreed, SlabP!InsertFreed,
              Slab!InsertPush, SlabP!InsertPush, Slab!Pop, SlabP!Pop
<1>3. \A h : Slab!Remove(h) <=> SlabP!Remove(h)
  BY <1>1 DEF Slab!Remove, SlabP!Remove, Slab!RemoveStored, SlabP!RemoveStored,
              Slab!RemoveNothing, SlabP!RemoveNothing, Slab!slabVars, SlabP!slabVars
<1> QED BY <1>1, <1>2, <1>3 DEF slabVars, SlabP!slabVars

(* What get gives, and which slots are occupied.                           *)
LEMMA SlabGet ==
  ASSUME SlabP!SlabInv
  PROVE  /\ \A i : Slab!Get(i) \in Awaits \cup {None}
         /\ \A i : Slab!Get(i) # None => i \in Nat
         /\ \A i : i \in Slab!Occupied <=> Slab!Get(i) # None
         /\ \A i \in Slab!Occupied : Slab!Get(i) = slots[i + 1]
<1>1. \A i : /\ SlabP!Get(i) \in Awaits \cup {None}
             /\ i \in SlabP!Occupied <=> SlabP!Get(i) # None
             /\ SlabP!Get(i) # None => i \in Nat /\ SlabP!Get(i) = slots[i + 1]
  BY SlabP!GetRange, NoneAssumption, SchedulerAssumption
<1> QED BY <1>1, SlabIsSlab

(* insert: one more index leads to a continuation.                         *)
LEMMA SlabInsert ==
  ASSUME SlabP!SlabInv, NEW c \in Awaits, Slab!Insert(c)
  PROVE  /\ SlabP!SlabInv'
         /\ Slab!InsertIndex \in Nat
         /\ Slab!Get(Slab!InsertIndex) = None
         /\ \A i : Slab!Get(i)' = IF i = Slab!InsertIndex THEN c ELSE Slab!Get(i)
<1>1. SlabP!Insert(c)
  BY SlabIsSlab
<1> QED BY <1>1, SlabIsSlab, SlabP!GetAfterInsert, NoneAssumption, SchedulerAssumption

(* remove: its index leads nowhere any more.                               *)
LEMMA SlabRemove ==
  ASSUME SlabP!SlabInv, NEW h, Slab!Remove(h)
  PROVE  /\ SlabP!SlabInv'
         /\ \A i : Slab!Get(i)' = IF i = h THEN None ELSE Slab!Get(i)
<1>1. SlabP!Remove(h)
  BY SlabIsSlab
<1> QED BY <1>1, SlabIsSlab, SlabP!GetAfterRemove, NoneAssumption, SchedulerAssumption

(* A step that does not call the slab.                                     *)
LEMMA SlabKept ==
  ASSUME SlabP!SlabInv, UNCHANGED slabVars
  PROVE  SlabP!SlabInv' /\ \A i : Slab!Get(i)' = Slab!Get(i)
<1>1. UNCHANGED SlabP!slabVars
  BY SlabIsSlab
<1> QED BY <1>1, SlabIsSlab, SlabP!GetKept, NoneAssumption, SchedulerAssumption

-----------------------------------------------------------------------------
(* An empty slab and idle workers.                                         *)
LEMMA InitScheduler == Init => SchedulerInv
<1> SUFFICES ASSUME Init PROVE SchedulerInv
  OBVIOUS
<1>1. SlabP!SlabInv
  <2>1. SlabP!SlabInit
    BY DEF Init, Slab!SlabInit, SlabP!SlabInit
  <2> QED BY <2>1, SlabP!InitSlabInv, NoneAssumption, SchedulerAssumption
<1>2. \A i : Slab!Get(i) = None
  BY DEF Init, Slab!SlabInit, Slab!Get, Slab!Indices
<1>3. WorkerTypes
  BY SchedulerAssumption DEF Init, WorkerTypes, Workers, AgentIds
<1>4. OnePlace
  BY <1>2, SchedulerAssumption DEF Init, OnePlace, Holds, Runs, Alive, AgentIds
<1>5. HandlesAreCurrent /\ RightResult
  BY DEF Init, HandlesAreCurrent, RightResult
<1> QED BY <1>1, <1>3, <1>4, <1>5 DEF SchedulerInv

(* A new agent: no other has its number, and it is with its worker.        *)
LEMMA DispatchPreserves ==
  ASSUME SchedulerInv, NEW w \in Workers, Dispatch(w)
  PROVE  SchedulerInv'
<1> DEFINE new == [agent |-> next_id, step |-> 0, io |-> None]
<1>1. SlabP!SlabInv' /\ \A i : Slab!Get(i)' = Slab!Get(i)
  BY SlabKept DEF SchedulerInv, Dispatch
<1>2. /\ next_id \in AgentIds /\ next_id' = next_id + 1
      /\ new \in Frames /\ new # None
  BY SchedulerAssumption, NoneAssumption
  DEF SchedulerInv, WorkerTypes, Dispatch, AgentIds, Frames
<1>3. /\ frame'[w] = new /\ frame[w] = None
      /\ pc[w] = "idle" /\ pc'[w] = "running"
      /\ \A v \in Workers \ {w} : frame'[v] = frame[v] /\ pc'[v] = pc[v]
  BY DEF SchedulerInv, WorkerTypes, Dispatch
<1>4. WorkerTypes'
  <2>1. frame' \in [Workers -> Frames \cup {None}]
    BY <1>2 DEF SchedulerInv, WorkerTypes, Dispatch
  <2>2. pc' \in [Workers -> {"idle", "running", "suspended", "awaiting", "finished"}]
    BY DEF SchedulerInv, WorkerTypes, Dispatch
  <2>3. next_id' \in 1 .. MaxAgents + 1
    BY SchedulerAssumption DEF SchedulerInv, WorkerTypes, Dispatch
  <2>4. \A a \in AgentIds : a >= next_id' => outcome'[a] = "none"
    BY <1>2 DEF SchedulerInv, WorkerTypes, Dispatch, AgentIds
  <2>5. \A v \in Workers :
          /\ frame'[v] = None <=> pc'[v] \in {"idle", "finished"}
          /\ pc'[v] \in {"suspended", "awaiting"} => frame'[v].step >= 1
    BY <1>2, <1>3 DEF SchedulerInv, WorkerTypes
  <2> QED BY <2>1, <2>2, <2>3, <2>4, <2>5 DEF SchedulerInv, WorkerTypes, Dispatch
<1>5. OnePlace'
  <2> SUFFICES ASSUME NEW a \in AgentIds
               PROVE  /\ \A i, j \in Nat : Holds(i, a)' /\ Holds(j, a)' => i = j
                      /\ \A u, v \in Workers : Runs(u, a)' /\ Runs(v, a)' => u = v
                      /\ \A i \in Nat, v \in Workers : ~(Holds(i, a)' /\ Runs(v, a)')
                      /\ Alive(a)' <=> (\E i \in Nat : Holds(i, a)')
                                       \/ (\E v \in Workers : Runs(v, a)')
    BY DEF OnePlace
  <2>1. /\ \A i \in Nat : Holds(i, a)' <=> Holds(i, a)
        /\ \A v \in Workers \ {w} : Runs(v, a)' <=> Runs(v, a)
        /\ Runs(w, a)' <=> a = next_id
        /\ ~Runs(w, a)
    BY <1>1, <1>2, <1>3 DEF Holds, Runs
  <2>2. Alive(a)' <=> Alive(a) \/ a = next_id
    BY <1>2 DEF Alive, Dispatch, AgentIds, SchedulerInv, WorkerTypes
  <2>3. a = next_id => ~Alive(a)
    BY <1>2 DEF Alive, AgentIds
  <2>4. /\ \A i, j \in Nat : Holds(i, a) /\ Holds(j, a) => i = j
        /\ \A u, v \in Workers : Runs(u, a) /\ Runs(v, a) => u = v
        /\ \A i \in Nat, v \in Workers : ~(Holds(i, a) /\ Runs(v, a))
        /\ Alive(a) <=> (\E i \in Nat : Holds(i, a)) \/ (\E v \in Workers : Runs(v, a))
    BY DEF SchedulerInv, OnePlace
  <2> QED BY <2>1, <2>2, <2>3, <2>4
<1>6. HandlesAreCurrent' /\ RightResult'
  BY <1>1, <1>2, <1>3 DEF SchedulerInv, HandlesAreCurrent, RightResult, Dispatch
<1> QED BY <1>1, <1>4, <1>5, <1>6 DEF SchedulerInv

(* Nothing is stored or taken out, and each worker keeps its agent.        *)
LEMMA StaysPut ==
  ASSUME OnePlace,
         \A i : Slab!Get(i)' = Slab!Get(i),
         \A v \in Workers, a \in AgentIds : Runs(v, a)' <=> Runs(v, a),
         \A a \in AgentIds : Alive(a)' <=> Alive(a)
  PROVE  OnePlace'
<1> SUFFICES ASSUME NEW a \in AgentIds
             PROVE  /\ \A i, j \in Nat : Holds(i, a)' /\ Holds(j, a)' => i = j
                    /\ \A u, v \in Workers : Runs(u, a)' /\ Runs(v, a)' => u = v
                    /\ \A i \in Nat, v \in Workers : ~(Holds(i, a)' /\ Runs(v, a)')
                    /\ Alive(a)' <=> (\E i \in Nat : Holds(i, a)')
                                     \/ (\E v \in Workers : Runs(v, a)')
  BY DEF OnePlace
<1>1. \A i : Holds(i, a)' <=> Holds(i, a)
  BY DEF Holds
<1> QED BY <1>1 DEF OnePlace

(* The agent reaches its next await with its worker, its last result used. *)
LEMMA RunToAwaitPreserves ==
  ASSUME SchedulerInv, NEW w \in Workers, RunToAwait(w)
  PROVE  SchedulerInv'
<1>1. SlabP!SlabInv' /\ \A i : Slab!Get(i)' = Slab!Get(i)
  BY SlabKept DEF SchedulerInv, RunToAwait
<1>2. /\ frame[w] \in Frames /\ frame[w] # None
      /\ frame'[w] = [frame[w] EXCEPT !.step = @ + 1, !.io = None]
      /\ pc'[w] = IF w \in Threads THEN "suspended" ELSE "awaiting"
      /\ \A v \in Workers \ {w} : frame'[v] = frame[v] /\ pc'[v] = pc[v]
  BY DEF SchedulerInv, WorkerTypes, RunToAwait
<1>3. /\ frame'[w] \in Frames /\ frame'[w] # None
      /\ frame'[w].agent = frame[w].agent /\ frame'[w].io = None
      /\ frame'[w].step >= 1
  <2>1. frame[w].step \in Nat /\ frame[w].step + 1 \in 0 .. MaxAwaits
    BY <1>2, SchedulerAssumption DEF Frames, RunToAwait
  <2>2. frame'[w] \in Frames
    BY <1>2, <2>1 DEF Frames
  <2>3. frame'[w] # None
    BY <2>2, NoneAssumption
  <2> QED BY <1>2, <2>1, <2>2, <2>3 DEF Frames
<1>4. WorkerTypes'
  <2>1. frame' \in [Workers -> Frames \cup {None}]
    BY <1>3 DEF SchedulerInv, WorkerTypes, RunToAwait
  <2>2. pc' \in [Workers -> {"idle", "running", "suspended", "awaiting", "finished"}]
    BY DEF SchedulerInv, WorkerTypes, RunToAwait
  <2>3. \A v \in Workers :
          /\ frame'[v] = None <=> pc'[v] \in {"idle", "finished"}
          /\ pc'[v] \in {"suspended", "awaiting"} => frame'[v].step >= 1
    BY <1>2, <1>3 DEF SchedulerInv, WorkerTypes
  <2> QED BY <2>1, <2>2, <2>3 DEF SchedulerInv, WorkerTypes, RunToAwait
<1>5. OnePlace'
  <2>1. \A v \in Workers, a \in AgentIds : Runs(v, a)' <=> Runs(v, a)
    BY <1>2, <1>3 DEF Runs
  <2>2. \A a \in AgentIds : Alive(a)' <=> Alive(a)
    BY DEF Alive, RunToAwait
  <2> QED BY <1>1, <2>1, <2>2, StaysPut DEF SchedulerInv
<1>6. HandlesAreCurrent'
  BY <1>1 DEF SchedulerInv, HandlesAreCurrent, RunToAwait
<1>7. RightResult'
  <2>1. RightResult /\ (retries' = 0 => retries = 0)
    BY DEF SchedulerInv, RunToAwait
  <2>2. \A v \in Workers \ {w} : frame'[v] = frame[v]
    BY <1>2
  <2> QED BY <2>1, <2>2, <1>3 DEF RightResult
<1> QED BY <1>1, <1>4, <1>5, <1>6, <1>7 DEF SchedulerInv

(* The result of the request that the task made at this await.             *)
LEMMA IoCompletesPreserves ==
  ASSUME SchedulerInv, NEW k \in Tasks, IoCompletes(k)
  PROVE  SchedulerInv'
<1> DEFINE result == [agent |-> frame[k].agent, step |-> frame[k].step]
<1>1. SlabP!SlabInv' /\ \A i : Slab!Get(i)' = Slab!Get(i)
  BY SlabKept DEF SchedulerInv, IoCompletes
<1>2. /\ k \in Workers /\ frame[k] \in Frames /\ frame[k].step >= 1
      /\ frame'[k] = [frame[k] EXCEPT !.io = result]
      /\ pc'[k] = "running"
      /\ \A v \in Workers \ {k} : frame'[v] = frame[v] /\ pc'[v] = pc[v]
  BY DEF SchedulerInv, WorkerTypes, IoCompletes, Workers
<1>3. /\ frame'[k] \in Frames /\ frame'[k] # None
      /\ frame'[k].agent = frame[k].agent /\ frame'[k].step = frame[k].step
      /\ frame'[k].io = result
  BY <1>2, SchedulerAssumption, NoneAssumption DEF Frames, Awaits
<1>4. WorkerTypes'
  <2>1. frame' \in [Workers -> Frames \cup {None}]
    BY <1>3 DEF SchedulerInv, WorkerTypes, IoCompletes
  <2>2. pc' \in [Workers -> {"idle", "running", "suspended", "awaiting", "finished"}]
    BY DEF SchedulerInv, WorkerTypes, IoCompletes
  <2>3. \A v \in Workers :
          /\ frame'[v] = None <=> pc'[v] \in {"idle", "finished"}
          /\ pc'[v] \in {"suspended", "awaiting"} => frame'[v].step >= 1
    BY <1>2, <1>3 DEF SchedulerInv, WorkerTypes
  <2> QED BY <2>1, <2>2, <2>3 DEF SchedulerInv, WorkerTypes, IoCompletes
<1>5. OnePlace'
  <2>1. frame[k] # None
    BY <1>2, NoneAssumption
  <2>2. \A v \in Workers, a \in AgentIds : Runs(v, a)' <=> Runs(v, a)
    BY <2>1, <1>2, <1>3 DEF Runs
  <2>3. \A a \in AgentIds : Alive(a)' <=> Alive(a)
    BY DEF Alive, IoCompletes
  <2> QED BY <1>1, <2>2, <2>3, StaysPut DEF SchedulerInv
<1>6. HandlesAreCurrent' /\ RightResult'
  BY <1>1, <1>2, <1>3 DEF SchedulerInv, HandlesAreCurrent, RightResult, IoCompletes
<1> QED BY <1>1, <1>4, <1>5, <1>6 DEF SchedulerInv

(* The agent that ends leaves its worker and is alive no more.             *)
LEMMA RunToEndPreserves ==
  ASSUME SchedulerInv, NEW w \in Workers, RunToEnd(w)
  PROVE  SchedulerInv'
<1> DEFINE gone == frame[w].agent
<1>1. SlabP!SlabInv' /\ \A i : Slab!Get(i)' = Slab!Get(i)
  BY SlabKept DEF SchedulerInv, RunToEnd
<1>2. /\ frame[w] \in Frames /\ frame[w] # None
      /\ frame'[w] = None /\ pc'[w] \in {"idle", "finished"}
      /\ \A v \in Workers \ {w} : frame'[v] = frame[v] /\ pc'[v] = pc[v]
  BY DEF SchedulerInv, WorkerTypes, RunToEnd
<1>3. gone \in AgentIds /\ Runs(w, gone)
  BY <1>2 DEF Frames, Runs
<1>4. PICK result \in {"done", "error"} : outcome' = [outcome EXCEPT ![gone] = result]
  BY DEF RunToEnd
<1>5. \A a \in AgentIds : Alive(a)' <=> Alive(a) /\ a # gone
  BY <1>3, <1>4 DEF Alive, RunToEnd, SchedulerInv, WorkerTypes
<1>6. gone < next_id
  BY <1>3 DEF SchedulerInv, OnePlace, Alive
<1>7. WorkerTypes'
  <2>1. frame' \in [Workers -> Frames \cup {None}]
    BY DEF SchedulerInv, WorkerTypes, RunToEnd
  <2>2. pc' \in [Workers -> {"idle", "running", "suspended", "awaiting", "finished"}]
    BY DEF SchedulerInv, WorkerTypes, RunToEnd
  <2>3. outcome' \in [AgentIds -> {"none", "done", "error"}]
    BY <1>4 DEF SchedulerInv, WorkerTypes
  <2>4. \A a \in AgentIds : a >= next_id => outcome'[a] = "none"
    BY <1>3, <1>4, <1>6 DEF SchedulerInv, WorkerTypes, AgentIds
  <2>5. \A v \in Workers :
          /\ frame'[v] = None <=> pc'[v] \in {"idle", "finished"}
          /\ pc'[v] \in {"suspended", "awaiting"} => frame'[v].step >= 1
    BY <1>2 DEF SchedulerInv, WorkerTypes
  <2> QED BY <2>1, <2>2, <2>3, <2>4, <2>5 DEF SchedulerInv, WorkerTypes, RunToEnd
<1>8. OnePlace'
  <2> SUFFICES ASSUME NEW a \in AgentIds
               PROVE  /\ \A i, j \in Nat : Holds(i, a)' /\ Holds(j, a)' => i = j
                      /\ \A u, v \in Workers : Runs(u, a)' /\ Runs(v, a)' => u = v
                      /\ \A i \in Nat, v \in Workers : ~(Holds(i, a)' /\ Runs(v, a)')
                      /\ Alive(a)' <=> (\E i \in Nat : Holds(i, a)')
                                       \/ (\E v \in Workers : Runs(v, a)')
    BY DEF OnePlace
  <2>1. /\ \A i \in Nat : Holds(i, a)' <=> Holds(i, a)
        /\ \A v \in Workers : Runs(v, a)' <=> Runs(v, a) /\ v # w
        /\ Runs(w, a) <=> a = gone
    BY <1>1, <1>2 DEF Holds, Runs
  <2>2. /\ \A i, j \in Nat : Holds(i, a) /\ Holds(j, a) => i = j
        /\ \A u, v \in Workers : Runs(u, a) /\ Runs(v, a) => u = v
        /\ \A i \in Nat, v \in Workers : ~(Holds(i, a) /\ Runs(v, a))
        /\ Alive(a) <=> (\E i \in Nat : Holds(i, a)) \/ (\E v \in Workers : Runs(v, a))
    BY DEF SchedulerInv, OnePlace
  <2> QED BY <2>1, <2>2, <1>5
<1>9. HandlesAreCurrent' /\ RightResult'
  BY <1>1, <1>2 DEF SchedulerInv, HandlesAreCurrent, RightResult, RunToEnd
<1> QED BY <1>1, <1>7, <1>8, <1>9 DEF SchedulerInv

(* The agent moves from the worker to the slot of the new handle, which    *)
(* was empty: no reply that is pending is about it.                        *)
LEMMA SuspendPreserves ==
  ASSUME SchedulerInv, NEW t \in Threads, Suspend(t)
  PROVE  SchedulerInv'
<1> DEFINE cont == [agent |-> frame[t].agent, step |-> frame[t].step]
           h == Slab!InsertIndex
           moved == frame[t].agent
<1>1. /\ t \in Workers /\ frame[t] \in Frames /\ frame[t] # None
      /\ frame'[t] = None /\ pc'[t] = "idle"
      /\ \A v \in Workers \ {t} : frame'[v] = frame[v] /\ pc'[v] = pc[v]
  BY DEF SchedulerInv, WorkerTypes, Suspend, Workers
<1>2. cont \in Awaits /\ moved \in AgentIds
  BY <1>1 DEF SchedulerInv, WorkerTypes, Suspend, Frames, Awaits
<1>3. /\ SlabP!SlabInv' /\ h \in Nat /\ Slab!Get(h) = None
      /\ \A i : Slab!Get(i)' = IF i = h THEN cont ELSE Slab!Get(i)
  BY <1>2, SlabInsert DEF SchedulerInv, Suspend
<1>4. cont # None
  BY <1>2, NoneAssumption
<1>5. pending' = pending \cup {[handle |-> h, request |-> cont]}
  BY DEF Suspend
<1>6. WorkerTypes'
  <2>1. frame' \in [Workers -> Frames \cup {None}]
    BY DEF SchedulerInv, WorkerTypes, Suspend
  <2>2. pc' \in [Workers -> {"idle", "running", "suspended", "awaiting", "finished"}]
    BY DEF SchedulerInv, WorkerTypes, Suspend
  <2>3. pending' \subseteq [handle : Nat, request : Awaits]
    BY <1>2, <1>3, <1>5 DEF SchedulerInv, WorkerTypes
  <2>4. \A v \in Workers :
          /\ frame'[v] = None <=> pc'[v] \in {"idle", "finished"}
          /\ pc'[v] \in {"suspended", "awaiting"} => frame'[v].step >= 1
    BY <1>1 DEF SchedulerInv, WorkerTypes
  <2> QED BY <2>1, <2>2, <2>3, <2>4 DEF SchedulerInv, WorkerTypes, Suspend
<1> HIDE DEF h
<1>7. OnePlace'
  <2> SUFFICES ASSUME NEW a \in AgentIds
               PROVE  /\ \A i, j \in Nat : Holds(i, a)' /\ Holds(j, a)' => i = j
                      /\ \A u, v \in Workers : Runs(u, a)' /\ Runs(v, a)' => u = v
                      /\ \A i \in Nat, v \in Workers : ~(Holds(i, a)' /\ Runs(v, a)')
                      /\ Alive(a)' <=> (\E i \in Nat : Holds(i, a)')
                                       \/ (\E v \in Workers : Runs(v, a)')
    BY DEF OnePlace
  <2>1. \A i \in Nat : Holds(i, a)' <=> (i = h /\ a = moved) \/ (i # h /\ Holds(i, a))
    BY <1>3, <1>4 DEF Holds
  <2>2. /\ \A v \in Workers : Runs(v, a)' <=> Runs(v, a) /\ v # t
        /\ Runs(t, a) <=> a = moved
    BY <1>1 DEF Runs
  <2>3. /\ \A i, j \in Nat : Holds(i, a) /\ Holds(j, a) => i = j
        /\ \A u, v \in Workers : Runs(u, a) /\ Runs(v, a) => u = v
        /\ \A i \in Nat, v \in Workers : ~(Holds(i, a) /\ Runs(v, a))
        /\ Alive(a) <=> (\E i \in Nat : Holds(i, a)) \/ (\E v \in Workers : Runs(v, a))
    BY DEF SchedulerInv, OnePlace
  <2>4. ~Holds(h, a) /\ h \in Nat /\ t \in Workers
    BY <1>1, <1>3 DEF Holds
  <2>5. Alive(a)' <=> Alive(a)
    BY DEF Alive, Suspend
  <2>6. CASE a = moved
    BY <2>1, <2>2, <2>3, <2>4, <2>5, <2>6
  <2>7. CASE a # moved
    BY <2>1, <2>2, <2>3, <2>4, <2>5, <2>7
  <2> QED BY <2>6, <2>7
<1>8. HandlesAreCurrent'
  <2> SUFFICES ASSUME retries = 0, NEW reply \in pending'
               PROVE  Slab!Get(reply.handle)' = reply.request
    BY DEF HandlesAreCurrent, Suspend
  <2>1. CASE reply \in pending
    <3>1. Slab!Get(reply.handle) = reply.request /\ reply.request \in Awaits
      BY <2>1 DEF SchedulerInv, HandlesAreCurrent, WorkerTypes
    <3>2. reply.handle # h
      BY <3>1, <1>3, NoneAssumption
    <3> QED BY <3>1, <3>2, <1>3
  <2>2. CASE reply = [handle |-> h, request |-> cont]
    BY <2>2, <1>3
  <2> QED BY <2>1, <2>2, <1>5
<1>9. RightResult'
  BY <1>1 DEF SchedulerInv, RightResult, Suspend
<1> QED BY <1>3, <1>6, <1>7, <1>8, <1>9 DEF SchedulerInv

(* resume: the agent in the slot of the handle, if there is one, moves to  *)
(* the thread; otherwise nothing changes.                                  *)
LEMMA ContinueEffect ==
  ASSUME SchedulerInv, NEW t \in Threads, NEW reply \in [handle : Nat, request : Awaits],
         Continue(t, reply), UNCHANGED outcome, UNCHANGED next_id
  PROVE  /\ SlabP!SlabInv'
         /\ \A i : Slab!Get(i)' = IF i = reply.handle THEN None ELSE Slab!Get(i)
         /\ frame' \in [Workers -> Frames \cup {None}]
         /\ pc' \in [Workers -> {"idle", "running", "suspended", "awaiting", "finished"}]
         /\ \A v \in Workers :
              /\ frame'[v] = None <=> pc'[v] \in {"idle", "finished"}
              /\ pc'[v] \in {"suspended", "awaiting"} => frame'[v].step >= 1
         /\ OnePlace'
         /\ \A v \in Workers \ {t} : frame'[v] = frame[v]
         /\ Slab!Get(reply.handle) = reply.request =>
              /\ frame'[t].io = reply.request
              /\ frame'[t].agent = reply.request.agent
              /\ frame'[t].step = reply.request.step
<1> DEFINE h == reply.handle
           cont == Slab!Get(h)
           next == [agent |-> cont.agent, step |-> cont.step, io |-> reply.request]
<1>1. /\ SlabP!SlabInv'
      /\ \A i : Slab!Get(i)' = IF i = h THEN None ELSE Slab!Get(i)
  <2>1. Slab!Remove(h)
    BY DEF Continue
  <2>2. SlabP!SlabInv
    BY DEF SchedulerInv
  <2> QED BY <2>1, <2>2, SlabRemove
<1>2. /\ t \in Workers /\ pc[t] = "idle" /\ frame[t] = None
      /\ frame \in [Workers -> Frames \cup {None}]
      /\ pc \in [Workers -> {"idle", "running", "suspended", "awaiting", "finished"}]
      /\ cont \in Awaits \cup {None} /\ h \in Nat
  <2>1. cont \in Awaits \cup {None}
    BY SlabGet DEF SchedulerInv
  <2> QED BY <2>1 DEF SchedulerInv, WorkerTypes, Continue, Workers
<1>3. CASE cont = None
  <2>1. frame' = frame /\ pc' = pc
    BY <1>3 DEF Continue
  <2>2. \A i : Slab!Get(i)' = Slab!Get(i)
    BY <1>1, <1>3
  <2>3. \A v \in Workers, a \in AgentIds : Runs(v, a)' <=> Runs(v, a)
    BY <2>1 DEF Runs
  <2>4. \A a \in AgentIds : Alive(a)' <=> Alive(a)
    BY DEF Alive
  <2>5. OnePlace'
    BY <2>2, <2>3, <2>4, StaysPut DEF SchedulerInv
  <2>6. cont # reply.request
    BY <1>3, NoneAssumption
  <2>7. \A v \in Workers :
          /\ frame[v] = None <=> pc[v] \in {"idle", "finished"}
          /\ pc[v] \in {"suspended", "awaiting"} => frame[v].step >= 1
    BY DEF SchedulerInv, WorkerTypes
  <2> QED BY <1>1, <1>2, <2>1, <2>5, <2>6, <2>7
<1>4. CASE cont # None
  <2>1. /\ frame' = [frame EXCEPT ![t] = next]
        /\ pc' = [pc EXCEPT ![t] = "running"]
    BY <1>4 DEF Continue
  <2>2. cont \in Awaits /\ cont.agent \in AgentIds /\ next \in Frames
    BY <1>2, <1>4, SchedulerAssumption DEF Awaits, Frames
  <2>3. next # None
    BY <2>2, NoneAssumption
  <2> HIDE DEF cont, h
  <2>4. /\ frame'[t] = next /\ pc'[t] = "running"
        /\ \A v \in Workers \ {t} : frame'[v] = frame[v] /\ pc'[v] = pc[v]
        /\ frame' \in [Workers -> Frames \cup {None}]
        /\ pc' \in [Workers -> {"idle", "running", "suspended", "awaiting", "finished"}]
    BY <1>2, <2>1, <2>2
  <2>5. \A v \in Workers :
          /\ frame'[v] = None <=> pc'[v] \in {"idle", "finished"}
          /\ pc'[v] \in {"suspended", "awaiting"} => frame'[v].step >= 1
    BY <2>3, <2>4 DEF SchedulerInv, WorkerTypes
  <2>6. OnePlace'
    <3> SUFFICES ASSUME NEW a \in AgentIds
                 PROVE  /\ \A i, j \in Nat : Holds(i, a)' /\ Holds(j, a)' => i = j
                        /\ \A u, v \in Workers : Runs(u, a)' /\ Runs(v, a)' => u = v
                        /\ \A i \in Nat, v \in Workers : ~(Holds(i, a)' /\ Runs(v, a)')
                        /\ Alive(a)' <=> (\E i \in Nat : Holds(i, a)')
                                         \/ (\E v \in Workers : Runs(v, a)')
      BY DEF OnePlace
    <3>1. /\ \A i \in Nat : Holds(i, a)' <=> i # h /\ Holds(i, a)
          /\ Holds(h, a) <=> a = cont.agent
      BY <1>1, <1>4 DEF Holds, cont
    <3>2. /\ \A v \in Workers : Runs(v, a)' <=> (v = t /\ a = cont.agent) \/ (v # t /\ Runs(v, a))
          /\ ~Runs(t, a)
      BY <1>2, <2>3, <2>4 DEF Runs
    <3>3. /\ \A i, j \in Nat : Holds(i, a) /\ Holds(j, a) => i = j
          /\ \A u, v \in Workers : Runs(u, a) /\ Runs(v, a) => u = v
          /\ \A i \in Nat, v \in Workers : ~(Holds(i, a) /\ Runs(v, a))
          /\ Alive(a) <=> (\E i \in Nat : Holds(i, a)) \/ (\E v \in Workers : Runs(v, a))
      BY DEF SchedulerInv, OnePlace
    <3>4. Alive(a)' <=> Alive(a)
      BY DEF Alive
    <3>5. CASE a = cont.agent
      BY <1>2, <3>1, <3>2, <3>3, <3>4, <3>5
    <3>6. CASE a # cont.agent
      BY <3>1, <3>2, <3>3, <3>4, <3>6
    <3> QED BY <3>5, <3>6
  <2>7. cont = reply.request =>
          /\ frame'[t].io = reply.request
          /\ frame'[t].agent = reply.request.agent
          /\ frame'[t].step = reply.request.step
    BY <2>4
  <2> QED BY <1>1, <2>4, <2>5, <2>6, <2>7 DEF cont, h
<1> QED BY <1>3, <1>4

(* The reply is the one of the agent that waits there, and it is used up:  *)
(* two pending replies have different handles, as each slot has one agent. *)
LEMMA ResumePreserves ==
  ASSUME SchedulerInv, NEW t \in Threads, NEW reply \in pending, Resume(t, reply)
  PROVE  SchedulerInv'
<1>1. /\ reply \in [handle : Nat, request : Awaits]
      /\ pending \subseteq [handle : Nat, request : Awaits]
      /\ answered \subseteq [handle : Nat, request : Awaits]
  BY DEF SchedulerInv, WorkerTypes
<1>2. /\ Continue(t, reply) /\ UNCHANGED outcome /\ UNCHANGED next_id
      /\ pending' = pending \ {reply} /\ retries' = retries
      /\ answered' \subseteq answered \cup {reply}
  BY DEF Resume, Continue
<1>3. /\ SlabP!SlabInv'
      /\ \A i : Slab!Get(i)' = IF i = reply.handle THEN None ELSE Slab!Get(i)
      /\ frame' \in [Workers -> Frames \cup {None}]
      /\ pc' \in [Workers -> {"idle", "running", "suspended", "awaiting", "finished"}]
      /\ \A v \in Workers :
           /\ frame'[v] = None <=> pc'[v] \in {"idle", "finished"}
           /\ pc'[v] \in {"suspended", "awaiting"} => frame'[v].step >= 1
      /\ OnePlace'
      /\ \A v \in Workers \ {t} : frame'[v] = frame[v]
      /\ Slab!Get(reply.handle) = reply.request =>
           /\ frame'[t].io = reply.request
           /\ frame'[t].agent = reply.request.agent
           /\ frame'[t].step = reply.request.step
  BY <1>1, <1>2, ContinueEffect
<1>4. WorkerTypes'
  BY <1>1, <1>2, <1>3 DEF SchedulerInv, WorkerTypes
<1>5. HandlesAreCurrent'
  <2> SUFFICES ASSUME retries = 0, NEW other \in pending, other # reply
               PROVE  Slab!Get(other.handle)' = other.request
    BY <1>2 DEF HandlesAreCurrent
  <2>1. /\ Slab!Get(other.handle) = other.request
        /\ Slab!Get(reply.handle) = reply.request
    BY DEF SchedulerInv, HandlesAreCurrent
  <2>2. other.handle # reply.handle
    BY <2>1, <1>1
  <2> QED BY <2>1, <2>2, <1>3
<1>6. RightResult'
  <2> SUFFICES ASSUME retries = 0, NEW v \in Workers, frame'[v] # None, frame'[v].io # None
               PROVE  frame'[v].io = [agent |-> frame'[v].agent, step |-> frame'[v].step]
    BY <1>2 DEF RightResult
  <2>1. CASE v = t
    <3>1. Slab!Get(reply.handle) = reply.request
      BY DEF SchedulerInv, HandlesAreCurrent
    <3>2. reply.request = [agent |-> reply.request.agent, step |-> reply.request.step]
      BY <1>1 DEF Awaits
    <3> QED BY <2>1, <3>1, <3>2, <1>3
  <2>2. CASE v # t
    BY <2>2, <1>3 DEF SchedulerInv, RightResult
  <2> QED BY <2>1, <2>2
<1> QED BY <1>3, <1>4, <1>5, <1>6 DEF SchedulerInv

(* A result delivered again can reach another agent, but no agent is lost  *)
(* or run twice by it.                                                     *)
LEMMA ResumeAgainPreserves ==
  ASSUME SchedulerInv, NEW t \in Threads, NEW reply \in answered, ResumeAgain(t, reply)
  PROVE  SchedulerInv'
<1>1. /\ reply \in [handle : Nat, request : Awaits]
      /\ answered \subseteq [handle : Nat, request : Awaits]
  BY DEF SchedulerInv, WorkerTypes
<1>2. /\ Continue(t, reply) /\ UNCHANGED outcome /\ UNCHANGED next_id
      /\ pending' = pending /\ retries' = retries + 1
      /\ answered' \subseteq answered
  BY DEF ResumeAgain, Continue
<1>3. /\ SlabP!SlabInv'
      /\ frame' \in [Workers -> Frames \cup {None}]
      /\ pc' \in [Workers -> {"idle", "running", "suspended", "awaiting", "finished"}]
      /\ \A v \in Workers :
           /\ frame'[v] = None <=> pc'[v] \in {"idle", "finished"}
           /\ pc'[v] \in {"suspended", "awaiting"} => frame'[v].step >= 1
      /\ OnePlace'
  BY <1>1, <1>2, ContinueEffect
<1>4. retries \in Nat
  BY DEF SchedulerInv, WorkerTypes
<1>5. WorkerTypes'
  BY <1>1, <1>2, <1>3, <1>4 DEF SchedulerInv, WorkerTypes
<1>6. HandlesAreCurrent' /\ RightResult'
  BY <1>2, <1>4 DEF HandlesAreCurrent, RightResult
<1> QED BY <1>3, <1>5, <1>6 DEF SchedulerInv

-----------------------------------------------------------------------------
(* The invariant holds however threads and tasks interleave.               *)
THEOREM SchedulerInvariant == Spec => []SchedulerInv
<1>1. SchedulerInv /\ [Next]_vars => SchedulerInv'
  <2> SUFFICES ASSUME SchedulerInv, [Next]_vars PROVE SchedulerInv'
    OBVIOUS
  <2>1. CASE \E w \in Workers : Dispatch(w) \/ RunToAwait(w) \/ RunToEnd(w)
    BY <2>1, DispatchPreserves, RunToAwaitPreserves, RunToEndPreserves
  <2>2. CASE \E t \in Threads : Suspend(t)
    BY <2>2, SuspendPreserves
  <2>3. CASE \E t \in Threads, reply \in pending : Resume(t, reply)
    BY <2>3, ResumePreserves
  <2>4. CASE \E t \in Threads, reply \in answered : ResumeAgain(t, reply)
    BY <2>4, ResumeAgainPreserves
  <2>5. CASE \E k \in Tasks : IoCompletes(k)
    BY <2>5, IoCompletesPreserves
  <2>6. CASE UNCHANGED vars
    <3>1. /\ UNCHANGED slabVars
          /\ UNCHANGED <<next_id, pc, frame, pending, answered, retries, outcome>>
      BY <2>6 DEF vars, slabVars
    <3>2. SlabP!SlabInv' /\ \A i : Slab!Get(i)' = Slab!Get(i)
      BY <3>1, SlabKept DEF SchedulerInv
    <3>3. WorkerTypes' /\ RightResult'
      BY <3>1 DEF SchedulerInv, WorkerTypes, RightResult
    <3>4. OnePlace' /\ HandlesAreCurrent'
      BY <3>1, <3>2 DEF SchedulerInv, OnePlace, Holds, Runs, Alive, HandlesAreCurrent
    <3> QED BY <3>2, <3>3, <3>4 DEF SchedulerInv
  <2> QED BY <2>1, <2>2, <2>3, <2>4, <2>5, <2>6 DEF Next, Quiescent
<1> QED BY <1>1, InitScheduler, PTL DEF Spec

(* A set with no two elements counts as one when there is one, else as     *)
(* none.                                                                   *)
LEMMA AtMostOne ==
  ASSUME NEW S, \A x, y \in S : x = y
  PROVE  Cardinality(S) = IF S = {} THEN 0 ELSE 1
<1>1. CASE S = {}
  BY <1>1, FS_EmptySet
<1>2. CASE S # {}
  <2>1. PICK x \in S : S = {x}
    BY <1>2
  <2> QED BY <1>2, <2>1, FS_Singleton
<1> QED BY <1>1, <1>2

(* No interleaving of dispatch, resume and repeated resume by any number   *)
(* of threads and tasks loses a suspended agent, stores it twice or runs   *)
(* it on two threads.                                                      *)
THEOREM AgentAlwaysInOnePlace == Spec => []AgentInOnePlace
<1>1. SchedulerInv => AgentInOnePlace
  <2> SUFFICES ASSUME SchedulerInv, NEW a \in AgentIds
               PROVE  Cardinality(SlotsOf(a)) + Cardinality(WorkersOf(a))
                        = IF Alive(a) THEN 1 ELSE 0
    BY DEF AgentInOnePlace
  <2>1. /\ \A i, j \in Nat : Holds(i, a) /\ Holds(j, a) => i = j
        /\ \A v, w \in Workers : Runs(v, a) /\ Runs(w, a) => v = w
        /\ \A i \in Nat, w \in Workers : ~(Holds(i, a) /\ Runs(w, a))
        /\ Alive(a) <=> (\E i \in Nat : Holds(i, a)) \/ (\E w \in Workers : Runs(w, a))
    BY DEF SchedulerInv, OnePlace
  <2>2. \A i : i \in SlotsOf(a) <=> i \in Nat /\ Holds(i, a)
    BY SlabGet DEF SchedulerInv, SlotsOf, Holds
  <2>3. \A w : w \in WorkersOf(a) <=> w \in Workers /\ Runs(w, a)
    BY DEF WorkersOf, Runs
  <2>4. Cardinality(SlotsOf(a)) = IF SlotsOf(a) = {} THEN 0 ELSE 1
    BY <2>1, <2>2, AtMostOne
  <2>5. Cardinality(WorkersOf(a)) = IF WorkersOf(a) = {} THEN 0 ELSE 1
    BY <2>1, <2>3, AtMostOne
  <2>6. /\ SlotsOf(a) = {} \/ WorkersOf(a) = {}
        /\ Alive(a) <=> SlotsOf(a) # {} \/ WorkersOf(a) # {}
    BY <2>1, <2>2, <2>3
  <2> QED BY <2>4, <2>5, <2>6
<1> QED BY <1>1, SchedulerInvariant, PTL

(* While each result is delivered once, the handle of a pending request    *)
(* leads to the agent that made it.                                        *)
THEOREM HandlesAlwaysCurrent == Spec => []HandlesAreCurrent
<1>1. SchedulerInv => HandlesAreCurrent
  BY DEF SchedulerInv
<1> QED BY <1>1, SchedulerInvariant, PTL

(* While each result is delivered once, an agent runs on with the result   *)
(* of the request it made at its last await.                               *)
THEOREM AlwaysRightResult == Spec => []RightResult
<1>1. SchedulerInv => RightResult
  BY DEF SchedulerInv
<1> QED BY <1>1, SchedulerInvariant, PTL

-----------------------------------------------------------------------------
(* Every step of the scheduler makes at most one call of its slab: the     *)
(* locks of dispatch and resume are each held for one of them.             *)
LEMMA StepCallsSlab ==
  ASSUME SchedulerInv, SlabP!HighWater, [Next]_vars
  PROVE  [SlabP!SlabNext]_SlabP!slabVars
<1>1. CASE UNCHANGED slabVars
  BY <1>1, SlabIsSlab
<1>2. ASSUME NEW t \in Threads, Suspend(t)
      PROVE  SlabP!SlabNext
  <2> DEFINE cont == [agent |-> frame[t].agent, step |-> frame[t].step]
  <2>1. cont \in Awaits /\ Slab!Insert(cont)
    BY <1>2 DEF SchedulerInv, WorkerTypes, Suspend, Workers, Frames, Awaits
  <2>2. SlabP!Insert(cont)
    BY <2>1, SlabIsSlab
  <2> QED BY <2>1, <2>2 DEF SlabP!SlabNext
<1>3. ASSUME NEW t, NEW reply, Continue(t, reply)
      PROVE  [SlabP!SlabNext]_SlabP!slabVars
  <2>1. SlabP!Remove(reply.handle)
    BY <1>3, SlabIsSlab DEF Continue
  <2> QED BY <2>1, SlabP!RemoveIsStep, NoneAssumption, SchedulerAssumption
<1> QED BY <1>1, <1>2, <1>3
        DEF Next, Dispatch, RunToAwait, RunToEnd, IoCompletes, Resume, ResumeAgain,
            Quiescent, vars, slabVars

(* The vector of the slab is never longer than there are agents.           *)
LEMMA SlabStaysInBound == Spec => []SlabP!HighWater
<1>1. Init => SlabP!HighWater
  <2>1. Init => SlabP!SlabInit
    BY DEF Init, Slab!SlabInit, SlabP!SlabInit
  <2> QED BY <2>1, SlabP!InitHighWater, NoneAssumption, SchedulerAssumption
<1>2. SchedulerInv /\ SlabP!HighWater /\ [Next]_vars => SlabP!HighWater'
  BY StepCallsSlab, SlabP!NextHighWater, NoneAssumption, SchedulerAssumption
<1> QED BY <1>1, <1>2, SchedulerInvariant, PTL DEF Spec

(* What dispatch and resume do to the slab is a behaviour of the slab, so  *)
(* that what is proved of it by itself holds in the scheduler, however its *)
(* callers interleave: it is a map from handles to continuations that      *)
(* never replaces one by another (scheduler.rs, execute and resume).       *)
THEOREM SchedulerRunsSlab ==
  Spec => SlabP!SlabSpec /\ SlabP!SlabImplementsMap /\ SlabP!NoOverwrite
<1>1. Init => SlabP!SlabInit
  BY DEF Init, Slab!SlabInit, SlabP!SlabInit
<1>2. SchedulerInv /\ SlabP!HighWater /\ [Next]_vars => [SlabP!SlabNext]_SlabP!slabVars
  BY StepCallsSlab
<1>3. Spec => SlabP!SlabSpec
  BY <1>1, <1>2, SchedulerInvariant, SlabStaysInBound, PTL DEF Spec, SlabP!SlabSpec
<1>4. SlabP!SlabSpec => SlabP!SlabImplementsMap
  BY SlabP!SlabRefinesMap, NoneAssumption, SchedulerAssumption
<1>5. SlabP!SlabSpec => SlabP!NoOverwrite
  BY SlabP!NeverOverwrites, NoneAssumption, SchedulerAssumption
<1> QED BY <1>3, <1>4, <1>5

(* An agent that is about to be stored leaves a slot for itself: no bound  *)
(* of the model ever keeps dispatch or resume from storing a continuation, *)
(* as nothing but memory does in the code (scheduler.rs, execute).         *)
THEOREM SuspendNeverBlocked ==
  Spec => [](\A t \in Threads : pc[t] = "suspended" => count < MaxAgents)
<1>1. ASSUME SchedulerInv, NEW t \in Threads, pc[t] = "suspended"
      PROVE  count < MaxAgents
  <2> DEFINE others == AgentIds \ {frame[t].agent}
             who == [i \in Slab!Occupied |-> Slab!Get(i).agent]
  <2>1. t \in Workers /\ frame[t] # None /\ frame[t].agent \in AgentIds
    BY <1>1 DEF SchedulerInv, WorkerTypes, Workers, Frames
  <2>2. /\ count = Cardinality(Slab!Occupied)
        /\ \A i : i \in Slab!Occupied <=> i \in Nat /\ Slab!Get(i) # None
        /\ \A i \in Slab!Occupied : Slab!Get(i).agent \in AgentIds
    <3>1. count = SlabP!Cardinality(SlabP!Occupied)
      BY <1>1 DEF SchedulerInv, SlabP!SlabInv, SlabP!CountExact
    <3>2. SlabP!Cardinality(SlabP!Occupied) = Cardinality(SlabP!Occupied)
      BY DEF SlabP!Cardinality, Cardinality
    <3>3. count = Cardinality(Slab!Occupied)
      BY <3>1, <3>2, SlabIsSlab
    <3> QED BY <1>1, <3>3, SlabGet DEF SchedulerInv, Awaits
  <2>3. \A i \in Slab!Occupied : who[i] \in others
    BY <1>1, <2>1, <2>2 DEF SchedulerInv, OnePlace, Holds, Runs
  <2>4. \A i, j \in Slab!Occupied : who[i] = who[j] => i = j
    BY <1>1, <2>2 DEF SchedulerInv, OnePlace, Holds
  <2>5. who \in Injection(Slab!Occupied, others)
    BY <2>3, <2>4 DEF Injection, IsInjective
  <2>6. IsFiniteSet(others) /\ Cardinality(others) = MaxAgents - 1
    <3>1. IsFiniteSet(AgentIds) /\ Cardinality(AgentIds) = MaxAgents
      BY FS_Interval, SchedulerAssumption DEF AgentIds
    <3> QED BY <2>1, <3>1, FS_RemoveElement
  <2>7. Cardinality(Slab!Occupied) <= Cardinality(others)
    BY <2>5, <2>6, FS_Injection
  <2> HIDE DEF others
  <2>8. IsFiniteSet(Slab!Occupied)
    BY <2>5, <2>6, FS_Injection
  <2>9. Cardinality(Slab!Occupied) \in Nat
    BY <2>8, FS_CardinalityType
  <2> QED BY <2>2, <2>6, <2>7, <2>9, SchedulerAssumption
<1>2. SchedulerInv => \A t \in Threads : pc[t] = "suspended" => count < MaxAgents
  BY <1>1
<1> QED BY <1>2, SchedulerInvariant, PTL

(* The bounds of the handles and of repeated calls, on which the types     *)
(* rest; a handle is below the bound as the vector is.                     *)
CallsInBound ==
  pending \subseteq Replies /\ answered \subseteq Replies /\ retries \in 0 .. MaxRetries

(* A step keeps them: only Suspend makes a new handle.                     *)
LEMMA CallsStayInBound ==
  ASSUME SchedulerInv, SlabP!HighWater, CallsInBound, [Next]_vars
  PROVE  CallsInBound'
<1>1. CASE UNCHANGED <<pending, answered, retries>>
  BY <1>1 DEF CallsInBound
<1>2. ASSUME NEW t \in Threads, Suspend(t)
      PROVE  CallsInBound'
  <2> DEFINE cont == [agent |-> frame[t].agent, step |-> frame[t].step]
  <2>1. cont \in Awaits /\ Slab!Insert(cont)
    BY <1>2 DEF SchedulerInv, WorkerTypes, Suspend, Workers, Frames, Awaits
  <2>2. Slab!InsertIndex \in 0 .. MaxAgents - 1
    BY <2>1, SlabIsSlab, SlabP!InsertInRange, NoneAssumption, SchedulerAssumption
  <2> QED BY <1>2, <2>1, <2>2 DEF CallsInBound, Suspend, Replies
<1>3. ASSUME NEW t \in Threads, NEW reply \in pending, Resume(t, reply)
      PROVE  CallsInBound'
  BY <1>3 DEF CallsInBound, Resume
<1>4. ASSUME NEW t \in Threads, NEW reply \in answered, ResumeAgain(t, reply)
      PROVE  CallsInBound'
  BY <1>4, SchedulerAssumption DEF CallsInBound, ResumeAgain
<1> QED BY <1>1, <1>2, <1>3, <1>4
        DEF Next, Dispatch, RunToAwait, RunToEnd, IoCompletes, Quiescent, vars

(* The types of the scheduler: in particular a handle is an index below    *)
(* the number of agents, however many calls were made (scheduler.rs:73).   *)
THEOREM SchedulerTypesOK == Spec => []TypeOK
<1>1. Init => CallsInBound
  BY SchedulerAssumption DEF Init, CallsInBound
<1>2. SchedulerInv /\ SlabP!HighWater /\ CallsInBound /\ [Next]_vars => CallsInBound'
  BY CallsStayInBound
<1>3. SchedulerInv /\ CallsInBound => TypeOK
  <2> SUFFICES ASSUME SchedulerInv, CallsInBound PROVE TypeOK
    OBVIOUS
  <2>1. Slab!SlabTypeOK
    BY DEF SchedulerInv, SlabP!SlabInv, SlabP!SlabTypeOK, Slab!SlabTypeOK
  <2> QED BY <2>1 DEF SchedulerInv, WorkerTypes, CallsInBound, TypeOK
<1> QED BY <1>1, <1>2, <1>3, SchedulerInvariant, SlabStaysInBound, PTL DEF Spec

-----------------------------------------------------------------------------
(* A sequence, of whatever elements.                                       *)
IsSeq(s) == Len(s) \in Nat /\ s = [i \in 1 .. Len(s) |-> s[i]]

Stages == {"run", "fetching", "kv open", "kv access", "kv close", "d1 open", "d1 exec", "done"}
Opened == {"kv access", "kv close"}

(* Types, and what each stage of an agent says of the suspension it is at. *)
IoTypes ==
  /\ script \in Scripts
  /\ stage \in [Agents -> Stages]
  /\ DOMAIN got = Agents /\ DOMAIN flight = Agents /\ DOMAIN handle = Agents
  /\ DOMAIN kv = Keys
  /\ \A t \in Agents :
       /\ IsSeq(got[t]) /\ IsSeq(flight[t])
       /\ Len(got[t]) <= Len(script)
       /\ stage[t] \notin {"run", "done"} => Len(got[t]) < Len(script)
       /\ stage[t] = "fetching" => Io(t).op \in {"fetch", "all"}
       /\ stage[t] \in {"kv open", "kv access", "kv close"} => Io(t).op \in {"get", "put"}
       /\ stage[t] \in {"d1 open", "d1 exec"} => Io(t).op = "d1"

(* The namespace is open for exactly the agent that is at an operation.    *)
OpenForOne ==
  /\ \A t \in Agents : stage[t] \in Opened => kv_owner = t
  /\ kv_owner # Null => kv_owner \in Agents /\ stage[kv_owner] \in Opened

(* What an agent was told it stored is there, and what the operation under *)
(* way is about to tell it is true.                                        *)
ToldStored(t, p) == p \in 1 .. Len(got[t]) /\ script[p].op = "put" /\ got[t][p] = Undefined

Stored ==
  \A t \in Agents :
    /\ \A p : ToldStored(t, p) => kv[script[p].key] # Null
    /\ stage[t] = "kv close" =>
         /\ Io(t).op = "put" /\ handle[t] = Undefined => kv[Io(t).key] # Null
         /\ Io(t).op = "get" /\ handle[t] = NullValue => kv[Io(t).key] = Null

(* The completions in flight are those of different requests of the await  *)
(* the agent is at.                                                        *)
Completion(t, c) ==
  /\ c.i \in 0 .. Requests(Io(t)) - 1
  /\ c.v \in {Page(t, Len(got[t]) + 1, c.i), NoBody, Text("fetch error")}

InFlightOf(t) ==
  /\ \A k \in 1 .. Len(flight[t]) : Completion(t, flight[t][k])
  /\ \A j, k \in 1 .. Len(flight[t]) : flight[t][j].i = flight[t][k].i => j = k
  /\ stage[t] # "fetching" => flight[t] = <<>>

InFlight == \A t \in Agents : InFlightOf(t)

(* The inductive invariant.                                                *)
IoInv ==
  /\ IoTypes
  /\ OpenForOne
  /\ Stored
  /\ StoredIsFound
  /\ InFlight
  /\ CombinedByPosition

-----------------------------------------------------------------------------
(* One more element.                                                       *)
LEMMA AppendAny ==
  ASSUME NEW s, NEW v, IsSeq(s)
  PROVE  /\ IsSeq(Append(s, v)) /\ Len(Append(s, v)) = Len(s) + 1
         /\ \A i \in 1 .. Len(s) : Append(s, v)[i] = s[i]
         /\ Append(s, v)[Len(s) + 1] = v
<1> DEFINE S == {s[i] : i \in 1 .. Len(s)} \cup {v}
<1>1. s \in Seq(S) /\ v \in S
  BY DEF IsSeq
<1> HIDE DEF S
<1>2. /\ Append(s, v) \in Seq(S)
      /\ Len(Append(s, v)) = Len(s) + 1
      /\ \A i \in 1 .. Len(s) : Append(s, v)[i] = s[i]
      /\ Append(s, v)[Len(s) + 1] = v
  BY <1>1, AppendProperties
<1>3. IsSeq(Append(s, v))
  BY <1>2, LenProperties DEF IsSeq
<1> QED BY <1>2, <1>3

(* Arithmetic that the steps below need stated by itself.                  *)
LEMMA UpToNext == \A n \in Nat : \A k \in 1 .. n + 1 : k \in 1 .. n \/ k = n + 1
  OBVIOUS

(* A number is not greater than itself.                                    *)
LEMMA NoMoreThanItself == \A n \in Nat : ~(n > n)
  OBVIOUS

(* The empty sequence.                                                     *)
LEMMA EmptyIsSeq == IsSeq(<<>>)
  BY DEF IsSeq

(* Nothing in flight is right at any stage.                                *)
LEMMA EmptyInFlight == \A t : flight'[t] = <<>> => InFlightOf(t)'
<1>1. 1 .. Len(<<>>) = {}
  OBVIOUS
<1> QED BY <1>1 DEF InFlightOf

(* Texts, null and undefined are different values.                         *)
LEMMA TagsDiffer ==
  /\ \A s : Text(s) # NullValue /\ Text(s) # Undefined
  /\ NullValue # Undefined
<1>1. \A s : DOMAIN Text(s) = {"text"}
  BY DEF Text
<1>2. DOMAIN NullValue = {"null"} /\ DOMAIN Undefined = {"undefined"}
  BY DEF NullValue, Undefined
<1>3. {"text"} # {"null"} /\ {"text"} # {"undefined"} /\ {"null"} # {"undefined"}
  OBVIOUS
<1> QED BY <1>1, <1>2, <1>3

(* The suspension an agent is at.                                          *)
LEMMA AtSuspension ==
  ASSUME IoTypes, NEW t \in Agents, stage[t] \notin {"run", "done"}
  PROVE  Len(got[t]) + 1 \in 1 .. Len(script) /\ IsIo(Io(t))
<1>1. /\ Len(got[t]) \in Nat /\ Len(got[t]) < Len(script)
      /\ script \in Scripts
  BY DEF IoTypes, IsSeq
<1>2. Len(script) \in Nat /\ \A p \in 1 .. Len(script) : IsIo(script[p])
  BY <1>1, IoAssumption DEF IoTypes
<1> QED BY <1>1, <1>2 DEF Io

-----------------------------------------------------------------------------
(* All agents are about to run and nobody has the namespace open.          *)
LEMMA InitIo == IoInit => IoInv
<1> SUFFICES ASSUME IoInit PROVE IoInv
  OBVIOUS
<1>1. \A t \in Agents : /\ stage[t] = "run" /\ got[t] = <<>> /\ flight[t] = <<>>
  BY DEF IoInit
<1>2. Len(script) \in Nat /\ script \in Scripts
  BY IoAssumption DEF IoInit
<1>3. IsSeq(<<>>) /\ Len(<<>>) = 0
  BY DEF IsSeq
<1>4. IoTypes
  BY <1>1, <1>2, <1>3 DEF IoInit, IoTypes, Stages, Kv!EmptyKv
<1>5. OpenForOne
  BY <1>1 DEF IoInit, OpenForOne, Opened
<1>6. Stored /\ StoredIsFound /\ CombinedByPosition
  <2>1. \A t \in Agents : 1 .. Len(got[t]) = {} /\ \A p \in 1 .. Len(script) : ~(p <= Len(got[t]))
    BY <1>1, <1>2, <1>3
  <2> QED BY <1>1, <2>1 DEF Stored, ToldStored, StoredIsFound, CombinedByPosition
<1>7. InFlight
  <2>1. 1 .. Len(<<>>) = {}
    OBVIOUS
  <2> QED BY <1>1, <2>1 DEF InFlight, InFlightOf
<1> QED BY <1>4, <1>5, <1>6, <1>7 DEF IoInv

(* An answer that says what is so.                                         *)
TrueAnswer(t, v) ==
  /\ Io(t).op = "put" /\ v = Undefined => kv[Io(t).key] # Null
  /\ Io(t).op = "get" /\ v = NullValue => kv[Io(t).key] = Null
  /\ Io(t).op = "all" =>
       \A i \in 0 .. Io(t).count - 1 :
         v.entries[i] \in {Page(t, Len(got[t]) + 1, i), NoBody, Text("fetch error")}

(* What a step that answers agent t, or moves it on, leaves alone.         *)
OthersStay(t) ==
  /\ UNCHANGED <<script, kv>>
  /\ DOMAIN flight' = Agents /\ DOMAIN handle' = Agents
  /\ flight'[t] = <<>>
  /\ \A u \in Agents \ {t} : flight'[u] = flight[u] /\ handle'[u] = handle[u]

(* The agent is resumed with a true answer.                                *)
LEMMA AnswerPreserves ==
  ASSUME IoInv, NEW t \in Agents, NEW v, TrueAnswer(t, v), ResumeWith(t, v),
         stage[t] \notin {"run", "done"}, OthersStay(t), OpenForOne'
  PROVE  IoInv'
<1> DEFINE n == Len(got[t])
<1>1. /\ stage' \in [Agents -> Stages] /\ stage'[t] = "run"
      /\ \A u \in Agents \ {t} : stage'[u] = stage[u]
  BY DEF ResumeWith, IoInv, IoTypes, Stages
<1>2. /\ DOMAIN got' = Agents /\ got'[t] = Append(got[t], v)
      /\ \A u \in Agents \ {t} : got'[u] = got[u]
  BY DEF ResumeWith, IoInv, IoTypes
<1>3. /\ n \in Nat /\ n < Len(script) /\ Len(script) \in Nat /\ script \in Scripts
      /\ script' = script /\ kv' = kv
      /\ Io(t) = script[n + 1] /\ IsIo(Io(t))
  BY AtSuspension, IoAssumption DEF IoInv, IoTypes, IsSeq, OthersStay, Io
<1>4. /\ IsSeq(got'[t]) /\ Len(got'[t]) = n + 1
      /\ \A i \in 1 .. n : got'[t][i] = got[t][i]
      /\ got'[t][n + 1] = v
  <2>1. IsSeq(got[t])
    BY DEF IoInv, IoTypes
  <2> QED BY <1>2, <2>1, AppendAny
<1> HIDE DEF n
<1>5. \A u \in Agents \ {t} : Io(u)' = Io(u)
  BY <1>2, <1>3 DEF Io
<1>6. IoTypes'
  <2>1. IsSeq(<<>>)
    BY EmptyIsSeq
  <2>2. ASSUME NEW u \in Agents
        PROVE  /\ IsSeq(got'[u]) /\ IsSeq(flight'[u])
               /\ Len(got'[u]) <= Len(script')
               /\ stage'[u] \notin {"run", "done"} => Len(got'[u]) < Len(script')
               /\ stage'[u] = "fetching" => Io(u)'.op \in {"fetch", "all"}
               /\ stage'[u] \in {"kv open", "kv access", "kv close"}
                    => Io(u)'.op \in {"get", "put"}
               /\ stage'[u] \in {"d1 open", "d1 exec"} => Io(u)'.op = "d1"
    <3>1. CASE u = t
      BY <1>1, <1>3, <1>4, <2>1, <3>1 DEF OthersStay
    <3>2. CASE u # t
      BY <1>1, <1>2, <1>3, <1>5, <3>2 DEF OthersStay, IoInv, IoTypes
    <3> QED BY <3>1, <3>2
  <2> QED BY <1>1, <1>2, <1>3, <2>2 DEF IoTypes, OthersStay, IoInv
<1>7. \A p : ToldStored(t, p)' => \/ ToldStored(t, p)
                                  \/ p = n + 1 /\ Io(t).op = "put" /\ v = Undefined
  BY <1>3, <1>4 DEF ToldStored, n
<1>8. Stored'
  <2>1. ASSUME NEW p, ToldStored(t, p)' PROVE kv'[script'[p].key] # Null
    <3>1. CASE ToldStored(t, p)
      BY <1>3, <3>1 DEF IoInv, Stored
    <3>2. CASE p = n + 1 /\ Io(t).op = "put" /\ v = Undefined
      BY <1>3, <3>2 DEF TrueAnswer
    <3> QED BY <1>7, <2>1, <3>1, <3>2
  <2>2. ASSUME NEW u \in Agents \ {t}
        PROVE  /\ \A p : ToldStored(u, p)' => ToldStored(u, p)
               /\ Io(u)' = Io(u) /\ handle'[u] = handle[u] /\ stage'[u] = stage[u]
    BY <1>1, <1>2, <1>3, <1>5 DEF ToldStored, OthersStay
  <2>3. ASSUME NEW u \in Agents \ {t}
        PROVE  /\ \A p : ToldStored(u, p)' => kv'[script'[p].key] # Null
               /\ stage'[u] = "kv close" =>
                    /\ Io(u)'.op = "put" /\ handle'[u] = Undefined
                         => kv'[Io(u)'.key] # Null
                    /\ Io(u)'.op = "get" /\ handle'[u] = NullValue
                         => kv'[Io(u)'.key] = Null
    BY <1>3, <2>2 DEF IoInv, Stored
  <2> QED BY <1>1, <2>1, <2>3 DEF Stored
<1>9. StoredIsFound'
  <2> SUFFICES ASSUME NEW u \in Agents,
                      NEW p \in 1 .. Len(got'[u]), NEW q \in 1 .. Len(got'[u]),
                      p < q, script[p].op = "put", script[q].op = "get",
                      script[p].key = script[q].key, got'[u][p] = Undefined
               PROVE  got'[u][q] # NullValue
    BY <1>3 DEF StoredIsFound
  <2>1. CASE u # t
    BY <1>2, <2>1 DEF IoInv, StoredIsFound
  <2>2. CASE u = t /\ q <= n
    <3>1. /\ p \in 1 .. Len(got[t]) /\ q \in 1 .. Len(got[t])
          /\ got'[t][p] = got[t][p] /\ got'[t][q] = got[t][q]
      BY <1>3, <1>4, <2>2 DEF n
    <3> QED BY <2>2, <3>1 DEF IoInv, StoredIsFound
  <2>3. CASE u = t /\ q = n + 1
    <3>1. p \in 1 .. n /\ got[t][p] = Undefined
      BY <1>3, <1>4, <2>3
    <3>2. ToldStored(t, p)
      BY <3>1 DEF ToldStored, n
    <3>3. kv[script[q].key] # Null
      BY <3>2 DEF IoInv, Stored
    <3> QED BY <1>3, <1>4, <2>3, <3>3 DEF TrueAnswer
  <2> QED BY <1>3, <1>4, <2>1, <2>2, <2>3
<1>10. InFlight'
  <2>1. \A u \in Agents \ {t} : /\ stage'[u] = stage[u] /\ flight'[u] = flight[u]
                                  /\ Io(u)' = Io(u)
                               /\ got'[u] = got[u]
    BY <1>1, <1>2, <1>5 DEF OthersStay
  <2>2. \A u \in Agents \ {t} : \A c : Completion(u, c)' <=> Completion(u, c)
    BY <2>1 DEF Completion, Requests
  <2>3. InFlightOf(t)'
    BY EmptyInFlight DEF OthersStay
  <2>4. ASSUME NEW u \in Agents \ {t} PROVE InFlightOf(u)'
    BY <2>1, <2>2 DEF IoInv, InFlight, InFlightOf
  <2> QED BY <2>3, <2>4 DEF InFlight
<1>11. CombinedByPosition'
  <2> SUFFICES ASSUME NEW u \in Agents, NEW p \in 1 .. Len(script),
                      p <= Len(got'[u]), script[p].op = "all",
                      NEW i \in 0 .. script[p].count - 1
               PROVE  got'[u][p].entries[i] \in {Page(u, p, i), NoBody, Text("fetch error")}
    BY <1>3 DEF CombinedByPosition
  <2>1. CASE u # t
    BY <1>2, <2>1 DEF IoInv, CombinedByPosition
  <2>2. CASE u = t /\ p <= n
    <3>1. p \in 1 .. n /\ got'[u][p] = got[t][p]
      BY <1>3, <1>4, <2>2
    <3>2. p <= Len(got[t])
      BY <2>2 DEF n
    <3> QED BY <2>2, <3>1, <3>2 DEF IoInv, CombinedByPosition
  <2>3. CASE u = t /\ p = n + 1
    BY <1>3, <1>4, <2>3 DEF TrueAnswer, n
  <2>4. u = t => p <= n \/ p = n + 1
    BY <1>3, <1>4
  <2> QED BY <2>1, <2>2, <2>3, <2>4
<1> QED BY <1>6, <1>8, <1>9, <1>10, <1>11 DEF IoInv

(* The agent goes on to a stage at which it waits for nothing yet.         *)
LEMMA MovePreserves ==
  ASSUME IoInv, NEW t \in Agents, NEW s \in Stages \ {"kv close"},
         stage' = [stage EXCEPT ![t] = s], UNCHANGED got, OthersStay(t), OpenForOne',
         s \notin {"run", "done"} => Len(got[t]) < Len(script),
         s = "fetching" => Io(t).op \in {"fetch", "all"},
         s \in {"kv open", "kv access"} => Io(t).op \in {"get", "put"},
         s \in {"d1 open", "d1 exec"} => Io(t).op = "d1"
  PROVE  IoInv'
<1>1. /\ stage' \in [Agents -> Stages] /\ stage'[t] = s
      /\ \A u \in Agents \ {t} : stage'[u] = stage[u]
  BY DEF IoInv, IoTypes
<1>2. script' = script /\ kv' = kv /\ got' = got /\ \A u \in Agents : Io(u)' = Io(u)
  BY DEF OthersStay, Io
<1>3. IsSeq(<<>>)
  BY EmptyIsSeq
<1>4. IoTypes'
  <2>1. ASSUME NEW u \in Agents
        PROVE  /\ IsSeq(got'[u]) /\ IsSeq(flight'[u])
               /\ Len(got'[u]) <= Len(script')
               /\ stage'[u] \notin {"run", "done"} => Len(got'[u]) < Len(script')
               /\ stage'[u] = "fetching" => Io(u)'.op \in {"fetch", "all"}
               /\ stage'[u] \in {"kv open", "kv access", "kv close"}
                    => Io(u)'.op \in {"get", "put"}
               /\ stage'[u] \in {"d1 open", "d1 exec"} => Io(u)'.op = "d1"
    <3>1. CASE u = t
      BY <1>1, <1>2, <1>3, <3>1 DEF OthersStay, IoInv, IoTypes
    <3>2. CASE u # t
      BY <1>1, <1>2, <3>2 DEF OthersStay, IoInv, IoTypes
    <3> QED BY <3>1, <3>2
  <2> QED BY <1>1, <1>2, <2>1 DEF IoTypes, OthersStay, IoInv
<1>5. Stored'
  <2>1. \A u \in Agents : \A p : ToldStored(u, p)' <=> ToldStored(u, p)
    BY <1>2 DEF ToldStored
  <2>2. \A u \in Agents : stage'[u] = "kv close" => stage[u] = "kv close" /\ handle'[u] = handle[u]
    BY <1>1 DEF OthersStay
  <2> QED BY <1>2, <2>1, <2>2 DEF IoInv, Stored
<1>6. StoredIsFound' /\ CombinedByPosition'
  BY <1>2 DEF IoInv, StoredIsFound, CombinedByPosition
<1>7. InFlight'
  <2>1. \A u \in Agents : \A c : Completion(u, c)' <=> Completion(u, c)
    BY <1>2 DEF Completion, Requests
  <2>2. ASSUME NEW u \in Agents \ {t}
        PROVE  stage'[u] = stage[u] /\ flight'[u] = flight[u]
    BY <1>1 DEF OthersStay
  <2>3. InFlightOf(t)'
    BY EmptyInFlight DEF OthersStay
  <2>4. ASSUME NEW u \in Agents \ {t} PROVE InFlightOf(u)'
    BY <2>1, <2>2 DEF IoInv, InFlight, InFlightOf
  <2> QED BY <2>3, <2>4 DEF InFlight
<1> QED BY <1>4, <1>5, <1>6, <1>7 DEF IoInv

(* What agents were told before.                                           *)
LEMMA PastKept ==
  ASSUME StoredIsFound, CombinedByPosition, UNCHANGED script, UNCHANGED got
  PROVE  StoredIsFound' /\ CombinedByPosition'
<1>1. script' = script /\ got' = got
  OBVIOUS
<1>2. StoredIsFound'
  BY <1>1 DEF StoredIsFound
<1>3. CombinedByPosition'
  BY <1>1 DEF CombinedByPosition
<1> QED BY <1>2, <1>3

(* What is in flight for an agent whose stage and requests stay.           *)
LEMMA FlightKept ==
  ASSUME NEW u, InFlightOf(u), flight'[u] = flight[u],
         stage'[u] = stage[u], \A c : Completion(u, c)' <=> Completion(u, c)
  PROVE  InFlightOf(u)'
  BY DEF InFlightOf

(* Nothing of it changes.                                                  *)
LEMMA IoKept ==
  ASSUME IoInv, UNCHANGED <<script, stage, got, flight, handle, kv, kv_owner>>
  PROVE  IoInv'
<1>1. \A t \in Agents : Io(t)' = Io(t)
  BY DEF Io
<1>2. IoTypes'
  BY <1>1 DEF IoInv, IoTypes
<1>3. OpenForOne'
  BY DEF IoInv, OpenForOne
<1>4. Stored'
  <2>1. \A u \in Agents : \A p : ToldStored(u, p)' <=> ToldStored(u, p)
    BY DEF ToldStored
  <2> QED BY <1>1, <2>1 DEF IoInv, Stored
<1>5. StoredIsFound' /\ CombinedByPosition'
  BY PastKept DEF IoInv
<1>6. InFlight'
  <2>1. \A u \in Agents : \A c : Completion(u, c)' <=> Completion(u, c)
    BY <1>1 DEF Completion, Requests
  <2>2. ASSUME NEW u \in Agents PROVE InFlightOf(u)'
    BY <2>1 DEF IoInv, InFlight, InFlightOf
  <2> QED BY <2>2 DEF InFlight
<1> QED BY <1>2, <1>3, <1>4, <1>5, <1>6 DEF IoInv

(* An agent that is not at a fetch has nothing in flight, and a step of it *)
(* that touches neither requests nor handles leaves the others alone.      *)
LEMMA OthersUntouched ==
  ASSUME IoInv, NEW t \in Agents, stage[t] # "fetching", UNCHANGED <<script, kv, flight, handle>>
  PROVE  OthersStay(t)
  BY DEF IoInv, IoTypes, InFlight, InFlightOf, OthersStay

(* The owner stays while no agent comes to an operation or leaves one.     *)
LEMMA OwnerKept ==
  ASSUME IoInv, NEW t \in Agents, NEW s, stage' = [stage EXCEPT ![t] = s], UNCHANGED kv_owner,
         s \in Opened <=> stage[t] \in Opened
  PROVE  OpenForOne'
  BY DEF IoInv, IoTypes, OpenForOne

(* The turns of the VM, and the panic that ends a task.                    *)
LEMMA RunPreserves ==
  ASSUME IoInv, NEW t \in Agents, RunDone(t) \/ RunError(t) \/ RunSuspends(t) \/ TaskPanics(t)
  PROVE  IoInv'
<1>1. CASE RunDone(t) \/ RunError(t)
  <2>1. /\ stage[t] = "run" /\ stage' = [stage EXCEPT ![t] = "done"]
        /\ UNCHANGED <<script, got, flight, handle, kv, kv_owner>>
    BY <1>1 DEF RunDone, RunError, Finish, storeVars
  <2>2. OthersStay(t)
    BY <2>1, OthersUntouched
  <2>3. OpenForOne'
    BY <2>1, OwnerKept DEF Opened
  <2> QED BY <2>1, <2>2, <2>3, MovePreserves DEF Stages
<1>2. CASE RunSuspends(t)
  <2> DEFINE s == Stage(Io(t))
  <2>1. /\ stage[t] = "run" /\ stage' = [stage EXCEPT ![t] = s]
        /\ UNCHANGED <<script, got, flight, handle, kv, kv_owner>>
        /\ Len(got[t]) < Len(script) /\ Io(t).op # "trap"
    BY <1>2 DEF RunSuspends, storeVars
  <2>2. IsIo(Io(t))
    <3>1. Len(got[t]) \in Nat /\ script \in Scripts
      BY DEF IoInv, IoTypes, IsSeq
    <3>2. Len(script) \in Nat /\ \A p \in 1 .. Len(script) : IsIo(script[p])
      BY <3>1, IoAssumption DEF IoInv, IoTypes
    <3>3. Len(got[t]) + 1 \in 1 .. Len(script)
      BY <2>1, <3>1, <3>2
    <3> QED BY <3>2, <3>3 DEF Io
  <2>3. Io(t).op \in {"fetch", "all", "get", "put", "d1"}
    BY <2>1, <2>2 DEF IsIo
  <2>4. /\ s \in {"fetching", "kv open", "d1 open"}
        /\ s = "fetching" => Io(t).op \in {"fetch", "all"}
        /\ s = "kv open" => Io(t).op \in {"get", "put"}
        /\ s = "d1 open" => Io(t).op = "d1"
    BY <2>3 DEF Stage
  <2> HIDE DEF s
  <2>5. OthersStay(t)
    BY <2>1, OthersUntouched
  <2>6. OpenForOne'
    BY <2>1, <2>4, OwnerKept DEF Opened
  <2> QED BY <2>1, <2>4, <2>5, <2>6, MovePreserves DEF Stages
<1>3. CASE TaskPanics(t)
  <2>1. /\ stage[t] = "fetching" /\ flight[t] = <<>> /\ stage' = [stage EXCEPT ![t] = "done"]
        /\ UNCHANGED <<script, got, flight, handle, kv, kv_owner>>
    BY <1>3 DEF TaskPanics, Finish, storeVars
  <2>2. OthersStay(t)
    BY <2>1 DEF IoInv, IoTypes, OthersStay
  <2>3. OpenForOne'
    BY <2>1, OwnerKept DEF Opened
  <2> QED BY <2>1, <2>2, <2>3, MovePreserves DEF Stages
<1> QED BY <1>1, <1>2, <1>3

(* D1: nothing it does is about the namespace or about requests.           *)
LEMMA D1Preserves ==
  ASSUME IoInv, NEW t \in Agents, D1Open(t) \/ D1Step(t) \/ D1Done(t)
  PROVE  IoInv'
<1>1. /\ stage[t] \in {"d1 open", "d1 exec"} /\ UNCHANGED <<script, flight, handle, kv, kv_owner>>
      /\ \/ \E v : ResumeWith(t, v)
         \/ UNCHANGED got /\ stage' = [stage EXCEPT ![t] = "d1 exec"]
         \/ UNCHANGED <<got, stage>>
  BY DEF D1Open, D1Step, D1Done, storeVars
<1>2. OthersStay(t) /\ Io(t).op = "d1" /\ Len(got[t]) < Len(script)
  BY <1>1, OthersUntouched DEF IoInv, IoTypes
<1>3. ASSUME NEW v, ResumeWith(t, v) PROVE IoInv'
  <2>1. OpenForOne'
    BY <1>1, <1>3, OwnerKept DEF ResumeWith, Opened
  <2>2. TrueAnswer(t, v)
    BY <1>2 DEF TrueAnswer
  <2> QED BY <1>1, <1>2, <1>3, <2>1, <2>2, AnswerPreserves
<1>4. CASE UNCHANGED got /\ stage' = [stage EXCEPT ![t] = "d1 exec"]
  <2>1. OpenForOne'
    BY <1>1, <1>4, OwnerKept DEF Opened
  <2> QED BY <1>2, <1>4, <2>1, MovePreserves DEF Stages
<1>5. CASE UNCHANGED <<got, stage>>
  BY <1>1, <1>5, IoKept
<1> QED BY <1>1, <1>3, <1>4, <1>5

(* Opening the namespace: at most one agent has it open.                   *)
LEMMA KvOpenPreserves ==
  ASSUME IoInv, NEW t \in Agents, KvOpen(t)
  PROVE  IoInv'
<1>1. /\ stage[t] = "kv open" /\ UNCHANGED <<script, flight, handle, kv>>
      /\ Io(t).op \in {"get", "put"} /\ Len(got[t]) < Len(script)
  BY DEF KvOpen, IoInv, IoTypes
<1>2. OthersStay(t)
  BY <1>1, OthersUntouched
<1>3. CASE kv_owner = Null
  <2>1. kv_owner' = t /\ UNCHANGED got /\ stage' = [stage EXCEPT ![t] = "kv access"]
    BY <1>3 DEF KvOpen
  <2>2. OpenForOne'
    BY <1>1, <1>3, <2>1, IoAssumption DEF IoInv, IoTypes, OpenForOne, Opened
  <2> QED BY <1>1, <1>2, <2>1, <2>2, MovePreserves DEF Stages
<1>4. CASE kv_owner # Null
  <2> DEFINE v == Text("KV open error")
  <2>1. ResumeWith(t, v) /\ UNCHANGED kv_owner
    BY <1>4 DEF KvOpen
  <2>2. TrueAnswer(t, v)
    BY <1>1, TagsDiffer DEF TrueAnswer
  <2>3. OpenForOne'
    BY <1>1, <2>1, OwnerKept DEF ResumeWith, Opened
  <2> QED BY <1>1, <1>2, <2>1, <2>2, <2>3, AnswerPreserves
<1> QED BY <1>3, <1>4

(* The operation: the agent alone has the namespace open, so what it does  *)
(* and what it leaves as its result are about the same values.             *)
LEMMA KvAccessPreserves ==
  ASSUME IoInv, NEW t \in Agents, KvAccess(t)
  PROVE  IoInv'
<1>1. /\ stage[t] = "kv access" /\ stage' = [stage EXCEPT ![t] = "kv close"]
      /\ UNCHANGED <<script, got, flight, kv_owner>>
      /\ DOMAIN handle' = Agents /\ \A u \in Agents \ {t} : handle'[u] = handle[u]
  BY DEF KvAccess, IoInv, IoTypes
<1>2. /\ stage' \in [Agents -> Stages] /\ stage'[t] = "kv close"
      /\ \A u \in Agents \ {t} : stage'[u] = stage[u]
      /\ \A u \in Agents : Io(u)' = Io(u)
  BY <1>1 DEF IoInv, IoTypes, Stages, Io
<1>3. Io(t).op \in {"get", "put"} /\ IsIo(Io(t)) /\ Io(t).key \in Keys
  BY <1>1, AtSuspension DEF IoInv, IoTypes, IsIo
<1>4. /\ DOMAIN kv' = Keys
      /\ \A k \in Keys : kv[k] # Null => kv'[k] # Null
      /\ Io(t).op = "put" /\ handle'[t] = Undefined => kv'[Io(t).key] # Null
      /\ Io(t).op = "get" /\ handle'[t] = NullValue => kv'[Io(t).key] = Null
  <2>1. DOMAIN handle = Agents /\ DOMAIN kv = Keys
    BY DEF IoInv, IoTypes
  <2>2. CASE Io(t).op = "get" /\ UNCHANGED kv
               /\ handle' = [handle EXCEPT ![t] =
                               IF Kv!Get(kv, Io(t).key) = Null THEN NullValue
                               ELSE Text(Kv!Get(kv, Io(t).key))]
    BY <2>1, <2>2, TagsDiffer DEF Kv!Get
  <2>3. CASE Io(t).op = "put" /\ kv' = Kv!Put(kv, Io(t).key, Io(t).value)
               /\ handle' = [handle EXCEPT ![t] = Undefined]
    BY <1>3, <2>1, <2>3 DEF Kv!Put, IsIo
  <2>4. CASE UNCHANGED kv /\ handle' = [handle EXCEPT ![t] = Text("KV error")]
    BY <2>1, <2>4, TagsDiffer
  <2> QED BY <2>2, <2>3, <2>4 DEF KvAccess
<1>5. IoTypes'
  BY <1>1, <1>2, <1>3, <1>4 DEF IoInv, IoTypes
<1>6. OpenForOne'
  BY <1>1, OwnerKept DEF Opened
<1>7. Stored'
  <2>1. \A u \in Agents : \A p : ToldStored(u, p)' <=> ToldStored(u, p)
    BY <1>1 DEF ToldStored
  <2>2. ASSUME NEW u \in Agents, NEW p, ToldStored(u, p)' PROVE kv'[script'[p].key] # Null
    <3>1. ToldStored(u, p) /\ kv[script[p].key] # Null
      <4>1. ToldStored(u, p)
        BY <2>1, <2>2
      <4>2. \A q : ToldStored(u, q) => kv[script[q].key] # Null
        BY DEF IoInv, Stored
      <4> QED BY <4>1, <4>2
    <3>2. script[p].key \in Keys
      <4>1. p \in 1 .. Len(got[u]) /\ script[p].op = "put"
        BY <3>1 DEF ToldStored
      <4>2. Len(got[u]) \in Nat /\ Len(got[u]) <= Len(script) /\ script \in Scripts
        BY DEF IoInv, IoTypes, IsSeq
      <4>3. Len(script) \in Nat /\ \A q \in 1 .. Len(script) : IsIo(script[q])
        BY <4>2, IoAssumption DEF IoInv, IoTypes
      <4>4. p \in 1 .. Len(script)
        BY <4>1, <4>2, <4>3
      <4> QED BY <4>1, <4>3, <4>4 DEF IsIo
    <3> QED BY <1>1, <1>4, <3>1, <3>2
  <2>3. \A u \in Agents : stage'[u] = "kv close" => u = t
    BY <1>1, <1>2 DEF IoInv, OpenForOne, Opened
  <2> QED BY <1>2, <1>4, <2>2, <2>3 DEF Stored
<1>8. StoredIsFound' /\ CombinedByPosition'
  BY <1>1, PastKept DEF IoInv
<1>9. InFlight'
  <2>1. \A u \in Agents : \A c : Completion(u, c)' <=> Completion(u, c)
    BY <1>1, <1>2 DEF Completion, Requests
  <2>2. ASSUME NEW u \in Agents PROVE InFlightOf(u)'
    <3>1. InFlightOf(u) /\ flight'[u] = flight[u]
      BY <1>1 DEF IoInv, InFlight
    <3>2. CASE u = t
      <4>1. flight'[u] = <<>>
        BY <1>1, <3>1, <3>2 DEF InFlightOf
      <4> QED BY <4>1, EmptyInFlight
    <3>3. CASE u # t
      BY <1>2, <2>1, <3>1, <3>3, FlightKept
    <3> QED BY <3>2, <3>3
  <2> QED BY <2>2 DEF InFlight
<1> QED BY <1>5, <1>6, <1>7, <1>8, <1>9 DEF IoInv

(* The handle is dropped and the result goes to the agent.                 *)
LEMMA KvClosePreserves ==
  ASSUME IoInv, NEW t \in Agents, KvClose(t)
  PROVE  IoInv'
<1>1. /\ stage[t] = "kv close" /\ ResumeWith(t, handle[t]) /\ kv_owner' = Null
      /\ UNCHANGED <<script, flight, kv>> /\ handle' = [handle EXCEPT ![t] = Null]
      /\ Io(t).op \in {"get", "put"}
  BY DEF KvClose, IoInv, IoTypes
<1>2. OthersStay(t)
  BY <1>1 DEF OthersStay, IoInv, IoTypes, InFlight, InFlightOf
<1>3. OpenForOne'
  BY <1>1, IoAssumption DEF ResumeWith, IoInv, IoTypes, OpenForOne, Opened
<1>4. TrueAnswer(t, handle[t])
  BY <1>1 DEF TrueAnswer, IoInv, Stored
<1> QED BY <1>1, <1>2, <1>3, <1>4, AnswerPreserves

(* A response to one of the requests that has none yet.                    *)
LEMMA RespondPreserves ==
  ASSUME IoInv, NEW t \in Agents, Respond(t)
  PROVE  IoInv'
<1>1. /\ stage[t] = "fetching"
      /\ UNCHANGED <<script, stage, got, handle, kv, kv_owner>>
      /\ \E i \in 0 .. Requests(Io(t)) - 1 :
           /\ \A k \in 1 .. Len(flight[t]) : flight[t][k].i # i
           /\ \E v \in {Page(t, Len(got[t]) + 1, i), NoBody, Text("fetch error")} :
                flight' = [flight EXCEPT ![t] = Append(@, [i |-> i, v |-> v])]
  BY DEF Respond, Failures, storeVars
<1>2. PICK i \in 0 .. Requests(Io(t)) - 1 :
           /\ \A k \in 1 .. Len(flight[t]) : flight[t][k].i # i
           /\ \E v \in {Page(t, Len(got[t]) + 1, i), NoBody, Text("fetch error")} :
                flight' = [flight EXCEPT ![t] = Append(@, [i |-> i, v |-> v])]
  BY <1>1
<1>3. PICK v \in {Page(t, Len(got[t]) + 1, i), NoBody, Text("fetch error")} :
                flight' = [flight EXCEPT ![t] = Append(@, [i |-> i, v |-> v])]
  BY <1>2
<1> DEFINE c == [i |-> i, v |-> v]
           n == Len(flight[t])
<1>4. IsSeq(flight[t]) /\ n \in Nat
  BY DEF IoInv, IoTypes, IsSeq
<1>5. /\ DOMAIN flight' = Agents /\ flight'[t] = Append(flight[t], c)
      /\ \A u \in Agents \ {t} : flight'[u] = flight[u]
  BY <1>3 DEF IoInv, IoTypes
<1>6. Completion(t, c)
  BY <1>2, <1>3 DEF Completion
<1>7. c.i = i
  OBVIOUS
<1> HIDE DEF c
<1>8. /\ IsSeq(flight'[t]) /\ Len(flight'[t]) = n + 1
      /\ \A k \in 1 .. n : flight'[t][k] = flight[t][k]
      /\ flight'[t][n + 1] = c
  <2>1. IsSeq(flight[t]) /\ flight'[t] = Append(flight[t], c)
    BY <1>4, <1>5
  <2>2. /\ IsSeq(Append(flight[t], c)) /\ Len(Append(flight[t], c)) = n + 1
        /\ \A k \in 1 .. n : Append(flight[t], c)[k] = flight[t][k]
        /\ Append(flight[t], c)[n + 1] = c
    BY <2>1, AppendAny
  <2> QED BY <2>1, <2>2
<1>9. \A u \in Agents : Io(u)' = Io(u)
  BY <1>1 DEF Io
<1>10. IoTypes'
  <2>1. \A u \in Agents : IsSeq(flight'[u])
    BY <1>5, <1>8 DEF IoInv, IoTypes
  <2> QED BY <1>1, <1>5, <1>9, <2>1 DEF IoInv, IoTypes
<1>11. OpenForOne'
  BY <1>1 DEF IoInv, OpenForOne
<1>12. Stored'
  <2>1. \A u \in Agents : \A p : ToldStored(u, p)' <=> ToldStored(u, p)
    BY <1>1 DEF ToldStored
  <2> QED BY <1>1, <1>9, <2>1 DEF IoInv, Stored
<1>13. StoredIsFound' /\ CombinedByPosition'
  BY <1>1, PastKept DEF IoInv
<1>14. InFlight'
  <2>1. \A u \in Agents : \A d : Completion(u, d)' <=> Completion(u, d)
    BY <1>1, <1>9 DEF Completion, Requests
  <2>2. InFlightOf(t)'
    <3>1. InFlightOf(t)
      BY DEF IoInv, InFlight
    <3> HIDE DEF n
    <3>2. \A k \in 1 .. n + 1 : k \in 1 .. n \/ k = n + 1
      BY <1>4, UpToNext
    <3>3. \A k \in 1 .. n + 1 : Completion(t, flight'[t][k])
      BY <1>6, <1>8, <3>1, <3>2 DEF InFlightOf, n
    <3>4. \A j, k \in 1 .. n + 1 : flight'[t][j].i = flight'[t][k].i => j = k
      <4>1. \A j \in 1 .. n : flight'[t][j] = flight[t][j] /\ flight[t][j].i # c.i
        BY <1>2, <1>7, <1>8 DEF n
      <4>2. \A j, k \in 1 .. n : flight[t][j].i = flight[t][k].i => j = k
        BY <3>1 DEF InFlightOf, n
      <4> QED BY <1>8, <3>2, <4>1, <4>2
    <3> QED BY <1>1, <1>8, <2>1, <3>3, <3>4 DEF InFlightOf
  <2>3. ASSUME NEW u \in Agents \ {t} PROVE InFlightOf(u)'
    <3>1. InFlightOf(u) /\ flight'[u] = flight[u] /\ stage'[u] = stage[u]
      BY <1>1, <1>5 DEF IoInv, InFlight
    <3> QED BY <2>1, <3>1, FlightKept
  <2> QED BY <2>2, <2>3 DEF InFlight
<1> QED BY <1>10, <1>11, <1>12, <1>13, <1>14 DEF IoInv

(* With as many completions as requests, each request has one, and the     *)
(* combined object holds at each key what answers the request there.       *)
LEMMA JoinedByPosition ==
  ASSUME IoInv, NEW t \in Agents, stage[t] = "fetching", Io(t).op = "all",
         Len(flight[t]) = Requests(Io(t)), NEW i \in 0 .. Io(t).count - 1
  PROVE  Joined(flight[t])[i] \in {Page(t, Len(got[t]) + 1, i), NoBody, Text("fetch error")}
<1> DEFINE n == Len(flight[t])
           f == [k \in 1 .. n |-> flight[t][k].i]
<1>1. n \in Nat /\ n = Io(t).count
  BY DEF IoInv, IoTypes, IsSeq, Requests
<1>2. /\ \A k \in 1 .. n : Completion(t, flight[t][k])
      /\ \A j, k \in 1 .. n : flight[t][j].i = flight[t][k].i => j = k
  BY DEF IoInv, InFlight, InFlightOf
<1>3. f \in [1 .. n -> 0 .. n - 1]
  BY <1>2 DEF Completion
<1>4. \A j, k \in 1 .. n : f[j] = f[k] => j = k
  BY <1>2
<1> HIDE DEF f, n
<1>5. f \in Injection(1 .. n, 0 .. n - 1)
  BY <1>3, <1>4 DEF Injection, IsInjective
<1>6. /\ IsFiniteSet(0 .. n - 1) /\ Cardinality(0 .. n - 1) = n
      /\ Cardinality(1 .. n) = n
  <2>1. 0 \in Int /\ 1 \in Int /\ n \in Int /\ n - 1 \in Int
    BY <1>1
  <2>2. /\ IsFiniteSet(0 .. n - 1)
        /\ Cardinality(0 .. n - 1) = IF 0 > n - 1 THEN 0 ELSE n - 1 - 0 + 1
        /\ Cardinality(1 .. n) = IF 1 > n THEN 0 ELSE n - 1 + 1
    BY <2>1, FS_Interval
  <2> QED BY <1>1, <2>2
<1>7. f \in Surjection(1 .. n, 0 .. n - 1)
  BY <1>5, <1>6, FS_Injection
<1>8. \E k \in 1 .. n : f[k] = i
  BY <1>1, <1>7 DEF Surjection
<1>9. \E k \in 1 .. Len(flight[t]) : flight[t][k].i = i
  BY <1>8 DEF f, n
<1>10. PICK k \in 1 .. Len(flight[t]) :
          flight[t][k].i = i /\ Joined(flight[t])[i] = flight[t][k].v
  <2> DEFINE k == CHOOSE k \in 1 .. Len(flight[t]) : flight[t][k].i = i
  <2>1. k \in 1 .. Len(flight[t]) /\ flight[t][k].i = i
    BY <1>9
  <2>2. Joined(flight[t])[i] = flight[t][k].v
    BY <1>1 DEF Joined, n
  <2> QED BY <2>1, <2>2
<1>11. Completion(t, flight[t][k])
  BY <1>2, <1>10 DEF n
<1> QED BY <1>10, <1>11 DEF Completion

(* All requests are answered.                                              *)
LEMMA JoinAllPreserves ==
  ASSUME IoInv, NEW t \in Agents, JoinAll(t)
  PROVE  IoInv'
<1> DEFINE v == IF Io(t).op = "all" THEN Combined(Joined(flight[t]))
                ELSE flight[t][1].v
<1>1. /\ stage[t] = "fetching" /\ Len(flight[t]) = Requests(Io(t))
      /\ ResumeWith(t, v)
      /\ flight' = [flight EXCEPT ![t] = <<>>]
      /\ UNCHANGED <<script, handle, kv, kv_owner>>
      /\ Io(t).op \in {"fetch", "all"}
  BY DEF JoinAll, IoInv, IoTypes, storeVars
<1>2. OthersStay(t)
  BY <1>1 DEF OthersStay, IoInv, IoTypes
<1>3. OpenForOne'
  BY <1>1, OwnerKept DEF ResumeWith, Opened
<1>4. TrueAnswer(t, v)
  <2> SUFFICES ASSUME Io(t).op = "all", NEW i \in 0 .. Io(t).count - 1
               PROVE  v.entries[i] \in {Page(t, Len(got[t]) + 1, i), NoBody, Text("fetch error")}
    BY <1>1 DEF TrueAnswer
  <2>1. v.entries[i] = Joined(flight[t])[i]
    BY DEF Combined
  <2> QED BY <1>1, <2>1, JoinedByPosition
<1> QED BY <1>1, <1>2, <1>3, <1>4, AnswerPreserves

-----------------------------------------------------------------------------
(* The invariant holds however the tasks interleave.                       *)
THEOREM IoInvariant == IoSpec => []IoInv
<1>1. IoInv /\ [IoNext]_ioVars => IoInv'
  <2> SUFFICES ASSUME IoInv, [IoNext]_ioVars PROVE IoInv'
    OBVIOUS
  <2>1. CASE \E t \in Agents : Turn(t) \/ Respond(t) \/ TaskPanics(t)
    BY <2>1, RunPreserves, D1Preserves, KvOpenPreserves, KvAccessPreserves, KvClosePreserves,
       RespondPreserves, JoinAllPreserves
    DEF Turn
  <2>2. CASE Collect \/ Returned \/ UNCHANGED ioVars
    <3>1. UNCHANGED <<script, stage, got, flight, handle, kv, kv_owner>>
      BY <2>2 DEF Collect, Returned, ioVars, taskVars, storeVars
    <3> QED BY <3>1, IoKept
  <2>3. CASE \E h \in Hosts : Host(h)
    <3>1. UNCHANGED <<script, stage, got, flight, handle, kv, kv_owner>>
      BY <2>3 DEF Host, HostPrepare, HostBind, HostRun, HostQuery,
                  HostExecutes, taskVars, storeVars
    <3> QED BY <3>1, IoKept
  <2> QED BY <2>1, <2>2, <2>3 DEF IoNext
<1> QED BY <1>1, InitIo, PTL DEF IoSpec

(* Whatever the order in which the responses of a parallel await come, and *)
(* for any number of them, each is found at the position of its request    *)
(* (execute_io of scheduler.rs, ParallelFetch).                            *)
THEOREM AlwaysCombinedByPosition == IoSpec => []CombinedByPosition
<1>1. IoInv => CombinedByPosition
  BY DEF IoInv
<1> QED BY <1>1, IoInvariant, PTL

(* For any agents and modules, an agent that was told its value is stored  *)
(* does not later find the key empty (execute_io, KvPut and KvGet).        *)
THEOREM AlwaysStoredIsFound == IoSpec => []StoredIsFound
<1>1. IoInv => StoredIsFound
  BY DEF IoInv
<1> QED BY <1>1, IoInvariant, PTL

(* An agent is refused a namespace only while another has it open: no      *)
(* handle outlives its operation, however many agents there are.           *)
THEOREM AlwaysRefusedByOthers == IoSpec => RefusedOnlyByOthers
<1> DEFINE Refused(t) == stage[t] = "kv open" /\ Len(got'[t]) > Len(got[t])
<1>1. IoInv /\ [IoNext]_ioVars =>
        [\A t \in Agents : Refused(t) => \E u \in Agents \ {t} : stage[u] \in Opened]_ioVars
  <2> SUFFICES ASSUME IoInv, IoNext, NEW t \in Agents, Refused(t)
               PROVE  \E u \in Agents \ {t} : stage[u] \in Opened
    OBVIOUS
  <2>1. Len(got[t]) \in Nat
    BY DEF IoInv, IoTypes, IsSeq
  <2>2. got'[t] # got[t] /\ stage[t] = "kv open"
    <3>1. stage[t] = "kv open" /\ Len(got'[t]) > Len(got[t])
      OBVIOUS
    <3>2. ~(Len(got[t]) > Len(got[t]))
      BY <2>1, NoMoreThanItself
    <3> QED BY <3>1, <3>2, Zenon
  <2>3. PICK w \in Agents : Turn(w) \/ Respond(w) \/ TaskPanics(w)
    BY <2>2 DEF IoNext, Collect, Returned, ioVars, taskVars, Host,
                HostPrepare, HostBind, HostRun, HostQuery, HostExecutes
  <2>4. got' = got \/ \E v : got' = [got EXCEPT ![w] = Append(@, v)]
    BY <2>3 DEF Turn, Respond, RunDone, RunError, RunSuspends, TaskPanics,
                Finish, JoinAll, KvOpen, KvAccess, KvClose,
                D1Open, D1Step, D1Done, ResumeWith
  <2>5. w = t
    BY <2>2, <2>4 DEF IoInv, IoTypes
  <2>6. KvOpen(t)
    BY <2>2, <2>3, <2>5
       DEF Turn, Respond, RunDone, RunError, RunSuspends, TaskPanics, Finish,
           JoinAll, KvAccess, KvClose, D1Open, D1Step, D1Done
  <2>7. kv_owner # Null
    BY <2>2, <2>6 DEF KvOpen
  <2>8. kv_owner \in Agents /\ stage[kv_owner] \in Opened
    BY <2>7 DEF IoInv, OpenForOne
  <2> QED BY <2>8 DEF Opened
<1> QED BY <1>1, IoInvariant, PTL DEF IoSpec, RefusedOnlyByOthers, Opened

-----------------------------------------------------------------------------
(* The D1 table.                                                           *)
(*                                                                         *)
(* Each insert that an agent was told of, or that the batch it is at has   *)
(* executed, has put a row of that agent into the table.                   *)
CurrentInserts(t) ==
  IF stage[t] = "d1 exec"
  THEN {Len(got[t]) + 1} \X {i \in Inserts(Len(got[t]) + 1) : i <= step[t]}
  ELSE {}

Credit(t) == AnsweredInserts(t) \cup CurrentInserts(t)

Credited(t) ==
  /\ step[t] \in Nat
  /\ IsFiniteSet(Credit(t))
  /\ Cardinality(Credit(t)) <= Cardinality(AgentRows(t))

(* What a host has bound to its statement, and the rows that come of it.   *)
Bound(h) ==
  /\ prepared[h] = [sql |-> prepared[h].sql, bindings |-> prepared[h].bindings]
  /\ IsStatement(prepared[h].sql)
  /\ IsSeq(prepared[h].bindings)
  /\ \A n \in 1 .. Len(prepared[h].bindings) : prepared[h].bindings[n] = ByHost(h, n)

RowOfHost(row) ==
  \E h \in Hosts, bound \in 0 .. Len(row) :
    row = [n \in 1 .. Len(row) |-> IF n <= bound THEN ByHost(h, n) ELSE Null]

(* The inductive invariant.  TableIsAsTold is not inductive: the rows of a *)
(* batch go in one by one before it is answered, and the values of a row   *)
(* are bound before it is inserted.                                        *)
TableInv ==
  /\ IsSeq(table)
  /\ DOMAIN step = Agents /\ DOMAIN prepared = Hosts
  /\ \A t \in Agents : Credited(t)
  /\ told \in Nat /\ silent \in Nat /\ told + silent = Cardinality(HostRows)
  /\ \A i \in HostRows : RowOfHost(table[i])
  /\ \A h \in Hosts : prepared[h] # Null => Bound(h)

(* The value of an agent is its own, and not one of a host.                *)
LEMMA ValuesDiffer ==
  /\ \A t, u : ByAgent(t) = ByAgent(u) => t = u
  /\ \A t, h, n : ByAgent(t) # ByHost(h, n)
  /\ \A t \in Agents : ByAgent(t) # Null
<1>1. \A t, u : ByAgent(t) = ByAgent(u) => t = u
  <2>1. \A t : ByAgent(t).agent = t
    BY DEF ByAgent
  <2> QED BY <2>1
<1>2. \A t, h, n : ByAgent(t) # ByHost(h, n)
  <2>1. \A t : DOMAIN ByAgent(t) = {"agent"}
    BY DEF ByAgent
  <2>2. \A h, n : DOMAIN ByHost(h, n) = {"host", "nth"}
    BY DEF ByHost
  <2>3. {"agent"} # {"host", "nth"}
    OBVIOUS
  <2> QED BY <2>1, <2>2, <2>3
<1>3. \A t \in Agents : ByAgent(t) # Null
  BY IoAssumption
<1> QED BY <1>1, <1>2, <1>3

(* The inserts of a batch are among its statements.                        *)
LEMMA InsertsInBatch ==
  \A p : \A i \in Inserts(p) : i \in Int /\ 1 <= i /\ i <= Len(script[p].batch)
<1>1. ASSUME NEW n, NEW i \in 1 .. n PROVE i \in Int /\ 1 <= i /\ i <= n
  BY <1>1
<1>2. \A p : \A i \in Inserts(p) : i \in 1 .. Len(script[p].batch)
  BY DEF Inserts
<1> QED BY <1>1, <1>2

LEMMA NextUpTo == \A k, n \in Nat : k < n => k + 1 \in 1 .. n
  OBVIOUS

LEMMA NoneUpToZero == \A S : (\A i \in S : i \in Int /\ 1 <= i) => {i \in S : i <= 0} = {}
  OBVIOUS

(* The rows of an agent, and those of the hosts, after a row was added.    *)
LEMMA RowsAfter ==
  ASSUME IsSeq(table), NEW row, table' = Append(table, row)
  PROVE  /\ IsSeq(table') /\ Len(table') = Len(table) + 1
         /\ \A i \in 1 .. Len(table) : table'[i] = table[i]
         /\ table'[Len(table) + 1] = row
         /\ \A t : AgentRows(t)' = AgentRows(t) \cup
                     IF HasValue(row, ByAgent(t)) THEN {Len(table) + 1} ELSE {}
         /\ HostRows' = HostRows \cup
              IF \A t \in Agents : ~HasValue(row, ByAgent(t)) THEN {Len(table) + 1} ELSE {}
<1>1. /\ IsSeq(table') /\ Len(table') = Len(table) + 1
      /\ \A i \in 1 .. Len(table) : table'[i] = table[i]
      /\ table'[Len(table) + 1] = row
  BY AppendAny
<1>2. Len(table) \in Nat
  BY DEF IsSeq
<1>3. 1 .. Len(table') = (1 .. Len(table)) \cup {Len(table) + 1}
  BY <1>1, <1>2
<1>4. /\ \A i \in 1 .. Len(table) : \A v : HasValue(table'[i], v) <=> HasValue(table[i], v)
      /\ \A v : HasValue(table'[Len(table) + 1], v) <=> HasValue(row, v)
  BY <1>1
<1> HIDE DEF HasValue
<1>5. \A t : AgentRows(t)' = AgentRows(t) \cup
               IF HasValue(row, ByAgent(t)) THEN {Len(table) + 1} ELSE {}
  BY <1>3, <1>4 DEF AgentRows
<1>6. HostRows' = HostRows \cup
        IF \A t \in Agents : ~HasValue(row, ByAgent(t)) THEN {Len(table) + 1} ELSE {}
  BY <1>3, <1>4 DEF HostRows
<1> QED BY <1>1, <1>5, <1>6

(* Both are finite, and one more row is one more.                          *)
LEMMA RowsCount ==
  ASSUME IsSeq(table)
  PROVE  /\ IsFiniteSet(HostRows) /\ Cardinality(HostRows) \in Nat
         /\ Cardinality(HostRows \cup {Len(table) + 1}) = Cardinality(HostRows) + 1
         /\ \A t : /\ IsFiniteSet(AgentRows(t)) /\ Cardinality(AgentRows(t)) \in Nat
                   /\ Cardinality(AgentRows(t) \cup {Len(table) + 1})
                        = Cardinality(AgentRows(t)) + 1
<1>1. Len(table) \in Nat /\ IsFiniteSet(1 .. Len(table)) /\ Len(table) + 1 \notin 1 .. Len(table)
  BY FS_Interval DEF IsSeq
<1>2. ASSUME NEW S \in SUBSET (1 .. Len(table))
      PROVE  /\ IsFiniteSet(S) /\ Cardinality(S) \in Nat
             /\ Cardinality(S \cup {Len(table) + 1}) = Cardinality(S) + 1
  <2>1. IsFiniteSet(S)
    BY <1>1, FS_Subset
  <2>2. Len(table) + 1 \notin S
    BY <1>1
  <2> QED BY <2>1, <2>2, FS_AddElement, FS_CardinalityType
<1>3. HostRows \in SUBSET (1 .. Len(table))
  BY DEF HostRows
<1>4. \A t : AgentRows(t) \in SUBSET (1 .. Len(table))
  BY DEF AgentRows
<1> QED BY <1>2, <1>3, <1>4

(* Cardinality grows by at most one with one element.                      *)
LEMMA OneMore ==
  ASSUME NEW S, NEW x, IsFiniteSet(S)
  PROVE  /\ IsFiniteSet(S \cup {x})
         /\ Cardinality(S) \in Nat /\ Cardinality(S \cup {x}) \in Nat
         /\ Cardinality(S \cup {x}) <= Cardinality(S) + 1
<1>1. IsFiniteSet(S \cup {x}) /\ Cardinality(S) \in Nat
  BY FS_AddElement, FS_CardinalityType
<1>2. Cardinality(S \cup {x}) = IF x \in S THEN Cardinality(S) ELSE Cardinality(S) + 1
  BY FS_AddElement
<1> QED BY <1>1, <1>2

(* A subset is not larger.                                                 *)
LEMMA NotLarger ==
  ASSUME NEW S, NEW T, IsFiniteSet(S), T \subseteq S
  PROVE  /\ IsFiniteSet(T)
         /\ Cardinality(T) \in Nat /\ Cardinality(S) \in Nat
         /\ Cardinality(T) <= Cardinality(S)
<1>1. T \in SUBSET S
  OBVIOUS
<1>2. IsFiniteSet(T) /\ Cardinality(T) <= Cardinality(S)
  BY <1>1, FS_Subset
<1> QED BY <1>2, FS_CardinalityType

-----------------------------------------------------------------------------
(* Agents.                                                                 *)
LEMMA CreditKept ==
  ASSUME IsSeq(table), NEW u, Credited(u), UNCHANGED table,
         Credit(u)' \subseteq Credit(u), step'[u] \in Nat
  PROVE  Credited(u)'
<1>1. AgentRows(u)' = AgentRows(u)
  BY DEF AgentRows
<1>2. Cardinality(AgentRows(u)) \in Nat
  BY RowsCount
<1>3. /\ IsFiniteSet(Credit(u)')
      /\ Cardinality(Credit(u)') \in Nat /\ Cardinality(Credit(u)) \in Nat
      /\ Cardinality(Credit(u)') <= Cardinality(Credit(u))
  BY NotLarger DEF Credited
<1> HIDE DEF Credit, AgentRows
<1> QED BY <1>1, <1>2, <1>3 DEF Credited

(* What an agent has been credited with depends on its own progress alone. *)
LEMMA CreditOfOthers ==
  ASSUME UNCHANGED script, NEW u, got'[u] = got[u], stage'[u] = stage[u], step'[u] = step[u]
  PROVE  Credit(u)' = Credit(u)
<1>1. \A p : Inserts(p)' = Inserts(p)
  BY DEF Inserts
<1>2. AnsweredBatches(u)' = AnsweredBatches(u)
  BY DEF AnsweredBatches
<1>3. AnsweredInserts(u)' = AnsweredInserts(u)
  BY <1>1, <1>2 DEF AnsweredInserts
<1>4. CurrentInserts(u)' = CurrentInserts(u)
  BY <1>1 DEF CurrentInserts
<1> QED BY <1>3, <1>4 DEF Credit

(* An agent that moves on without touching the table loses no credit it    *)
(* needs.                                                                  *)
LEMMA TurnKeepsTable ==
  ASSUME TableInv, NEW t \in Agents,
         UNCHANGED <<script, table, prepared, told, silent>>,
         DOMAIN step' = Agents, step'[t] \in Nat,
         \A u \in Agents \ {t} :
           got'[u] = got[u] /\ stage'[u] = stage[u] /\ step'[u] = step[u],
         Credit(t)' \subseteq Credit(t)
  PROVE  TableInv'
<1>1. ASSUME NEW u \in Agents PROVE Credited(u)'
  <2>1. CASE u = t
    BY <2>1, CreditKept DEF TableInv
  <2>2. CASE u # t
    <3>1. Credit(u)' = Credit(u)
      BY <2>2, CreditOfOthers
    <3>2. step'[u] \in Nat /\ Credit(u)' \subseteq Credit(u)
      BY <2>2, <3>1 DEF TableInv, Credited
    <3> QED BY <3>2, CreditKept DEF TableInv
  <2> QED BY <2>1, <2>2
<1>2. HostRows' = HostRows /\ \A h : Bound(h)' <=> Bound(h)
  BY DEF HostRows, Bound
<1>3. \A i : RowOfHost(table[i])' <=> RowOfHost(table[i])
  BY DEF RowOfHost
<1> QED BY <1>1, <1>2, <1>3 DEF TableInv

(* An agent that changes its stage only.                                   *)
LEMMA MoveKeepsTable ==
  ASSUME IoInv, TableInv, NEW t \in Agents, NEW s,
         stage' = [stage EXCEPT ![t] = s], UNCHANGED <<script, got, table, prepared, told, silent>>,
         \/ s # "d1 exec" /\ UNCHANGED step
         \/ step' = [step EXCEPT ![t] = 0]
  PROVE  TableInv'
<1>1. stage'[t] = s /\ \A u \in Agents \ {t} : stage'[u] = stage[u]
  BY DEF IoInv, IoTypes
<1>2. /\ DOMAIN step' = Agents /\ step'[t] \in Nat
      /\ \A u \in Agents \ {t} : step'[u] = step[u]
  <2>1. DOMAIN step = Agents /\ step[t] \in Nat
    BY DEF TableInv, Credited
  <2>2. CASE UNCHANGED step
    BY <2>1, <2>2
  <2>3. CASE step' = [step EXCEPT ![t] = 0]
    BY <2>1, <2>3
  <2> QED BY <2>2, <2>3
<1>3. AnsweredInserts(t)' = AnsweredInserts(t)
  <2>1. \A p : Inserts(p)' = Inserts(p)
    BY DEF Inserts
  <2>2. AnsweredBatches(t)' = AnsweredBatches(t)
    BY DEF AnsweredBatches
  <2> QED BY <2>1, <2>2 DEF AnsweredInserts
<1>4. CurrentInserts(t)' = {}
  <2>1. CASE s # "d1 exec"
    BY <1>1, <2>1 DEF CurrentInserts
  <2>2. CASE step' = [step EXCEPT ![t] = 0]
    <3>1. step'[t] = 0
      BY <2>2 DEF TableInv
    <3>2. \A p : Inserts(p)' = Inserts(p)
      BY DEF Inserts
    <3>3. \A p : {i \in Inserts(p) : i <= 0} = {}
      BY InsertsInBatch, NoneUpToZero
    <3> QED BY <3>1, <3>2, <3>3 DEF CurrentInserts
  <2> QED BY <2>1, <2>2
<1>5. Credit(t)' \subseteq Credit(t)
  BY <1>3, <1>4 DEF Credit
<1> QED BY <1>1, <1>2, <1>5, TurnKeepsTable

(* An agent that is resumed: if that says that a batch was executed, all   *)
(* its statements have been.                                               *)
LEMMA AnswerKeepsTable ==
  ASSUME IoInv, TableInv, NEW t \in Agents, NEW v, ResumeWith(t, v),
         stage[t] \notin {"run", "done"},
         UNCHANGED <<script, table, prepared, told, silent>>,
         \/ UNCHANGED step
         \/ step' = [step EXCEPT ![t] = 0],
         \/ Io(t).op # "d1"
         \/ v # ChangesObject(0)
         \/ stage[t] = "d1 exec" /\ step[t] = Len(Io(t).batch)
  PROVE  TableInv'
<1> DEFINE m == Len(got[t]) + 1
<1>1. /\ stage'[t] = "run" /\ got'[t] = Append(got[t], v)
      /\ \A u \in Agents \ {t} : stage'[u] = stage[u] /\ got'[u] = got[u]
  BY DEF IoInv, IoTypes, ResumeWith
<1>2. /\ DOMAIN step' = Agents /\ step'[t] \in Nat
      /\ \A u \in Agents \ {t} : step'[u] = step[u]
  <2>1. DOMAIN step = Agents /\ step[t] \in Nat
    BY DEF TableInv, Credited
  <2>2. CASE UNCHANGED step
    BY <2>1, <2>2
  <2>3. CASE step' = [step EXCEPT ![t] = 0]
    BY <2>1, <2>3
  <2> QED BY <2>2, <2>3
<1>3. /\ IsSeq(got[t]) /\ Len(got[t]) \in Nat /\ Len(got'[t]) = m
      /\ \A p \in 1 .. Len(got[t]) : got'[t][p] = got[t][p]
      /\ got'[t][m] = v
  <2>1. IsSeq(got[t])
    BY DEF IoInv, IoTypes
  <2>2. Len(got[t]) \in Nat
    BY <2>1 DEF IsSeq
  <2>3. /\ IsSeq(Append(got[t], v)) /\ Len(Append(got[t], v)) = Len(got[t]) + 1
        /\ \A p \in 1 .. Len(got[t]) : Append(got[t], v)[p] = got[t][p]
        /\ Append(got[t], v)[Len(got[t]) + 1] = v
    BY <2>1, AppendAny
  <2> QED BY <1>1, <2>1, <2>2, <2>3
<1>4. script[m] = Io(t)
  BY DEF Io
<1>5. \A p : Inserts(p)' = Inserts(p)
  BY DEF Inserts
<1>6. ASSUME NEW x \in AnsweredInserts(t)' PROVE x \in Credit(t)
  <2>1. PICK p \in AnsweredBatches(t)' : x \in {p} \X Inserts(p)
    BY <1>5, <1>6 DEF AnsweredInserts
  <2>2. /\ p \in 1 .. m /\ script[p].op = "d1" /\ got'[t][p] = ChangesObject(0)
    BY <1>3 DEF AnsweredBatches
  <2>3. CASE p \in 1 .. Len(got[t])
    <3>1. p \in AnsweredBatches(t)
      BY <1>3, <2>2, <2>3 DEF AnsweredBatches
    <3> QED BY <2>1, <3>1 DEF AnsweredInserts, Credit
  <2>4. CASE p = m
    <3>1. stage[t] = "d1 exec" /\ step[t] = Len(script[m].batch)
      BY <1>3, <1>4, <2>2, <2>4
    <3>2. {i \in Inserts(m) : i <= step[t]} = Inserts(m)
      <4>1. \A i \in Inserts(m) : i <= Len(script[m].batch)
        BY InsertsInBatch
      <4> QED BY <3>1, <4>1
    <3> QED BY <2>1, <2>4, <3>1, <3>2 DEF CurrentInserts, Credit
  <2>5. p \in 1 .. Len(got[t]) \/ p = m
    BY <1>3, <2>2, UpToNext
  <2> QED BY <2>3, <2>4, <2>5
<1>7. CurrentInserts(t)' = {}
  BY <1>1 DEF CurrentInserts
<1>8. Credit(t)' \subseteq Credit(t)
  BY <1>6, <1>7 DEF Credit
<1> HIDE DEF m
<1> QED BY <1>1, <1>2, <1>8, TurnKeepsTable

(* The results of a batch that says it failed are not those of one that    *)
(* was executed.                                                           *)
LEMMA ErrorIsNoChanges == \A s, n : Text(s) # ChangesObject(n)
<1>1. \A s : DOMAIN Text(s) = {"text"}
  BY DEF Text
<1>2. \A n : DOMAIN ChangesObject(n) = {"changes"}
  BY DEF ChangesObject
<1>3. {"text"} # {"changes"}
  OBVIOUS
<1> QED BY <1>1, <1>2, <1>3

(* The turns of an agent other than those at the database.                 *)
LEMMA OtherTurnsKeepTable ==
  ASSUME IoInv, TableInv, NEW t \in Agents,
         \/ RunDone(t) \/ RunError(t) \/ RunSuspends(t)
         \/ JoinAll(t) \/ Respond(t) \/ TaskPanics(t)
         \/ KvOpen(t) \/ KvAccess(t) \/ KvClose(t)
  PROVE  TableInv'
<1>0. UNCHANGED <<script, table, step, prepared, told, silent>>
  BY DEF RunDone, RunError, RunSuspends, TaskPanics, Finish, JoinAll, Respond, KvOpen, KvAccess,
         KvClose, storeVars, hostVars
<1>1. CASE RunDone(t) \/ RunError(t) \/ TaskPanics(t)
  <2>1. stage' = [stage EXCEPT ![t] = "done"] /\ UNCHANGED got
    BY <1>1 DEF RunDone, RunError, TaskPanics, Finish
  <2> QED BY <1>0, <2>1, MoveKeepsTable
<1>2. CASE RunSuspends(t)
  <2>1. stage' = [stage EXCEPT ![t] = Stage(Io(t))] /\ UNCHANGED got
    BY <1>2 DEF RunSuspends
  <2>2. IsIo(Io(t)) /\ Io(t).op # "trap"
    <3>1. Len(got[t]) \in Nat /\ script \in Scripts /\ Len(got[t]) < Len(script)
      BY <1>2 DEF IoInv, IoTypes, IsSeq, RunSuspends
    <3>2. Len(script) \in Nat /\ \A p \in 1 .. Len(script) : IsIo(script[p])
      BY <3>1, IoAssumption
    <3>3. Len(got[t]) + 1 \in 1 .. Len(script)
      BY <3>1, <3>2
    <3> QED BY <1>2, <3>2, <3>3 DEF Io, RunSuspends
  <2>3. Stage(Io(t)) # "d1 exec"
    BY <2>2 DEF IsIo, Stage
  <2> QED BY <1>0, <2>1, <2>3, MoveKeepsTable
<1>3. CASE JoinAll(t)
  <2>1. \E v : ResumeWith(t, v)
    BY <1>3 DEF JoinAll
  <2>2. stage[t] = "fetching" /\ Io(t).op # "d1"
    BY <1>3 DEF JoinAll, IoInv, IoTypes
  <2> QED BY <1>0, <2>1, <2>2, AnswerKeepsTable
<1>4. CASE Respond(t)
  <2>1. UNCHANGED <<stage, got>>
    BY <1>4 DEF Respond
  <2>2. Credit(t)' \subseteq Credit(t)
    BY <1>0, <2>1, CreditOfOthers
  <2> QED BY <1>0, <2>1, <2>2, TurnKeepsTable DEF TableInv, Credited
<1>5. CASE KvOpen(t) \/ KvAccess(t) \/ KvClose(t)
  <2>1. stage[t] \in {"kv open", "kv access", "kv close"} /\ Io(t).op # "d1"
    BY <1>5 DEF KvOpen, KvAccess, KvClose, IoInv, IoTypes
  <2>2. \/ \E v : ResumeWith(t, v)
        \/ \E s \in {"kv access", "kv close"} : stage' = [stage EXCEPT ![t] = s] /\ UNCHANGED got
    BY <1>5 DEF KvOpen, KvAccess, KvClose
  <2>3. CASE \E v : ResumeWith(t, v)
    BY <1>0, <2>1, <2>3, AnswerKeepsTable
  <2>4. CASE \E s \in {"kv access", "kv close"} : stage' = [stage EXCEPT ![t] = s] /\ UNCHANGED got
    BY <1>0, <2>4, MoveKeepsTable
  <2> QED BY <2>2, <2>3, <2>4
<1> QED BY <1>1, <1>2, <1>3, <1>4, <1>5

-----------------------------------------------------------------------------
(* The row of an agent's insert is its own.                                *)
LEMMA AgentRow ==
  ASSUME NEW t \in Agents, NEW stmt, IsStatement(stmt), stmt.op = "insert",
         D1!Accepts(stmt, Tagged(stmt, t)), NEW row, row = D1!RowOf(stmt.columns, Tagged(stmt, t))
  PROVE  \A u \in Agents : HasValue(row, ByAgent(u)) <=> u = t
<1>1. Tagged(stmt, t) = <<ByAgent(t)>> /\ stmt.columns \in Nat /\ 1 <= stmt.columns
  BY DEF Tagged, D1!Accepts, IsStatement
<1>2. row = [i \in 1 .. stmt.columns |-> IF i <= 1 THEN ByAgent(t) ELSE Null]
  <2>1. row = [i \in 1 .. stmt.columns |-> IF i <= 1 THEN <<ByAgent(t)>>[i] ELSE Null]
    BY <1>1 DEF D1!RowOf
  <2> QED BY <2>1
<1>3. DOMAIN row = 1 .. stmt.columns /\ 1 \in DOMAIN row /\ row[1] = ByAgent(t)
  BY <1>1, <1>2
<1>4. \A n \in DOMAIN row : row[n] \in {ByAgent(t), Null}
  BY <1>2
<1> QED BY <1>3, <1>4, ValuesDiffer DEF HasValue

(* A statement of a batch.                                                 *)
LEMMA D1StepKeepsTable ==
  ASSUME IoInv, TableInv, NEW t \in Agents, D1Step(t)
  PROVE  TableInv'
<1> DEFINE m == Len(got[t]) + 1
           stmt == Io(t).batch[step[t] + 1]
<1>1. /\ stage[t] = "d1 exec" /\ step[t] < Len(Io(t).batch)
      /\ UNCHANGED <<script, prepared, told, silent>>
  BY DEF D1Step, hostVars
<1>2. /\ script[m] = Io(t) /\ Io(t).op = "d1" /\ Len(Io(t).batch) \in Nat
      /\ \A i \in 1 .. Len(Io(t).batch) : IsStatement(Io(t).batch[i])
  BY <1>1, AtSuspension DEF IoInv, IoTypes, Io, IsIo
<1>3. step[t] \in Nat /\ step[t] + 1 \in 1 .. Len(Io(t).batch) /\ IsStatement(stmt)
  <2>1. step[t] \in Nat
    BY DEF TableInv, Credited
  <2>2. step[t] + 1 \in 1 .. Len(Io(t).batch)
    BY <1>1, <1>2, <2>1, NextUpTo
  <2> QED BY <1>2, <2>1, <2>2
<1>4. CASE ResumeWith(t, Text("D1 error")) /\ UNCHANGED <<table, step>>
  BY <1>1, <1>4, ErrorIsNoChanges, AnswerKeepsTable
<1>5. CASE /\ D1!Accepts(stmt, Tagged(stmt, t))
           /\ table' = D1!After(table, stmt, Tagged(stmt, t))
           /\ step' = [step EXCEPT ![t] = @ + 1]
           /\ UNCHANGED <<stage, got>>
  <2>1. /\ DOMAIN step' = Agents /\ step'[t] = step[t] + 1
        /\ \A u \in Agents \ {t} : step'[u] = step[u]
    BY <1>5 DEF TableInv
  <2>2. \A u \in Agents \ {t} : Credit(u)' = Credit(u)
    BY <1>1, <1>5, <2>1, CreditOfOthers
  <2>3. AnsweredInserts(t)' = AnsweredInserts(t) /\ \A p : Inserts(p)' = Inserts(p)
    <3>1. \A p : Inserts(p)' = Inserts(p)
      BY <1>1 DEF Inserts
    <3>2. AnsweredBatches(t)' = AnsweredBatches(t)
      BY <1>1, <1>5 DEF AnsweredBatches
    <3> QED BY <3>1, <3>2 DEF AnsweredInserts
  <2>4. /\ CurrentInserts(t) = {m} \X {i \in Inserts(m) : i <= step[t]}
        /\ CurrentInserts(t)' = {m} \X {i \in Inserts(m) : i <= step[t] + 1}
    BY <1>1, <1>5, <2>1, <2>3 DEF CurrentInserts
  <2>5. step[t] + 1 \in Inserts(m) <=> stmt.op = "insert"
    BY <1>2, <1>3 DEF Inserts
  <2>6. \A i \in Inserts(m) : i \in Nat
    BY DEF Inserts
  <2>7. CASE stmt.op = "insert"
    <3> DEFINE row == D1!RowOf(stmt.columns, Tagged(stmt, t))
    <3>1. table' = Append(table, row)
      BY <1>5, <2>7 DEF D1!After
    <3>2. \A u \in Agents : HasValue(row, ByAgent(u)) <=> u = t
      BY <1>3, <1>5, <2>7, AgentRow
    <3> HIDE DEF row
    <3>3. IsSeq(table) /\ Len(table) \in Nat
      BY DEF TableInv, IsSeq
    <3>4. /\ IsSeq(table')
          /\ \A i \in 1 .. Len(table) : table'[i] = table[i]
          /\ \A u : AgentRows(u)' = AgentRows(u) \cup
                      IF HasValue(row, ByAgent(u)) THEN {Len(table) + 1} ELSE {}
          /\ HostRows' = HostRows \cup
               IF \A u \in Agents : ~HasValue(row, ByAgent(u)) THEN {Len(table) + 1} ELSE {}
      BY <3>1, <3>3, RowsAfter
    <3>5. /\ HostRows' = HostRows
          /\ AgentRows(t)' = AgentRows(t) \cup {Len(table) + 1}
          /\ \A u \in Agents \ {t} : AgentRows(u)' = AgentRows(u)
      BY <3>2, <3>4
    <3>6. Credit(t)' = Credit(t) \cup {<<m, step[t] + 1>>}
      <4>1. {i \in Inserts(m) : i <= step[t] + 1} = {i \in Inserts(m) : i <= step[t]} \cup {step[t] + 1}
        BY <1>3, <2>5, <2>6, <2>7
      <4>2. CurrentInserts(t)' = CurrentInserts(t) \cup {<<m, step[t] + 1>>}
        BY <2>4, <4>1
      <4> QED BY <2>3, <4>2 DEF Credit
    <3>7. ASSUME NEW u \in Agents PROVE Credited(u)'
      <4>1. CASE u # t
        BY <2>1, <2>2, <3>5, <4>1 DEF TableInv, Credited
      <4>2. CASE u = t
        <5>1. /\ IsFiniteSet(Credit(t)')
              /\ Cardinality(Credit(t)) \in Nat /\ Cardinality(Credit(t)') \in Nat
              /\ Cardinality(Credit(t)') <= Cardinality(Credit(t)) + 1
          BY <3>6, OneMore DEF TableInv, Credited
        <5>2. /\ Cardinality(AgentRows(t)) \in Nat
              /\ Cardinality(AgentRows(t)') = Cardinality(AgentRows(t)) + 1
          BY <3>3, <3>5, RowsCount
        <5>3. Cardinality(Credit(t)) <= Cardinality(AgentRows(t)) /\ step[t] + 1 \in Nat
          BY <1>3 DEF TableInv, Credited
        <5> HIDE DEF Credit, AgentRows
        <5> QED BY <2>1, <4>2, <5>1, <5>2, <5>3 DEF Credited
      <4> QED BY <4>1, <4>2
    <3>8. \A i \in HostRows' : RowOfHost(table[i])'
      <4>1. ASSUME NEW i \in HostRows PROVE RowOfHost(table'[i])
        <5>1. table'[i] = table[i]
          BY <3>4, <4>1 DEF HostRows
        <5> QED BY <5>1 DEF TableInv
      <4> QED BY <3>5, <4>1 DEF RowOfHost
    <3>9. \A h : Bound(h)' <=> Bound(h)
      BY <1>1 DEF Bound
    <3> QED BY <1>1, <2>1, <3>4, <3>5, <3>7, <3>8, <3>9 DEF TableInv
  <2>8. CASE stmt.op # "insert"
    <3>1. table' = table
      BY <1>5, <2>8 DEF D1!After
    <3>2. {i \in Inserts(m) : i <= step[t] + 1} = {i \in Inserts(m) : i <= step[t]}
      BY <1>3, <2>5, <2>6, <2>8
    <3>3. Credit(t)' \subseteq Credit(t)
      BY <2>3, <2>4, <3>2 DEF Credit
    <3>4. step'[t] \in Nat
      BY <1>3, <2>1
    <3> QED BY <1>1, <1>5, <2>1, <3>1, <3>3, <3>4, TurnKeepsTable
  <2> QED BY <2>7, <2>8
<1> QED BY <1>4, <1>5 DEF D1Step

LEMMA D1TurnsKeepTable ==
  ASSUME IoInv, TableInv, NEW t \in Agents, D1Open(t) \/ D1Step(t) \/ D1Done(t)
  PROVE  TableInv'
<1>1. CASE D1Open(t)
  <2>1. /\ stage[t] = "d1 open" /\ step' = [step EXCEPT ![t] = 0]
        /\ UNCHANGED <<script, table, prepared, told, silent>>
        /\ \/ stage' = [stage EXCEPT ![t] = "d1 exec"] /\ UNCHANGED got
           \/ ResumeWith(t, Text("D1 open error"))
    BY <1>1 DEF D1Open, hostVars
  <2>2. CASE stage' = [stage EXCEPT ![t] = "d1 exec"] /\ UNCHANGED got
    BY <2>1, <2>2, MoveKeepsTable
  <2>3. CASE ResumeWith(t, Text("D1 open error"))
    BY <2>1, <2>3, ErrorIsNoChanges, AnswerKeepsTable
  <2> QED BY <2>1, <2>2, <2>3
<1>2. CASE D1Step(t)
  BY <1>2, D1StepKeepsTable
<1>3. CASE D1Done(t)
  <2>1. /\ stage[t] = "d1 exec" /\ step[t] = Len(Io(t).batch)
        /\ ResumeWith(t, ChangesObject(0))
        /\ UNCHANGED <<script, table, step, prepared, told, silent>>
    BY <1>3 DEF D1Done, storeVars, hostVars
  <2> QED BY <2>1, AnswerKeepsTable
<1> QED BY <1>1, <1>2, <1>3

-----------------------------------------------------------------------------
(* Hosts.                                                                  *)
LEMMA HostKeepsCredit ==
  ASSUME IoInv, TableInv, UNCHANGED <<script, stage, got, step>>,
         \A t \in Agents : AgentRows(t)' = AgentRows(t)
  PROVE  \A t \in Agents : Credited(t)'
<1> SUFFICES ASSUME NEW t \in Agents PROVE Credited(t)'
  OBVIOUS
<1>1. Credit(t)' = Credit(t)
  BY CreditOfOthers
<1> QED BY <1>1 DEF TableInv, Credited

(* A host prepares a statement, or binds the next value to it.             *)
LEMMA HostBindKeepsTable ==
  ASSUME IoInv, TableInv, NEW h \in Hosts, HostPrepare(h) \/ HostBind(h)
  PROVE  TableInv'
<1>1. UNCHANGED <<script, stage, got, step, table, told, silent>>
  BY DEF HostPrepare, HostBind, taskVars, storeVars
<1>2. /\ \A t \in Agents : AgentRows(t)' = AgentRows(t)
      /\ HostRows' = HostRows
      /\ \A i : RowOfHost(table[i])' <=> RowOfHost(table[i])
  BY <1>1 DEF AgentRows, HostRows, RowOfHost
<1>3. \A t \in Agents : Credited(t)'
  BY <1>1, <1>2, HostKeepsCredit
<1>4. DOMAIN prepared' = Hosts /\ \A g \in Hosts \ {h} : prepared'[g] = prepared[g]
  BY DEF HostPrepare, HostBind, TableInv
<1>5. ASSUME NEW g \in Hosts, prepared'[g] # Null PROVE Bound(g)'
  <2>1. CASE g # h
    BY <1>4, <1>5, <2>1 DEF TableInv, Bound
  <2>2. CASE g = h /\ HostPrepare(h)
    <3>1. PICK sql \in Statements : prepared' = [prepared EXCEPT ![h] = D1!Prepare(sql)]
      BY <2>2 DEF HostPrepare
    <3>2. prepared'[h] = [sql |-> sql, bindings |-> <<>>]
      BY <3>1 DEF TableInv, D1!Prepare
    <3> QED BY <2>2, <3>2, EmptyIsSeq, IoAssumption DEF Bound
  <2>3. CASE g = h /\ HostBind(h)
    <3> DEFINE b == prepared[h].bindings
    <3>1. /\ Bound(h)
          /\ prepared'[h] = D1!Bind(prepared[h], ByHost(h, Len(b) + 1))
      BY <2>3 DEF TableInv, HostBind
    <3>2. prepared'[h] = [prepared[h] EXCEPT !.bindings = Append(@, ByHost(h, Len(b) + 1))]
      BY <3>1 DEF D1!Bind
    <3>3. prepared'[h] = [sql |-> prepared[h].sql, bindings |-> Append(b, ByHost(h, Len(b) + 1))]
      BY <3>1, <3>2 DEF Bound
    <3>4. /\ IsSeq(b) /\ \A n \in 1 .. Len(b) : b[n] = ByHost(h, n)
          /\ IsStatement(prepared[h].sql)
      BY <3>1 DEF Bound
    <3> DEFINE c == Append(b, ByHost(h, Len(b) + 1))
    <3>5. IsSeq(c) /\ \A n \in 1 .. Len(c) : c[n] = ByHost(h, n)
      <4>1. /\ IsSeq(c) /\ Len(c) = Len(b) + 1
            /\ \A n \in 1 .. Len(b) : c[n] = b[n]
            /\ c[Len(b) + 1] = ByHost(h, Len(b) + 1)
        BY <3>4, AppendAny
      <4>2. \A n \in 1 .. Len(c) : n \in 1 .. Len(b) \/ n = Len(b) + 1
        BY <3>4, <4>1, UpToNext DEF IsSeq
      <4> HIDE DEF c
      <4> QED BY <3>4, <4>1, <4>2
    <3> HIDE DEF c
    <3>6. prepared'[h] = [sql |-> prepared[h].sql, bindings |-> c]
      BY <3>3 DEF c
    <3> QED BY <2>3, <3>4, <3>5, <3>6 DEF Bound
  <2> QED BY <2>1, <2>2, <2>3
<1> QED BY <1>1, <1>2, <1>3, <1>4, <1>5 DEF TableInv

(* The row of what a host has bound is a row of that host.                 *)
LEMMA HostRow ==
  ASSUME NEW h \in Hosts, Bound(h), D1!Accepts(prepared[h].sql, prepared[h].bindings),
         NEW row, row = D1!RowOf(prepared[h].sql.columns, prepared[h].bindings)
  PROVE  RowOfHost(row) /\ \A u \in Agents : ~HasValue(row, ByAgent(u))
<1> DEFINE b == prepared[h].bindings
           n == prepared[h].sql.columns
<1>1. /\ n \in Nat /\ Len(b) \in Nat /\ Len(b) <= n
      /\ \A i \in 1 .. Len(b) : b[i] = ByHost(h, i)
  BY DEF Bound, IsStatement, IsSeq, D1!Accepts
<1>2. row = [i \in 1 .. n |-> IF i <= Len(b) THEN b[i] ELSE Null]
  BY DEF D1!RowOf
<1> HIDE DEF b, n
<1>3. row = [i \in 1 .. n |-> IF i <= Len(b) THEN ByHost(h, i) ELSE Null]
  BY <1>1, <1>2
<1>4. Len(row) = n
  BY <1>1, <1>3
<1>5. RowOfHost(row)
  <2>1. Len(b) \in 0 .. Len(row)
    BY <1>1, <1>4
  <2> QED BY <1>3, <1>4, <2>1 DEF RowOfHost
<1>6. \A i \in DOMAIN row : row[i] = Null \/ row[i] = ByHost(h, i)
  BY <1>3
<1> QED BY <1>5, <1>6, ValuesDiffer DEF HasValue

(* A host executes its statement: it is told of its row, or the row is one *)
(* of those nobody is told of.                                             *)
LEMMA HostExecuteKeepsTable ==
  ASSUME IoInv, TableInv, NEW h \in Hosts, HostRun(h) \/ HostQuery(h)
  PROVE  TableInv'
<1> DEFINE s == prepared[h]
           row == D1!RowOf(s.sql.columns, s.bindings)
<1>1. Bound(h) /\ UNCHANGED <<script, stage, got, step, prepared>>
  BY DEF HostRun, HostQuery, HostExecutes, TableInv, taskVars
<1>2. told \in Nat /\ silent \in Nat /\ IsSeq(table) /\ Len(table) \in Nat
  BY DEF TableInv, IsSeq
<1>3. \/ table' = table /\ told' = told /\ silent' = silent
      \/ /\ D1!Accepts(s.sql, s.bindings) /\ table' = Append(table, row)
         /\ told' \in Nat /\ silent' \in Nat /\ told' + silent' = told + silent + 1
  <2>1. CASE HostRun(h)
    <3> DEFINE r == D1!Run(table, s)
    <3>1. table' = r.table /\ told' = told + r.changes /\ silent' = silent + 0
      BY <2>1 DEF HostRun, HostExecutes
    <3>2. CASE ~D1!Accepts(s.sql, s.bindings)
      <4>1. r.table = table /\ r.changes = 0
        BY <3>2 DEF D1!Run
      <4> HIDE DEF r
      <4> QED BY <1>2, <3>1, <4>1
    <3>3. CASE D1!Accepts(s.sql, s.bindings)
      <4>1. /\ r.table = D1!After(table, s.sql, s.bindings)
            /\ r.changes = D1!Changes(s.sql)
        BY <3>3 DEF D1!Run
      <4>2. CASE s.sql.op = "insert"
        <5>1. r.table = Append(table, row) /\ r.changes = 1
          BY <4>1, <4>2 DEF D1!After, D1!Changes
        <5> HIDE DEF r, row
        <5> QED BY <1>2, <3>1, <3>3, <5>1
      <4>3. CASE s.sql.op # "insert"
        <5>1. r.table = table /\ r.changes = 0
          BY <4>1, <4>3 DEF D1!After, D1!Changes
        <5> HIDE DEF r
        <5> QED BY <1>2, <3>1, <5>1
      <4> QED BY <4>2, <4>3
    <3> QED BY <3>2, <3>3
  <2>2. CASE HostQuery(h)
    <3>1. PICK r \in {D1!All(table, s), D1!First(table, s)} : HostExecutes(h, r, FALSE)
      BY <2>2 DEF HostQuery
    <3>2. /\ table' = r.table /\ told' = told + r.changes
          /\ silent' = silent + (Len(r.table) - Len(table))
      BY <3>1 DEF HostExecutes
    <3>3. r.table = D1!All(table, s).table /\ r.changes = D1!All(table, s).changes
      BY DEF D1!All, D1!First
    <3>4. CASE ~D1!Accepts(s.sql, s.bindings)
      <4>1. r.table = table /\ r.changes = 0
        BY <3>3, <3>4 DEF D1!All
      <4> QED BY <1>2, <3>2, <4>1
    <3>5. CASE D1!Accepts(s.sql, s.bindings)
      <4>1. /\ r.table = D1!After(table, s.sql, s.bindings) /\ r.changes = 0
        BY <3>3, <3>5 DEF D1!All
      <4>2. CASE s.sql.op = "insert"
        <5>1. r.table = Append(table, row)
          BY <4>1, <4>2 DEF D1!After
        <5>2. Len(r.table) = Len(table) + 1
          BY <1>2, <5>1, AppendAny
        <5> HIDE DEF row
        <5> QED BY <1>2, <3>2, <3>5, <4>1, <5>1, <5>2
      <4>3. CASE s.sql.op # "insert"
        <5>1. r.table = table
          BY <4>1, <4>3 DEF D1!After
        <5> QED BY <1>2, <3>2, <4>1, <5>1
      <4> QED BY <4>2, <4>3
    <3> QED BY <3>4, <3>5
  <2> QED BY <2>1, <2>2
<1>4. \A g : Bound(g)' <=> Bound(g)
  BY <1>1 DEF Bound
<1>5. CASE table' = table /\ told' = told /\ silent' = silent
  <2>1. /\ \A t \in Agents : AgentRows(t)' = AgentRows(t)
        /\ HostRows' = HostRows
        /\ \A i : RowOfHost(table[i])' <=> RowOfHost(table[i])
    BY <1>5 DEF AgentRows, HostRows, RowOfHost
  <2>2. \A t \in Agents : Credited(t)'
    BY <1>1, <2>1, HostKeepsCredit
  <2> QED BY <1>1, <1>4, <1>5, <2>1, <2>2 DEF TableInv
<1>6. CASE /\ D1!Accepts(s.sql, s.bindings) /\ table' = Append(table, row)
           /\ told' \in Nat /\ silent' \in Nat /\ told' + silent' = told + silent + 1
  <2>1. RowOfHost(row) /\ \A u \in Agents : ~HasValue(row, ByAgent(u))
    BY <1>1, <1>6, HostRow
  <2> HIDE DEF row
  <2>2. /\ IsSeq(table') /\ table'[Len(table) + 1] = row
        /\ \A i \in 1 .. Len(table) : table'[i] = table[i]
        /\ \A u : AgentRows(u)' = AgentRows(u) \cup
                    IF HasValue(row, ByAgent(u)) THEN {Len(table) + 1} ELSE {}
        /\ HostRows' = HostRows \cup
             IF \A u \in Agents : ~HasValue(row, ByAgent(u)) THEN {Len(table) + 1} ELSE {}
    BY <1>2, <1>6, RowsAfter
  <2>3. HostRows' = HostRows \cup {Len(table) + 1} /\ \A u \in Agents : AgentRows(u)' = AgentRows(u)
    BY <2>1, <2>2
  <2>4. Cardinality(HostRows') = told' + silent'
    <3>1. Cardinality(HostRows \cup {Len(table) + 1}) = Cardinality(HostRows) + 1
      BY <1>2, RowsCount
    <3>2. Cardinality(HostRows) = told + silent
      BY DEF TableInv
    <3> QED BY <1>2, <1>6, <2>3, <3>1, <3>2
  <2>5. \A i \in HostRows' : RowOfHost(table[i])'
    <3>1. ASSUME NEW i \in HostRows PROVE RowOfHost(table'[i])
      <4>1. table'[i] = table[i]
        BY <2>2, <3>1 DEF HostRows
      <4> QED BY <4>1 DEF TableInv
    <3>2. \A i \in HostRows' : RowOfHost(table'[i])
      BY <2>1, <2>2, <2>3, <3>1
    <3> QED BY <3>2 DEF RowOfHost
  <2>6. \A t \in Agents : Credited(t)'
    BY <1>1, <2>3, HostKeepsCredit
  <2> QED BY <1>1, <1>4, <1>6, <2>2, <2>4, <2>5, <2>6 DEF TableInv
<1> QED BY <1>3, <1>5, <1>6

(* The invariant holds however the statements of agents and hosts          *)
(* interleave.                                                             *)
LEMMA TableInvariant == IoSpec => []TableInv
<1>1. IoInit => TableInv
  <2> SUFFICES ASSUME IoInit PROVE TableInv
    OBVIOUS
  <2>1. IsSeq(table) /\ 1 .. Len(table) = {}
    BY EmptyIsSeq DEF IoInit
  <2>2. HostRows = {} /\ \A t : AgentRows(t) = {}
    BY <2>1 DEF HostRows, AgentRows
  <2>3. ASSUME NEW t \in Agents PROVE Credited(t)
    <3>1. stage[t] = "run" /\ got[t] = <<>> /\ step[t] = 0
      BY DEF IoInit
    <3>2. AnsweredBatches(t) = {}
      BY <3>1 DEF AnsweredBatches
    <3>3. Credit(t) = {}
      BY <3>1, <3>2 DEF Credit, AnsweredInserts, CurrentInserts
    <3>4. IsFiniteSet({}) /\ Cardinality({}) = 0
      BY FS_EmptySet
    <3>5. AgentRows(t) = {} /\ step[t] \in Nat
      BY <2>2, <3>1
    <3>6. Cardinality(Credit(t)) = 0 /\ Cardinality(AgentRows(t)) = 0
      BY <3>3, <3>4, <3>5
    <3> QED BY <3>3, <3>4, <3>5, <3>6 DEF Credited
  <2> QED BY <2>1, <2>2, <2>3, FS_EmptySet DEF IoInit, TableInv
<1>2. IoInv /\ TableInv /\ [IoNext]_ioVars => TableInv'
  <2> SUFFICES ASSUME IoInv, TableInv, [IoNext]_ioVars PROVE TableInv'
    OBVIOUS
  <2>1. CASE \E t \in Agents : Turn(t) \/ Respond(t) \/ TaskPanics(t)
    BY <2>1, OtherTurnsKeepTable, D1TurnsKeepTable DEF Turn
  <2>2. CASE Collect \/ Returned \/ UNCHANGED ioVars
    <3>1. UNCHANGED <<script, stage, got, table, step, prepared, told, silent>>
      BY <2>2 DEF Collect, Returned, ioVars, taskVars, storeVars, hostVars
    <3>2. /\ \A t \in Agents : AgentRows(t)' = AgentRows(t)
          /\ HostRows' = HostRows
          /\ \A i : RowOfHost(table[i])' <=> RowOfHost(table[i])
          /\ \A h : Bound(h)' <=> Bound(h)
      BY <3>1 DEF AgentRows, HostRows, RowOfHost, Bound
    <3>3. \A t \in Agents : Credited(t)'
      BY <3>1, <3>2, HostKeepsCredit
    <3> QED BY <3>1, <3>2, <3>3 DEF TableInv
  <2>3. CASE \E h \in Hosts : Host(h)
    BY <2>3, HostBindKeepsTable, HostExecuteKeepsTable DEF Host
  <2> QED BY <2>1, <2>2, <2>3 DEF IoNext
<1> QED BY <1>1, <1>2, IoInvariant, PTL DEF IoSpec

(* For any agents, batches, hosts and interleaving of their statements, an *)
(* agent finds in the table every row of the batches it was told of, the   *)
(* hosts are told of exactly the rows they insert through run, and the     *)
(* values of a row are in the order they were bound (exec, bind, run, all  *)
(* and first of d1.rs).                                                    *)
THEOREM TableAlwaysAsTold == IoSpec => []TableIsAsTold
<1>1. TableInv => TableIsAsTold
  <2> SUFFICES ASSUME TableInv PROVE TableIsAsTold
    OBVIOUS
  <2>1. ASSUME NEW t \in Agents
        PROVE  Cardinality(AnsweredInserts(t)) <= Cardinality(AgentRows(t))
    <3>1. AnsweredInserts(t) \subseteq Credit(t)
      BY DEF Credit
    <3>2. /\ Cardinality(AnsweredInserts(t)) \in Nat /\ Cardinality(Credit(t)) \in Nat
          /\ Cardinality(AnsweredInserts(t)) <= Cardinality(Credit(t))
      BY <3>1, NotLarger DEF TableInv, Credited
    <3>3. Cardinality(AgentRows(t)) \in Nat
      BY RowsCount DEF TableInv
    <3>4. Cardinality(Credit(t)) <= Cardinality(AgentRows(t))
      BY DEF TableInv, Credited
    <3> QED BY <3>2, <3>3, <3>4
  <2> QED BY <2>1 DEF TableInv, RowOfHost, TableIsAsTold
<1> QED BY <1>1, TableInvariant, PTL
=============================================================================
