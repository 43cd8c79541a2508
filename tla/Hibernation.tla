---------------------------- MODULE Hibernation ----------------------------
(***************************************************************************)
(* Hibernation of suspended agents over server crashes and restarts:       *)
(* HibernationStore (workex-vm/src/hibernation.rs), a sled tree keyed by   *)
(* agent id, driven with the scheduler and its slab as the test            *)
(* agent_survives_server_restart does, which is the only driver there is.  *)
(*                                                                         *)
(* An agent has an identity of its own here, the order of its birth; its   *)
(* continuation carries that identity, as the registers it saved, and the  *)
(* agent_id that next_id of the scheduler of its server gave it.           *)
(*                                                                         *)
(* sled buffers writes: tree is what the process sees, disk is what a      *)
(* crash leaves.  flush copies the one to the other, and so may sled's     *)
(* own flusher at any time.  Everything else is lost in a crash.  An Err   *)
(* that the store returns makes the driver panic (unwrap): a Crash at that *)
(* point.  The errors that all_pending meets while it iterates are not     *)
(* returned: it goes on without the records it could not read.             *)
(***************************************************************************)
EXTENDS Integers, Sequences, FiniteSets

CONSTANTS
  MaxAgents,   (* bound: agents born over all servers                      *)
  MaxCrashes,  (* bound: crashes                                           *)
  None

ASSUME HibernationAssumption == MaxAgents \in Nat /\ MaxCrashes \in Nat

Agents == 1 .. MaxAgents
Ids == 1 .. MaxAgents

(* A Continuation, and the HibernatedAgent that from_continuation makes of *)
(* it and to_continuation gives back: the conversions keep every field.    *)
Conts == [agent_id : Ids, who : Agents]

ASSUME NoneAssumption == None \notin Conts

VARIABLES
  slots, free_list, count,  (* the slab of the running server              *)
  next_id,    (* next_id of its scheduler                                  *)
  born,       (* agents born so far, over all servers                      *)
  tree, disk, (* id |-> record or None                                     *)
  pc,         (* starting (restoring pending records), serving,            *)
              (* hibernating (taken from the slab, not yet written),       *)
              (* flushing (written, flush not returned), waking            *)
  hand,       (* the continuation in the driver's hands, or None           *)
  pending,    (* records all_pending returned that are not yet inserted    *)
  asleep,     (* ids this server hibernated and did not wake               *)
  crashes,
  acked,      (* agents whose hibernate returned Ok                        *)
  woken,      (* those that wake has handed out since                      *)
  replaced,   (* those whose record another agent's has replaced since     *)
  skipped,    (* those whose record the last restart could not read        *)
  ended_here  (* agents whose resume returned Done on the running server   *)

Slab == INSTANCE ContinuationSlab
          WITH Continuations <- Conts, MaxStored <- MaxAgents

slabVars == <<slots, free_list, count>>
storeVars == <<tree, disk>>
driverVars == <<pc, hand, pending, asleep>>
history == <<crashes, acked, woken, replaced, skipped, ended_here>>
vars == <<slabVars, next_id, born, storeVars, driverVars, history>>

Empty == [id \in Ids |-> None]

Init ==
  /\ Slab!SlabInit
  /\ next_id = 1 /\ born = 0
  /\ tree = Empty /\ disk = Empty
  /\ pc = "serving" /\ hand = None /\ pending = {} /\ asleep = {}
  /\ crashes = 0
  /\ acked = {} /\ woken = {} /\ replaced = {} /\ skipped = {}
  /\ ended_here = {}

(* dispatch_and_suspend: a new agent runs to its await and is stored.      *)
Dispatch ==
  /\ pc = "serving"
  /\ born < MaxAgents
  /\ born' = born + 1
  /\ next_id' = next_id + 1
  /\ Slab!Insert([agent_id |-> next_id, who |-> born + 1])
  /\ UNCHANGED <<storeVars, driverVars, history>>

(* The driver takes a suspended agent out of the slab to hibernate it.     *)
Take(i) ==
  /\ pc = "serving"
  /\ i \in Slab!Occupied
  /\ Slab!Remove(i)
  /\ hand' = Slab!Get(i)
  /\ pc' = "hibernating"
  /\ UNCHANGED <<next_id, born, storeVars, pending, asleep, history>>

(* hibernate: db.insert under the agent's id, replacing what was there.    *)
Write ==
  /\ pc = "hibernating"
  /\ tree' = [tree EXCEPT ![hand.agent_id] = hand]
  /\ LET old == tree[hand.agent_id] IN
       replaced' = IF old = None \/ old.who = hand.who THEN replaced
                   ELSE replaced \cup {old.who}
  /\ pc' = "flushing"
  /\ UNCHANGED <<slabVars, next_id, born, disk, hand, pending, asleep, crashes,
                 acked, woken, skipped, ended_here>>

(* Mutant: Ok is returned without a flush.                                 *)
FlushMissing ==
  /\ pc = "flushing"
  /\ acked' = acked \cup {hand.who}
  /\ woken' = woken \ {hand.who}
  /\ replaced' = replaced \ {hand.who}
  /\ asleep' = asleep \cup {hand.agent_id}
  /\ hand' = None
  /\ pc' = "serving"
  /\ UNCHANGED <<slabVars, next_id, born, storeVars, pending, crashes, skipped,
                 ended_here>>

(* hibernate: db.flush, and the return of Ok.                              *)
Flush ==
  /\ pc = "flushing"
  /\ disk' = tree
  /\ acked' = acked \cup {hand.who}
  /\ woken' = woken \ {hand.who}
  /\ replaced' = replaced \ {hand.who}
  /\ asleep' = asleep \cup {hand.agent_id}
  /\ hand' = None
  /\ pc' = "serving"
  /\ UNCHANGED <<slabVars, next_id, born, tree, pending, crashes, skipped,
                 ended_here>>

(* sled's background flusher.                                              *)
BackgroundFlush ==
  /\ disk # tree
  /\ disk' = tree
  /\ UNCHANGED <<slabVars, next_id, born, tree, driverVars, history>>

(* wake: the record of an agent this server hibernated leaves the tree,    *)
(* without a flush.                                                        *)
Wake(id) ==
  /\ pc = "serving"
  /\ id \in asleep
  /\ asleep' = asleep \ {id}
  /\ tree' = [tree EXCEPT ![id] = None]
  /\ hand' = tree[id]
  /\ woken' = IF tree[id] = None THEN woken ELSE woken \cup {tree[id].who}
  /\ pc' = IF tree[id] = None THEN "serving" ELSE "waking"
  /\ UNCHANGED <<slabVars, next_id, born, disk, pending, crashes, acked, replaced,
                 skipped, ended_here>>

(* The woken agent goes back into the slab, to be resumed.                 *)
Reinsert ==
  /\ pc = "waking"
  /\ Slab!Insert(hand)
  /\ hand' = None
  /\ pc' = "serving"
  /\ UNCHANGED <<next_id, born, storeVars, pending, asleep, history>>

(* resume with the result of the await: the agent ends.                    *)
Resume(i) ==
  /\ pc = "serving"
  /\ i \in Slab!Occupied
  /\ Slab!Remove(i)
  /\ ended_here' = ended_here \cup {Slab!Get(i).who}
  /\ UNCHANGED <<next_id, born, storeVars, driverVars, crashes, acked, woken, replaced,
                 skipped>>

(* The server stops, at any point, and a new one starts: a new scheduler,  *)
(* whose ids start at 1, and the store reopened.  all_pending returns the  *)
(* records it can read (and leaves all in place).                          *)
Crash ==
  /\ crashes < MaxCrashes
  /\ crashes' = crashes + 1
  /\ slots' = <<>> /\ free_list' = <<>> /\ count' = 0
  /\ next_id' = 1
  /\ tree' = disk
  /\ pc' = "starting"
  /\ hand' = None
  /\ asleep' = {}
  /\ \E unreadable \in SUBSET {id \in Ids : disk[id] # None} :
       /\ pending' = {disk[id] : id \in {k \in Ids : disk[k] # None} \ unreadable}
       /\ skipped' = {disk[id].who : id \in unreadable}
  /\ ended_here' = {}
  /\ UNCHANGED <<born, disk, acked, woken, replaced>>

(* Mutant: the restart inserts one pending record and serves.              *)
RestoreFirst ==
  /\ pc = "starting"
  /\ \E c \in pending : Slab!Insert(c)
  /\ pending' = {}
  /\ UNCHANGED <<next_id, born, storeVars, pc, hand, asleep, history>>

(* Each pending record is inserted into the slab of the new server.        *)
Restore ==
  /\ pc = "starting"
  /\ \E c \in pending : Slab!Insert(c) /\ pending' = pending \ {c}
  /\ UNCHANGED <<next_id, born, storeVars, pc, hand, asleep, history>>

Started ==
  /\ pc = "starting"
  /\ pending = {}
  /\ pc' = "serving"
  /\ UNCHANGED <<slabVars, next_id, born, storeVars, hand, pending, asleep, history>>

(* No agent is left to start, to resume or to wake.                        *)
Idle ==
  /\ pc = "serving" /\ born = MaxAgents
  /\ Slab!Occupied = {} /\ asleep = {}
  /\ UNCHANGED vars

Next ==
  \/ Dispatch \/ Write \/ Flush \/ BackgroundFlush \/ Reinsert
  \/ Crash \/ Restore \/ Started \/ Idle
  \/ \E i \in Slab!Occupied : Take(i) \/ Resume(i)
  \/ \E id \in Ids : Wake(id)

Spec == Init /\ [][Next]_vars

(* A server that does not crash completes a hibernation, a wake or a       *)
(* restore it began: the driver is one thread and waits for nothing there. *)
(* Nothing else is fair.  The request an agent waits for is not made again *)
(* after a restart (to_continuation drops pending_io), so whether anybody  *)
(* wakes it or resumes it is not for this code to say.                     *)
Fairness == WF_vars(Write \/ Flush \/ Reinsert \/ Restore \/ Started)

FairSpec == Spec /\ Fairness

-----------------------------------------------------------------------------
TypeOK ==
  /\ Slab!SlabTypeOK
  /\ next_id \in 1 .. MaxAgents + 1 /\ born \in 0 .. MaxAgents
  /\ tree \in [Ids -> Conts \cup {None}] /\ disk \in [Ids -> Conts \cup {None}]
  /\ pc \in {"starting", "serving", "hibernating", "flushing", "waking"}
  /\ (hand # None) = (pc \in {"hibernating", "flushing", "waking"})
  /\ pending \subseteq Conts /\ asleep \subseteq Ids /\ crashes \in 0 .. MaxCrashes
  /\ acked \cup woken \cup replaced \cup skipped \cup ended_here \subseteq Agents

Recorded(a, db) == \E id \in Ids : db[id] # None /\ db[id].who = a

(* Once hibernate has returned Ok the record of the agent survives every   *)
(* crash, at every point, until wake hands it out or the record of another *)
(* agent with the same id replaces it.                                     *)
AckedIsDurable ==
  \A a \in acked : a \in woken \cup replaced \/ (Recorded(a, tree) /\ Recorded(a, disk))

(* On one server an agent is in one place: one slot, the driver's hands,   *)
(* waiting to be restored, or asleep in the store; so none is resumed      *)
(* twice between two crashes, although restored records stay in the tree.  *)
Places(a) ==
  Cardinality({i \in Slab!Occupied : slots[i + 1].who = a})
    + Cardinality({c \in pending : c.who = a})
    + (IF hand # None /\ pc # "flushing" /\ hand.who = a THEN 1 ELSE 0)
    + Cardinality({id \in Ids : tree[id] # None /\ tree[id].who = a
                                 /\ (id \in asleep \/ (pc = "flushing" /\ hand.agent_id = id))})

OnePlacePerServer == \A a \in Agents : Places(a) <= IF a \in ended_here THEN 0 ELSE 1

InSlab(a) == \E i \in Slab!Occupied : slots[i + 1].who = a

(* After any crash, and further ones during the restart, a new server has  *)
(* every hibernated agent back in its slab, ready to be resumed, unless    *)
(* wake took its record, another agent's replaced it, or all_pending could *)
(* not read it.                                                            *)
AckedAgentsReturn ==
  \A a \in Agents :
    (pc = "starting" /\ a \in acked) ~> (InSlab(a) \/ a \in woken \cup replaced \cup skipped)
=============================================================================
