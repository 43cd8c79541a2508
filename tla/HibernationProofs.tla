------------------------- MODULE HibernationProofs -------------------------
(***************************************************************************)
(* Proofs about Hibernation, for any number of agents and of crashes at    *)
(* any point: what hibernate acknowledged is on disk until it is woken or  *)
(* replaced, and an agent is in one place on one server, although restored *)
(* records stay in the tree and each server gives out the same agent ids.  *)
(***************************************************************************)
EXTENDS Hibernation, FiniteSetTheorems, TLAPS

SlabP == INSTANCE ContinuationSlabProofs
           WITH Continuations <- Conts, MaxStored <- MaxAgents

-----------------------------------------------------------------------------
(* Types, and what each stage of the driver implies: restored records wait *)
(* only while the server starts, nothing is asleep then, and between the   *)
(* write and the flush the tree has what the driver holds.                 *)
DriverTypes ==
  /\ born \in 0 .. MaxAgents /\ next_id \in 1 .. born + 1
  /\ tree \in [Ids -> Conts \cup {None}] /\ disk \in [Ids -> Conts \cup {None}]
  /\ pc \in {"starting", "serving", "hibernating", "flushing", "waking"}
  /\ hand \in Conts \cup {None}
  /\ (hand # None) = (pc \in {"hibernating", "flushing", "waking"})
  /\ pending \subseteq Conts /\ asleep \subseteq Ids
  /\ pc = "starting" => asleep = {}
  /\ pc # "starting" => pending = {}
  /\ \A a \in ended_here : a \in Agents /\ a <= born
  /\ pc = "flushing" => tree[hand.agent_id] = hand

(* A record is under the id of its agent.                                  *)
Keyed ==
  \A id \in Ids : /\ tree[id] # None => tree[id].agent_id = id
                  /\ disk[id] # None => disk[id].agent_id = id

(* The continuations that exist anywhere.  Each agent has one: copies of   *)
(* it may be in the slab, in the tree and on disk, but they are equal.     *)
Known(c) ==
  /\ c \in Conts
  /\ \/ \E i \in Nat : Slab!Get(i) = c
     \/ c \in pending
     \/ c = hand
     \/ \E id \in Ids : c = tree[id] \/ c = disk[id]

OneEach ==
  /\ \A c, d : Known(c) /\ Known(d) /\ c.who = d.who => c = d
  /\ \A c : Known(c) => c.who <= born

(* The four places an agent can be in, and that it is in one of them.      *)
InSlot(i, a) == Slab!Get(i) # None /\ Slab!Get(i).who = a
Waits(a) == \E c \in pending : c.who = a
InHand(a) == hand # None /\ pc # "flushing" /\ hand.who = a
Sleeps(a) ==
  \E id \in Ids : /\ tree[id] # None /\ tree[id].who = a
                  /\ id \in asleep \/ (pc = "flushing" /\ hand.agent_id = id)

Placed(a) ==
  /\ \A i, j \in Nat : InSlot(i, a) /\ InSlot(j, a) => i = j
  /\ \A i \in Nat : InSlot(i, a) => ~Waits(a) /\ ~InHand(a) /\ ~Sleeps(a)
  /\ Waits(a) => ~InHand(a) /\ ~Sleeps(a)
  /\ InHand(a) => ~Sleeps(a)
  /\ a \in ended_here => /\ \A i \in Nat : ~InSlot(i, a)
                         /\ ~Waits(a) /\ ~InHand(a) /\ ~Sleeps(a)

(* The inductive invariant.                                                *)
HibernationInv ==
  /\ SlabP!SlabInv
  /\ DriverTypes
  /\ Keyed
  /\ OneEach
  /\ \A a \in Agents : Placed(a)
  /\ AckedIsDurable
-----------------------------------------------------------------------------
(* The slab of the server, as its proofs describe it: the two instances of *)
(* the slab are the same.                                                  *)
LEMMA SlabIsSlab ==
  /\ \A i : Slab!Get(i) = SlabP!Get(i) /\ Slab!Get(i)' = SlabP!Get(i)'
  /\ Slab!InsertIndex = SlabP!InsertIndex /\ Slab!Occupied = SlabP!Occupied
  /\ \A c : Slab!Insert(c) <=> SlabP!Insert(c)
  /\ \A h : Slab!Remove(h) <=> SlabP!Remove(h)
  /\ slabVars = SlabP!slabVars /\ slabVars' = SlabP!slabVars'
<1>1. /\ \A i : Slab!Get(i) = SlabP!Get(i) /\ Slab!Get(i)' = SlabP!Get(i)'
      /\ Slab!InsertIndex = SlabP!InsertIndex /\ Slab!Occupied = SlabP!Occupied
  BY DEF Slab!Get, Slab!Indices, SlabP!Get, SlabP!Indices, Slab!InsertIndex, SlabP!InsertIndex,
         Slab!Occupied, SlabP!Occupied
<1>2. \A c : Slab!Insert(c) <=> SlabP!Insert(c)
  BY <1>1 DEF Slab!Insert, SlabP!Insert, Slab!InsertFreed, SlabP!InsertFreed,
              Slab!InsertPush, SlabP!InsertPush, Slab!Pop, SlabP!Pop
<1>3. \A h : Slab!Remove(h) <=> SlabP!Remove(h)
  BY <1>1 DEF Slab!Remove, SlabP!Remove, Slab!RemoveStored, SlabP!RemoveStored,
              Slab!RemoveNothing, SlabP!RemoveNothing, Slab!slabVars, SlabP!slabVars
<1> QED BY <1>1, <1>2, <1>3 DEF slabVars, SlabP!slabVars

(* What get gives, and which slots are occupied.                           *)
LEMMA SlabGet ==
  ASSUME SlabP!SlabInv
  PROVE  /\ \A i : Slab!Get(i) \in Conts \cup {None}
         /\ \A i : Slab!Get(i) # None => i \in Nat
         /\ \A i : i \in Slab!Occupied <=> Slab!Get(i) # None
         /\ \A i \in Slab!Occupied : Slab!Get(i) = slots[i + 1]
<1>1. \A i : /\ SlabP!Get(i) \in Conts \cup {None}
             /\ i \in SlabP!Occupied <=> SlabP!Get(i) # None
             /\ SlabP!Get(i) # None => i \in Nat /\ SlabP!Get(i) = slots[i + 1]
  BY SlabP!GetRange, NoneAssumption, HibernationAssumption
<1> QED BY <1>1, SlabIsSlab

(* insert: one more index leads to a continuation.                         *)
LEMMA SlabInsert ==
  ASSUME SlabP!SlabInv, NEW c \in Conts, Slab!Insert(c)
  PROVE  /\ SlabP!SlabInv'
         /\ Slab!InsertIndex \in Nat
         /\ Slab!Get(Slab!InsertIndex) = None
         /\ \A i : Slab!Get(i)' = IF i = Slab!InsertIndex THEN c ELSE Slab!Get(i)
<1>1. SlabP!Insert(c)
  BY SlabIsSlab
<1> QED BY <1>1, SlabIsSlab, SlabP!GetAfterInsert, NoneAssumption, HibernationAssumption

(* remove: its index leads nowhere any more.                               *)
LEMMA SlabRemove ==
  ASSUME SlabP!SlabInv, NEW h, Slab!Remove(h)
  PROVE  /\ SlabP!SlabInv'
         /\ \A i : Slab!Get(i)' = IF i = h THEN None ELSE Slab!Get(i)
<1>1. SlabP!Remove(h)
  BY SlabIsSlab
<1> QED BY <1>1, SlabIsSlab, SlabP!GetAfterRemove, NoneAssumption, HibernationAssumption

(* A step that does not call the slab.                                     *)
LEMMA SlabKept ==
  ASSUME SlabP!SlabInv, UNCHANGED slabVars
  PROVE  SlabP!SlabInv' /\ \A i : Slab!Get(i)' = Slab!Get(i)
<1>1. UNCHANGED SlabP!slabVars
  BY SlabIsSlab
<1> QED BY <1>1, SlabIsSlab, SlabP!GetKept, NoneAssumption, HibernationAssumption

-----------------------------------------------------------------------------
(* Copying and dropping continuations leaves each agent one.               *)
LEMMA OneEachKept ==
  ASSUME OneEach, \A c : Known(c)' => Known(c), born' = born
  PROVE  OneEach'
  BY DEF OneEach

(* Of the records, only those of the tree and the disk matter here.        *)
LEMMA RecordsKept ==
  ASSUME Keyed, AckedIsDurable, UNCHANGED <<tree, disk, acked, woken, replaced>>
  PROVE  Keyed' /\ AckedIsDurable'
  BY DEF Keyed, AckedIsDurable, Recorded

(* No place is entered.                                                    *)
LEMMA PlacedKept ==
  ASSUME NEW a, Placed(a),
         \A i \in Nat : InSlot(i, a)' => InSlot(i, a),
         Waits(a)' => Waits(a), InHand(a)' => InHand(a), Sleeps(a)' => Sleeps(a),
         a \in ended_here' => a \in ended_here
  PROVE  Placed(a)'
  BY DEF Placed

(* Whoever is in some place is known, and was born.                        *)
LEMMA PlacesKnown ==
  ASSUME SlabP!SlabInv, DriverTypes, OneEach, NEW a,
         Waits(a) \/ InHand(a) \/ Sleeps(a) \/ \E i \in Nat : InSlot(i, a)
  PROVE  a <= born
<1>1. PICK c : Known(c) /\ c.who = a
  <2>1. CASE \E i \in Nat : InSlot(i, a)
    BY <2>1, SlabGet DEF InSlot, Known
  <2>2. CASE Waits(a)
    BY <2>2 DEF Waits, Known, DriverTypes
  <2>3. CASE InHand(a)
    BY <2>3 DEF InHand, Known, DriverTypes
  <2>4. CASE Sleeps(a)
    BY <2>4 DEF Sleeps, Known, DriverTypes
  <2> QED BY <2>1, <2>2, <2>3, <2>4
<1> QED BY <1>1 DEF OneEach

-----------------------------------------------------------------------------
(* An empty slab and an empty store.                                       *)
LEMMA InitHibernation == Init => HibernationInv
<1> SUFFICES ASSUME Init PROVE HibernationInv
  OBVIOUS
<1>1. SlabP!SlabInv
  <2>1. SlabP!SlabInit
    BY DEF Init, Slab!SlabInit, SlabP!SlabInit
  <2> QED BY <2>1, SlabP!InitSlabInv, NoneAssumption, HibernationAssumption
<1>2. \A i : Slab!Get(i) = None
  BY DEF Init, Slab!SlabInit, Slab!Get, Slab!Indices
<1>3. DriverTypes /\ Keyed
  BY HibernationAssumption DEF Init, DriverTypes, Keyed, Empty
<1>4. \A c : ~Known(c)
  BY <1>2, NoneAssumption DEF Known, Init, Empty
<1>5. \A a \in Agents : Placed(a)
  BY <1>2 DEF Placed, InSlot, Waits, InHand, Sleeps, Init, Empty
<1>6. OneEach /\ AckedIsDurable
  BY <1>4 DEF OneEach, AckedIsDurable, Init
<1> QED BY <1>1, <1>3, <1>5, <1>6 DEF HibernationInv

(* A new agent has a number of its own, whatever id its server gives it.   *)
LEMMA DispatchPreserves ==
  ASSUME HibernationInv, Dispatch
  PROVE  HibernationInv'
<1> DEFINE new == [agent_id |-> next_id, who |-> born + 1]
<1>1. new \in Conts /\ new.who = born + 1 /\ born + 1 \in Agents
  BY HibernationAssumption DEF HibernationInv, DriverTypes, Dispatch, Conts, Ids, Agents
<1>2. /\ UNCHANGED <<tree, disk, pc, hand, pending, asleep, acked, woken, replaced, ended_here>>
      /\ born' = born + 1 /\ next_id' = next_id + 1 /\ born < MaxAgents
      /\ Slab!Insert(new)
  BY DEF Dispatch, storeVars, driverVars, history
<1> HIDE DEF new
<1>3. /\ SlabP!SlabInv'
      /\ Slab!InsertIndex \in Nat /\ Slab!Get(Slab!InsertIndex) = None
      /\ \A i : Slab!Get(i)' = IF i = Slab!InsertIndex THEN new ELSE Slab!Get(i)
  BY <1>1, <1>2, SlabInsert DEF HibernationInv
<1>4. DriverTypes'
  <2>1. born' \in 0 .. MaxAgents /\ next_id' \in 1 .. born' + 1
    BY <1>2, HibernationAssumption DEF HibernationInv, DriverTypes
  <2>2. \A a \in ended_here' : a \in Agents /\ a <= born'
    BY <1>2, HibernationAssumption DEF HibernationInv, DriverTypes, Agents
  <2> QED BY <1>2, <2>1, <2>2 DEF HibernationInv, DriverTypes
<1>5. Keyed' /\ AckedIsDurable'
  BY <1>2, RecordsKept DEF HibernationInv
<1>6. OneEach'
  <2>1. \A c : Known(c)' => Known(c) \/ c = new
    BY <1>2, <1>3 DEF Known
  <2>2. \A c : Known(c) => c.who # new.who /\ c.who <= born'
    BY <1>1, <1>2 DEF HibernationInv, OneEach, Known, Conts, Agents, DriverTypes
  <2> QED BY <1>1, <1>2, <2>1, <2>2 DEF HibernationInv, OneEach, DriverTypes
<1>7. ASSUME NEW a \in Agents PROVE Placed(a)'
  <2>1. /\ Waits(a)' = Waits(a) /\ InHand(a)' = InHand(a) /\ Sleeps(a)' = Sleeps(a)
        /\ (a \in ended_here') = (a \in ended_here)
    BY <1>2 DEF Waits, InHand, Sleeps
  <2>2. CASE a = born + 1
    <3>1. ~(a <= born)
      BY <2>2 DEF HibernationInv, DriverTypes
    <3>2. /\ ~Waits(a) /\ ~InHand(a) /\ ~Sleeps(a) /\ a \notin ended_here
          /\ \A i \in Nat : ~InSlot(i, a)
      BY <3>1, PlacesKnown DEF HibernationInv, DriverTypes
    <3>3. \A i \in Nat : InSlot(i, a)' => i = Slab!InsertIndex
      BY <1>3, <3>2 DEF InSlot
    <3> QED BY <2>1, <3>2, <3>3 DEF Placed
  <2>3. CASE a # born + 1
    <3>1. \A i \in Nat : InSlot(i, a)' => InSlot(i, a)
      BY <1>1, <1>3, <2>3 DEF InSlot
    <3> QED BY <2>1, <3>1, PlacedKept DEF HibernationInv
  <2> QED BY <2>2, <2>3
<1> QED BY <1>3, <1>4, <1>5, <1>6, <1>7 DEF HibernationInv

(* From a slot into the driver's hands.                                    *)
LEMMA TakePreserves ==
  ASSUME HibernationInv, NEW i \in Slab!Occupied, Take(i)
  PROVE  HibernationInv'
<1>1. /\ UNCHANGED <<born, next_id, tree, disk, pending, asleep, acked, woken, replaced,
                     ended_here>>
      /\ pc = "serving" /\ pc' = "hibernating" /\ hand' = Slab!Get(i) /\ Slab!Remove(i)
  BY DEF Take, storeVars, history
<1>2. /\ SlabP!SlabInv'
      /\ \A j : Slab!Get(j)' = IF j = i THEN None ELSE Slab!Get(j)
      /\ i \in Nat /\ Slab!Get(i) \in Conts /\ Slab!Get(i) # None
  BY <1>1, SlabRemove, SlabGet DEF HibernationInv
<1>3. DriverTypes'
  BY <1>1, <1>2 DEF HibernationInv, DriverTypes
<1>4. Keyed' /\ AckedIsDurable'
  BY <1>1, RecordsKept DEF HibernationInv
<1>5. OneEach'
  <2>1. \A c : Known(c)' => Known(c)
    BY <1>1, <1>2, NoneAssumption DEF Known
  <2> QED BY <1>1, <2>1, OneEachKept DEF HibernationInv
<1>6. ASSUME NEW a \in Agents PROVE Placed(a)'
  <2>1. /\ Waits(a)' = Waits(a) /\ Sleeps(a)' = Sleeps(a)
        /\ (a \in ended_here') = (a \in ended_here)
        /\ InHand(a)' <=> InSlot(i, a)
        /\ \A j \in Nat : InSlot(j, a)' <=> InSlot(j, a) /\ j # i
    BY <1>1, <1>2 DEF Waits, Sleeps, InHand, InSlot
  <2> QED BY <1>2, <2>1 DEF HibernationInv, Placed
<1> QED BY <1>2, <1>3, <1>4, <1>5, <1>6 DEF HibernationInv

(* From the driver's hands into the store.  A record that was there under  *)
(* the same id is replaced: the one agent that loses its record is noted.  *)
LEMMA WritePreserves ==
  ASSUME HibernationInv, Write
  PROVE  HibernationInv'
<1> DEFINE k == hand.agent_id
<1>1. /\ UNCHANGED slabVars
      /\ UNCHANGED <<born, next_id, disk, hand, pending, asleep, acked, woken, ended_here>>
      /\ pc = "hibernating" /\ pc' = "flushing"
      /\ tree' = [tree EXCEPT ![k] = hand]
      /\ replaced' = IF tree[k] = None \/ tree[k].who = hand.who THEN replaced
                     ELSE replaced \cup {tree[k].who}
  BY DEF Write
<1>2. SlabP!SlabInv' /\ \A i : Slab!Get(i)' = Slab!Get(i)
  BY <1>1, SlabKept DEF HibernationInv
<1>3. /\ hand # None /\ hand \in Conts /\ k \in Ids
      /\ tree' \in [Ids -> Conts \cup {None}] /\ tree'[k] = hand
      /\ \A id \in Ids \ {k} : tree'[id] = tree[id]
  BY <1>1 DEF HibernationInv, DriverTypes, Conts
<1>4. DriverTypes'
  BY <1>1, <1>3 DEF HibernationInv, DriverTypes
<1>5. Keyed'
  BY <1>1, <1>3 DEF HibernationInv, Keyed
<1>6. OneEach'
  <2>1. \A c : Known(c)' => Known(c)
    BY <1>1, <1>2, <1>3 DEF Known
  <2> QED BY <1>1, <2>1, OneEachKept DEF HibernationInv
<1>7. ASSUME NEW a \in Agents PROVE Placed(a)'
  <2>1. /\ Waits(a)' = Waits(a) /\ ~InHand(a)'
        /\ (a \in ended_here') = (a \in ended_here)
        /\ \A j \in Nat : InSlot(j, a)' <=> InSlot(j, a)
    BY <1>1, <1>2 DEF Waits, InHand, InSlot
  <2>2. Sleeps(a)' => Sleeps(a) \/ InHand(a)
    BY <1>1, <1>3 DEF Sleeps, InHand
  <2> QED BY <2>1, <2>2 DEF HibernationInv, Placed
<1>8. AckedIsDurable'
  <2> SUFFICES ASSUME NEW a \in acked, a \notin woken, a \notin replaced'
               PROVE  Recorded(a, tree') /\ Recorded(a, disk)
    BY <1>1 DEF AckedIsDurable, Recorded
  <2>1. a \notin replaced /\ Recorded(a, tree) /\ Recorded(a, disk)
    BY <1>1 DEF HibernationInv, AckedIsDurable
  <2>2. PICK id \in Ids : tree[id] # None /\ tree[id].who = a
    BY <2>1 DEF Recorded
  <2>3. CASE id = k
    BY <1>1, <1>3, <2>1, <2>2, <2>3 DEF Recorded
  <2>4. CASE id # k
    BY <1>3, <2>1, <2>2, <2>4 DEF Recorded
  <2> QED BY <2>3, <2>4
<1> QED BY <1>2, <1>4, <1>5, <1>6, <1>7, <1>8 DEF HibernationInv

(* Acknowledged: the tree, with what the driver held, is on disk.          *)
LEMMA FlushPreserves ==
  ASSUME HibernationInv, Flush
  PROVE  HibernationInv'
<1>1. /\ UNCHANGED slabVars
      /\ UNCHANGED <<born, next_id, tree, pending, ended_here>>
      /\ pc = "flushing" /\ pc' = "serving" /\ disk' = tree /\ hand' = None
      /\ asleep' = asleep \cup {hand.agent_id}
      /\ acked' = acked \cup {hand.who} /\ woken' = woken \ {hand.who}
      /\ replaced' = replaced \ {hand.who}
  BY DEF Flush
<1>2. SlabP!SlabInv' /\ \A i : Slab!Get(i)' = Slab!Get(i)
  BY <1>1, SlabKept DEF HibernationInv
<1>3. /\ hand # None /\ hand \in Conts /\ hand.agent_id \in Ids
      /\ tree[hand.agent_id] = hand
  BY <1>1 DEF HibernationInv, DriverTypes, Conts
<1>4. DriverTypes'
  BY <1>1, <1>3 DEF HibernationInv, DriverTypes
<1>5. Keyed'
  BY <1>1 DEF HibernationInv, Keyed
<1>6. OneEach'
  <2>1. \A c : Known(c)' => Known(c)
    BY <1>1, <1>2, NoneAssumption DEF Known
  <2> QED BY <1>1, <2>1, OneEachKept DEF HibernationInv
<1>7. ASSUME NEW a \in Agents PROVE Placed(a)'
  <2>1. /\ Waits(a)' => Waits(a)
        /\ ~InHand(a)'
        /\ a \in ended_here' => a \in ended_here
        /\ \A j \in Nat : InSlot(j, a)' => InSlot(j, a)
    BY <1>1, <1>2 DEF Waits, InHand, InSlot
  <2>2. Sleeps(a)' => Sleeps(a)
    BY <1>1 DEF Sleeps
  <2> QED BY <2>1, <2>2, PlacedKept DEF HibernationInv
<1>8. AckedIsDurable'
  <2> SUFFICES ASSUME NEW a \in acked', a \notin woken', a \notin replaced'
               PROVE  Recorded(a, tree)
    BY <1>1 DEF AckedIsDurable, Recorded
  <2>1. CASE a = hand.who
    BY <2>1, <1>3 DEF Recorded
  <2>2. CASE a # hand.who
    BY <2>2, <1>1 DEF HibernationInv, AckedIsDurable
  <2> QED BY <2>1, <2>2
<1> QED BY <1>2, <1>4, <1>5, <1>6, <1>7, <1>8 DEF HibernationInv

(* A flush at a time of sled's choosing: the disk follows the tree.        *)
LEMMA BackgroundFlushPreserves ==
  ASSUME HibernationInv, BackgroundFlush
  PROVE  HibernationInv'
<1>1. /\ UNCHANGED slabVars
      /\ UNCHANGED <<born, next_id, tree, hand, pc, pending, asleep, acked, woken, replaced,
                     ended_here>>
      /\ disk' = tree
  BY DEF BackgroundFlush, driverVars, history
<1>2. SlabP!SlabInv' /\ \A i : Slab!Get(i)' = Slab!Get(i)
  BY <1>1, SlabKept DEF HibernationInv
<1>3. DriverTypes' /\ Keyed'
  BY <1>1 DEF HibernationInv, DriverTypes, Keyed
<1>4. OneEach'
  <2>1. \A c : Known(c)' => Known(c)
    BY <1>1, <1>2 DEF Known
  <2> QED BY <1>1, <2>1, OneEachKept DEF HibernationInv
<1>5. ASSUME NEW a \in Agents PROVE Placed(a)'
  BY <1>1, <1>2, PlacedKept DEF HibernationInv, InSlot, Waits, InHand, Sleeps
<1>6. AckedIsDurable'
  BY <1>1 DEF HibernationInv, AckedIsDurable, Recorded
<1> QED BY <1>2, <1>3, <1>4, <1>5, <1>6 DEF HibernationInv

(* From the store into the driver's hands; the disk still has the record.  *)
LEMMA WakePreserves ==
  ASSUME HibernationInv, NEW k \in Ids, Wake(k)
  PROVE  HibernationInv'
<1>1. /\ UNCHANGED slabVars
      /\ UNCHANGED <<born, next_id, disk, pending, acked, replaced, ended_here>>
      /\ pc = "serving" /\ k \in asleep /\ asleep' = asleep \ {k}
      /\ tree' = [tree EXCEPT ![k] = None] /\ hand' = tree[k]
      /\ woken' = IF tree[k] = None THEN woken ELSE woken \cup {tree[k].who}
      /\ pc' = IF tree[k] = None THEN "serving" ELSE "waking"
  BY DEF Wake
<1>2. SlabP!SlabInv' /\ \A i : Slab!Get(i)' = Slab!Get(i)
  BY <1>1, SlabKept DEF HibernationInv
<1>3. /\ tree \in [Ids -> Conts \cup {None}]
      /\ tree' \in [Ids -> Conts \cup {None}] /\ tree'[k] = None
      /\ \A id \in Ids \ {k} : tree'[id] = tree[id]
      /\ hand' \in Conts \cup {None}
  BY <1>1 DEF HibernationInv, DriverTypes
<1>4. DriverTypes'
  BY <1>1, <1>3 DEF HibernationInv, DriverTypes
<1>5. Keyed'
  BY <1>1, <1>3 DEF HibernationInv, Keyed
<1>6. OneEach'
  <2>1. \A c : Known(c)' => Known(c)
    BY <1>1, <1>2, <1>3, NoneAssumption DEF Known
  <2> QED BY <1>1, <2>1, OneEachKept DEF HibernationInv
<1>7. ASSUME NEW a \in Agents PROVE Placed(a)'
  <2>1. /\ Waits(a)' = Waits(a) /\ (a \in ended_here') = (a \in ended_here)
        /\ \A j \in Nat : InSlot(j, a)' <=> InSlot(j, a)
    BY <1>1, <1>2 DEF Waits, InSlot
  <2>2. Sleeps(a)' => Sleeps(a)
    BY <1>1, <1>3 DEF Sleeps
  <2>3. InHand(a)' => Sleeps(a) /\ ~Sleeps(a)'
    <3> SUFFICES ASSUME InHand(a)' PROVE Sleeps(a) /\ ~Sleeps(a)'
      OBVIOUS
    <3>1. tree[k] # None /\ tree[k].who = a
      BY <1>1 DEF InHand
    <3>2. \A id \in Ids : tree[id] # None /\ tree[id].who = a => id = k
      <4> SUFFICES ASSUME NEW id \in Ids, tree[id] # None, tree[id].who = a
                   PROVE  id = k
        OBVIOUS
      <4>1. Known(tree[id]) /\ Known(tree[k])
        BY <1>3, <3>1 DEF Known
      <4>2. tree[id] = tree[k]
        BY <4>1, <3>1 DEF HibernationInv, OneEach
      <4> QED BY <4>2, <3>1 DEF HibernationInv, Keyed
    <3> QED BY <1>1, <1>3, <3>1, <3>2 DEF Sleeps
  <2> QED BY <2>1, <2>2, <2>3 DEF HibernationInv, Placed
<1>8. AckedIsDurable'
  <2> SUFFICES ASSUME NEW a \in acked, a \notin woken', a \notin replaced
               PROVE  Recorded(a, tree') /\ Recorded(a, disk)
    BY <1>1 DEF AckedIsDurable, Recorded
  <2>1. a \notin woken /\ Recorded(a, tree) /\ Recorded(a, disk)
    BY <1>1 DEF HibernationInv, AckedIsDurable
  <2>2. PICK id \in Ids : tree[id] # None /\ tree[id].who = a
    BY <2>1 DEF Recorded
  <2>3. id # k
    BY <2>2, <1>1
  <2> QED BY <1>3, <2>1, <2>2, <2>3 DEF Recorded
<1> QED BY <1>2, <1>4, <1>5, <1>6, <1>7, <1>8 DEF HibernationInv

(* From the driver's hands back into a slot.                               *)
LEMMA ReinsertPreserves ==
  ASSUME HibernationInv, Reinsert
  PROVE  HibernationInv'
<1>1. /\ UNCHANGED <<born, next_id, tree, disk, pending, asleep, acked, woken, replaced,
                     ended_here>>
      /\ pc = "waking" /\ pc' = "serving" /\ hand' = None /\ Slab!Insert(hand)
  BY DEF Reinsert, storeVars, history
<1>2. hand \in Conts /\ hand # None
  BY <1>1 DEF HibernationInv, DriverTypes
<1>3. /\ SlabP!SlabInv'
      /\ Slab!InsertIndex \in Nat /\ Slab!Get(Slab!InsertIndex) = None
      /\ \A i : Slab!Get(i)' = IF i = Slab!InsertIndex THEN hand ELSE Slab!Get(i)
  BY <1>1, <1>2, SlabInsert DEF HibernationInv
<1>4. DriverTypes'
  BY <1>1 DEF HibernationInv, DriverTypes
<1>5. Keyed' /\ AckedIsDurable'
  BY <1>1, RecordsKept DEF HibernationInv
<1>6. OneEach'
  <2>1. \A c : Known(c)' => Known(c)
    BY <1>1, <1>3, NoneAssumption DEF Known
  <2> QED BY <1>1, <2>1, OneEachKept DEF HibernationInv
<1>7. ASSUME NEW a \in Agents PROVE Placed(a)'
  <2>1. /\ Waits(a)' = Waits(a) /\ Sleeps(a)' = Sleeps(a) /\ ~InHand(a)'
        /\ (a \in ended_here') = (a \in ended_here)
        /\ InHand(a) <=> hand.who = a
    BY <1>1, <1>2 DEF Waits, Sleeps, InHand
  <2>2. \A i \in Nat : InSlot(i, a)' <=>
          (IF i = Slab!InsertIndex THEN hand.who = a ELSE InSlot(i, a))
    BY <1>2, <1>3 DEF InSlot
  <2> QED BY <1>3, <2>1, <2>2 DEF HibernationInv, Placed
<1> QED BY <1>3, <1>4, <1>5, <1>6, <1>7 DEF HibernationInv

(* Out of the slab, and ended: it is nowhere on this server any more.      *)
LEMMA ResumePreserves ==
  ASSUME HibernationInv, NEW i \in Slab!Occupied, Resume(i)
  PROVE  HibernationInv'
<1>1. /\ UNCHANGED <<born, next_id, tree, disk, pc, hand, pending, asleep, acked, woken,
                     replaced>>
      /\ pc = "serving" /\ ended_here' = ended_here \cup {Slab!Get(i).who}
      /\ Slab!Remove(i)
  BY DEF Resume, storeVars, driverVars
<1>2. /\ SlabP!SlabInv'
      /\ \A j : Slab!Get(j)' = IF j = i THEN None ELSE Slab!Get(j)
      /\ i \in Nat /\ Slab!Get(i) \in Conts /\ Slab!Get(i) # None
  BY <1>1, SlabRemove, SlabGet DEF HibernationInv
<1>3. DriverTypes'
  <2>1. Slab!Get(i).who \in Agents /\ Slab!Get(i).who <= born
    BY <1>2 DEF HibernationInv, OneEach, Known, Conts
  <2>2. \A a \in ended_here' : a \in Agents /\ a <= born'
    BY <1>1, <2>1 DEF HibernationInv, DriverTypes
  <2> QED BY <1>1, <2>2 DEF HibernationInv, DriverTypes
<1>4. Keyed' /\ AckedIsDurable'
  BY <1>1, RecordsKept DEF HibernationInv
<1>5. OneEach'
  <2>1. \A c : Known(c)' => Known(c)
    BY <1>1, <1>2, NoneAssumption DEF Known
  <2> QED BY <1>1, <2>1, OneEachKept DEF HibernationInv
<1>6. ASSUME NEW a \in Agents PROVE Placed(a)'
  <2>1. /\ Waits(a)' = Waits(a) /\ Sleeps(a)' = Sleeps(a) /\ InHand(a)' = InHand(a)
        /\ (a \in ended_here') <=> (a \in ended_here) \/ InSlot(i, a)
        /\ \A j \in Nat : InSlot(j, a)' <=> InSlot(j, a) /\ j # i
    BY <1>1, <1>2 DEF Waits, Sleeps, InHand, InSlot
  <2> QED BY <1>2, <2>1 DEF HibernationInv, Placed
<1> QED BY <1>2, <1>3, <1>4, <1>5, <1>6 DEF HibernationInv

-----------------------------------------------------------------------------
(* The slab of a new server is empty.                                      *)
LEMMA EmptySlab == SlabP!SlabInit' => SlabP!SlabInv'
<1>1. SlabP!SlabInit => SlabP!SlabInv
  BY SlabP!InitSlabInv, NoneAssumption, HibernationAssumption
<1> QED BY <1>1, PTL

(* Only the disk survives, and what it holds waits to be restored.         *)
LEMMA CrashPreserves ==
  ASSUME HibernationInv, Crash
  PROVE  HibernationInv'
<1>1. /\ UNCHANGED <<born, disk, acked, woken, replaced>>
      /\ slots' = <<>> /\ free_list' = <<>> /\ count' = 0
      /\ next_id' = 1 /\ tree' = disk /\ pc' = "starting" /\ hand' = None /\ asleep' = {}
      /\ pending' \subseteq {disk[id] : id \in {k \in Ids : disk[k] # None}}
      /\ ended_here' = {}
  BY DEF Crash
<1>2. SlabP!SlabInv'
  <2>1. SlabP!SlabInit'
    BY <1>1 DEF SlabP!SlabInit
  <2> QED BY <2>1, EmptySlab
<1>3. \A i : Slab!Get(i)' = None
  BY <1>1 DEF Slab!Get, Slab!Indices
<1>4. DriverTypes'
  BY <1>1 DEF HibernationInv, DriverTypes
<1>5. Keyed'
  BY <1>1 DEF HibernationInv, Keyed
<1>6. OneEach'
  <2>1. \A c : Known(c)' => Known(c)
    BY <1>1, <1>3, NoneAssumption DEF Known
  <2> QED BY <1>1, <2>1, OneEachKept DEF HibernationInv
<1>7. ASSUME NEW a \in Agents PROVE Placed(a)'
  BY <1>1, <1>3 DEF Placed, InSlot, InHand, Sleeps
<1>8. AckedIsDurable'
  BY <1>1 DEF HibernationInv, AckedIsDurable, Recorded
<1> QED BY <1>2, <1>4, <1>5, <1>6, <1>7, <1>8 DEF HibernationInv

(* From the restored records into a slot.                                  *)
LEMMA RestorePreserves ==
  ASSUME HibernationInv, Restore
  PROVE  HibernationInv'
<1>1. PICK c \in pending : Slab!Insert(c) /\ pending' = pending \ {c}
  BY DEF Restore
<1>2. /\ UNCHANGED <<born, next_id, tree, disk, pc, hand, asleep, acked, woken, replaced,
                     ended_here>>
      /\ pc = "starting" /\ c \in Conts /\ c # None
  BY <1>1, NoneAssumption DEF Restore, storeVars, history, HibernationInv, DriverTypes
<1>3. /\ SlabP!SlabInv'
      /\ Slab!InsertIndex \in Nat /\ Slab!Get(Slab!InsertIndex) = None
      /\ \A i : Slab!Get(i)' = IF i = Slab!InsertIndex THEN c ELSE Slab!Get(i)
  BY <1>1, <1>2, SlabInsert DEF HibernationInv
<1>4. DriverTypes'
  BY <1>1, <1>2 DEF HibernationInv, DriverTypes
<1>5. Keyed' /\ AckedIsDurable'
  BY <1>2, RecordsKept DEF HibernationInv
<1>6. OneEach'
  <2>1. \A d : Known(d)' => Known(d)
    BY <1>1, <1>2, <1>3 DEF Known
  <2> QED BY <1>2, <2>1, OneEachKept DEF HibernationInv
<1>7. ASSUME NEW a \in Agents PROVE Placed(a)'
  <2>1. /\ InHand(a)' = InHand(a) /\ Sleeps(a)' = Sleeps(a)
        /\ (a \in ended_here') = (a \in ended_here)
        /\ Waits(a)' => Waits(a)
        /\ c.who = a => Waits(a)
    BY <1>1, <1>2 DEF InHand, Sleeps, Waits
  <2>2. Waits(a)' => c.who # a
    <3>1. \A d \in pending : d.who = c.who => d = c
      BY <1>1 DEF HibernationInv, DriverTypes, OneEach, Known
    <3> QED BY <1>1, <3>1 DEF Waits
  <2>3. \A i \in Nat : InSlot(i, a)' <=>
          (IF i = Slab!InsertIndex THEN c.who = a ELSE InSlot(i, a))
    BY <1>2, <1>3 DEF InSlot
  <2> QED BY <1>3, <2>1, <2>2, <2>3 DEF HibernationInv, Placed
<1> QED BY <1>3, <1>4, <1>5, <1>6, <1>7 DEF HibernationInv

(* The end of a restart, and a step of something else, change no place.    *)
LEMMA RestPreserves ==
  ASSUME HibernationInv, Started \/ UNCHANGED vars
  PROVE  HibernationInv'
<1>1. /\ UNCHANGED slabVars
      /\ UNCHANGED <<born, next_id, tree, disk, hand, pending, asleep, acked, woken, replaced,
                     ended_here>>
      /\ pc' = pc \/ (pc = "starting" /\ pending = {} /\ pc' = "serving")
  BY DEF Started, vars, storeVars, driverVars, history
<1>2. SlabP!SlabInv' /\ \A i : Slab!Get(i)' = Slab!Get(i)
  BY <1>1, SlabKept DEF HibernationInv
<1>3. DriverTypes'
  BY <1>1 DEF HibernationInv, DriverTypes
<1>4. Keyed' /\ AckedIsDurable'
  BY <1>1, RecordsKept DEF HibernationInv
<1>5. OneEach'
  <2>1. \A c : Known(c)' => Known(c)
    BY <1>1, <1>2 DEF Known
  <2> QED BY <1>1, <2>1, OneEachKept DEF HibernationInv
<1>6. ASSUME NEW a \in Agents PROVE Placed(a)'
  BY <1>1, <1>2, PlacedKept DEF HibernationInv, InSlot, Waits, InHand, Sleeps
<1> QED BY <1>2, <1>3, <1>4, <1>5, <1>6 DEF HibernationInv

(* The invariant holds of every run of servers, whatever crashes.          *)
THEOREM HibernationInvariant == Spec => []HibernationInv
<1>1. HibernationInv /\ [Next]_vars => HibernationInv'
  BY DispatchPreserves, WritePreserves, FlushPreserves, BackgroundFlushPreserves,
     ReinsertPreserves, CrashPreserves, RestorePreserves, RestPreserves, TakePreserves,
     ResumePreserves, WakePreserves
  DEF Next, Idle
<1> QED BY <1>1, InitHibernation, PTL DEF Spec

(* What hibernate acknowledged survives every crash, at every point, until *)
(* wake hands it out or the record of another agent with its id replaces   *)
(* it (hibernate, wake and all_pending of hibernation.rs).                 *)
THEOREM AckedAlwaysDurable == Spec => []AckedIsDurable
<1>1. HibernationInv => AckedIsDurable
  BY DEF HibernationInv
<1> QED BY <1>1, HibernationInvariant, PTL

(* A set with no two elements counts as one when there is one, else as     *)
(* none.                                                                   *)
LEMMA AtMostOne ==
  ASSUME NEW S, \A x, y \in S : x = y
  PROVE  Cardinality(S) = IF S = {} THEN 0 ELSE 1
<1>1. CASE S = {}
  BY <1>1, FS_EmptySet
<1>2. CASE S # {}
  <2>1. PICK x \in S : S = {x}
    BY <1>2
  <2> QED BY <1>2, <2>1, FS_Singleton
<1> QED BY <1>1, <1>2

(* Between two crashes no agent is in two places, and none that ended is   *)
(* in any, so that no agent is resumed twice by one server, although its   *)
(* record stays in the tree while it runs.                                 *)
THEOREM AlwaysOnePlacePerServer == Spec => []OnePlacePerServer
<1>1. HibernationInv => OnePlacePerServer
  <2> SUFFICES ASSUME HibernationInv, NEW a \in Agents
               PROVE  Places(a) <= IF a \in ended_here THEN 0 ELSE 1
    BY DEF OnePlacePerServer
  <2> DEFINE InSlots == {i \in Slab!Occupied : slots[i + 1].who = a}
             Pending == {c \in pending : c.who = a}
             Asleep == {id \in Ids : tree[id] # None /\ tree[id].who = a
                          /\ (id \in asleep \/ (pc = "flushing" /\ hand.agent_id = id))}
  <2>1. \A i : i \in InSlots <=> i \in Nat /\ InSlot(i, a)
    BY SlabGet DEF HibernationInv, InSlot
  <2>2. (Pending # {} <=> Waits(a)) /\ (Asleep # {} <=> Sleeps(a))
    BY DEF Waits, Sleeps
  <2>3. \A c, d \in Pending : c = d
    BY DEF HibernationInv, DriverTypes, OneEach, Known
  <2>4. \A i, j \in Asleep : i = j
    <3> SUFFICES ASSUME NEW i \in Asleep, NEW j \in Asleep PROVE i = j
      OBVIOUS
    <3>1. Known(tree[i]) /\ Known(tree[j]) /\ tree[i].who = tree[j].who
      BY DEF Known, HibernationInv, DriverTypes
    <3>2. tree[i] = tree[j]
      BY <3>1 DEF HibernationInv, OneEach
    <3> QED BY <3>2 DEF HibernationInv, Keyed
  <2>5. Placed(a)
    BY DEF HibernationInv
  <2>6. \A i, j \in InSlots : i = j
    BY <2>1, <2>5 DEF Placed
  <2>7. Places(a) = Cardinality(InSlots) + Cardinality(Pending)
                      + (IF InHand(a) THEN 1 ELSE 0) + Cardinality(Asleep)
    BY DEF Places, InHand
  <2> HIDE DEF InSlots, Pending, Asleep
  <2>8. /\ Cardinality(InSlots) = IF InSlots = {} THEN 0 ELSE 1
        /\ Cardinality(Pending) = IF Waits(a) THEN 1 ELSE 0
        /\ Cardinality(Asleep) = IF Sleeps(a) THEN 1 ELSE 0
    BY <2>2, <2>3, <2>4, <2>6, AtMostOne
  <2>9. /\ InSlots # {} => ~Waits(a) /\ ~InHand(a) /\ ~Sleeps(a)
        /\ Waits(a) => ~InHand(a) /\ ~Sleeps(a)
        /\ InHand(a) => ~Sleeps(a)
        /\ a \in ended_here => InSlots = {} /\ ~Waits(a) /\ ~InHand(a) /\ ~Sleeps(a)
    BY <2>1, <2>5 DEF Placed
  <2> QED BY <2>7, <2>8, <2>9
<1> QED BY <1>1, HibernationInvariant, PTL

-----------------------------------------------------------------------------
(* The safety half of AckedAgentsReturn: while a server restores, every    *)
(* hibernated agent is in its slab or waits to be, unless wake took its    *)
(* record, another agent's replaced it, or all_pending could not read it.  *)
RestoreLosesNone ==
  pc = "starting" =>
    \A a \in acked : \/ a \in woken \cup replaced \cup skipped
                    \/ Waits(a) \/ \E i \in Nat : InSlot(i, a)

(* all_pending and the restart loop, for every set of unreadable records.  *)
THEOREM RestartLosesNone == Spec => []RestoreLosesNone
<1>1. Init => RestoreLosesNone
  BY DEF Init, RestoreLosesNone
<1>2. HibernationInv /\ RestoreLosesNone /\ [Next]_vars => RestoreLosesNone'
  <2> SUFFICES ASSUME HibernationInv, RestoreLosesNone, [Next]_vars, pc' = "starting",
                      NEW a \in acked', a \notin woken' \cup replaced' \cup skipped'
               PROVE  Waits(a)' \/ \E i \in Nat : InSlot(i, a)'
    BY DEF RestoreLosesNone
  <2>1. CASE Crash
    <3>1. /\ acked' = acked /\ woken' = woken /\ replaced' = replaced
          /\ \E unreadable \in SUBSET {id \in Ids : disk[id] # None} :
               /\ pending' = {disk[id] : id \in {k \in Ids : disk[k] # None} \ unreadable}
               /\ skipped' = {disk[id].who : id \in unreadable}
      BY <2>1 DEF Crash
    <3>2. PICK id \in Ids : disk[id] # None /\ disk[id].who = a
      BY <3>1 DEF HibernationInv, AckedIsDurable, Recorded
    <3> QED BY <3>1, <3>2 DEF Waits
  <2>2. CASE Restore
    <3>1. PICK c \in pending : Slab!Insert(c) /\ pending' = pending \ {c}
      BY <2>2 DEF Restore
    <3>2. /\ pc = "starting" /\ c \in Conts /\ c # None
          /\ UNCHANGED <<acked, woken, replaced, skipped>>
      BY <2>2, <3>1, NoneAssumption
      DEF Restore, storeVars, history, HibernationInv, DriverTypes
    <3>3. /\ Slab!InsertIndex \in Nat /\ Slab!Get(Slab!InsertIndex) = None
          /\ \A i : Slab!Get(i)' = IF i = Slab!InsertIndex THEN c ELSE Slab!Get(i)
      BY <3>1, <3>2, SlabInsert DEF HibernationInv
    <3>4. CASE Waits(a)
      <4>1. PICK d \in pending : d.who = a
        BY <3>4 DEF Waits
      <4>2. CASE d = c
        BY <3>2, <3>3, <4>1, <4>2 DEF InSlot
      <4>3. CASE d # c
        BY <3>1, <4>1, <4>3 DEF Waits
      <4> QED BY <4>2, <4>3
    <3>5. ASSUME NEW i \in Nat, InSlot(i, a)
          PROVE  InSlot(i, a)'
      BY <3>3, <3>5 DEF InSlot
    <3> QED BY <3>2, <3>4, <3>5 DEF RestoreLosesNone
  <2>3. CASE UNCHANGED vars
    <3>1. /\ UNCHANGED <<pc, pending, acked, woken, replaced, skipped>>
          /\ UNCHANGED slabVars
      BY <2>3 DEF vars, driverVars, history
    <3>2. \A i : Slab!Get(i)' = Slab!Get(i)
      BY <3>1, SlabKept DEF HibernationInv
    <3> QED BY <3>1, <3>2 DEF RestoreLosesNone, Waits, InSlot
  <2>4. CASE BackgroundFlush \/ Idle
    <3>1. /\ UNCHANGED <<pc, pending, acked, woken, replaced, skipped>>
          /\ UNCHANGED slabVars
      BY <2>4 DEF BackgroundFlush, Idle, vars, driverVars, history
    <3>2. \A i : Slab!Get(i)' = Slab!Get(i)
      BY <3>1, SlabKept DEF HibernationInv
    <3> QED BY <3>1, <3>2 DEF RestoreLosesNone, Waits, InSlot
  <2>5. CASE Dispatch \/ \E i \in Slab!Occupied : Take(i) \/ Resume(i)
    BY <2>5 DEF Dispatch, Take, Resume, driverVars
  <2>6. CASE Write \/ Flush \/ Reinsert \/ Started \/ \E id \in Ids : Wake(id)
    BY <2>6 DEF Write, Flush, Reinsert, Started, Wake
  <2> QED BY <2>1, <2>2, <2>3, <2>4, <2>5, <2>6 DEF Next
<1> QED BY <1>1, <1>2, HibernationInvariant, PTL DEF Spec

-----------------------------------------------------------------------------
(* A server whose slab lacks one of the agents has a slot for it.          *)
LEMMA RoomForAnother ==
  ASSUME HibernationInv, NEW a \in Agents, \A i \in Nat : ~InSlot(i, a)
  PROVE  count < MaxAgents
<1> DEFINE others == Agents \ {a}
           who == [i \in Slab!Occupied |-> Slab!Get(i).who]
<1>1. /\ count = Cardinality(Slab!Occupied)
      /\ \A i : i \in Slab!Occupied <=> i \in Nat /\ Slab!Get(i) # None
      /\ \A i \in Slab!Occupied : Slab!Get(i).who \in Agents
  <2>1. count = SlabP!Cardinality(SlabP!Occupied)
    BY DEF HibernationInv, SlabP!SlabInv, SlabP!CountExact
  <2>2. SlabP!Cardinality(SlabP!Occupied) = Cardinality(SlabP!Occupied)
    BY DEF SlabP!Cardinality, Cardinality
  <2>3. count = Cardinality(Slab!Occupied)
    BY <2>1, <2>2, SlabIsSlab
  <2> QED BY <2>3, SlabGet DEF HibernationInv, Conts
<1>2. \A i \in Slab!Occupied : who[i] \in others
  BY <1>1 DEF InSlot
<1>3. \A i, j \in Slab!Occupied : who[i] = who[j] => i = j
  BY <1>1 DEF HibernationInv, Placed, InSlot
<1>4. who \in Injection(Slab!Occupied, others)
  BY <1>2, <1>3 DEF Injection, IsInjective
<1>5. IsFiniteSet(others) /\ Cardinality(others) = MaxAgents - 1
  <2>1. IsFiniteSet(Agents) /\ Cardinality(Agents) = MaxAgents
    BY FS_Interval, HibernationAssumption DEF Agents
  <2> QED BY <2>1, FS_RemoveElement
<1> HIDE DEF others
<1>6. /\ IsFiniteSet(Slab!Occupied)
      /\ Cardinality(Slab!Occupied) <= Cardinality(others)
  BY <1>4, <1>5, FS_Injection
<1>7. Cardinality(Slab!Occupied) \in Nat
  BY <1>6, FS_CardinalityType
<1> QED BY <1>1, <1>5, <1>6, <1>7, HibernationAssumption

(* No bound of the model ever keeps the program from storing an agent that *)
(* is new, woken or restored after a crash: the records all_pending gives  *)
(* can all be inserted (scheduler.rs, hibernation.rs).                     *)
InsertsFit ==
  /\ pc = "serving" /\ born < MaxAgents => count < MaxAgents
  /\ pc = "waking" => count < MaxAgents
  /\ pending # {} => count < MaxAgents

(* However many agents, crashes and restores, it does not.                 *)
THEOREM InsertNeverBlocked == Spec => []InsertsFit
<1>1. ASSUME HibernationInv, pc = "serving", born < MaxAgents
      PROVE  count < MaxAgents
  <2>1. born + 1 \in Agents /\ ~(born + 1 <= born)
    BY <1>1, HibernationAssumption DEF HibernationInv, DriverTypes, Agents
  <2>2. \A i \in Nat : ~InSlot(i, born + 1)
    BY <1>1, <2>1, PlacesKnown DEF HibernationInv
  <2> QED BY <1>1, <2>1, <2>2, RoomForAnother
<1>2. ASSUME HibernationInv, pc = "waking"
      PROVE  count < MaxAgents
  <2>1. hand.who \in Agents /\ InHand(hand.who)
    BY <1>2 DEF HibernationInv, DriverTypes, InHand, Conts
  <2>2. \A i \in Nat : ~InSlot(i, hand.who)
    BY <1>2, <2>1 DEF HibernationInv, Placed
  <2> QED BY <1>2, <2>1, <2>2, RoomForAnother
<1>3. ASSUME HibernationInv, pending # {}
      PROVE  count < MaxAgents
  <2>1. PICK c \in pending : c.who \in Agents /\ Waits(c.who)
    BY <1>3 DEF HibernationInv, DriverTypes, Waits, Conts
  <2>2. \A i \in Nat : ~InSlot(i, c.who)
    BY <1>3, <2>1 DEF HibernationInv, Placed
  <2> QED BY <1>3, <2>1, <2>2, RoomForAnother
<1>4. HibernationInv => InsertsFit
  BY <1>1, <1>2, <1>3 DEF InsertsFit
<1> QED BY <1>4, HibernationInvariant, PTL

(* The slab of the running server makes the steps of the slab, and starts  *)
(* empty again with each server.                                           *)
LEMMA StepCallsSlab ==
  ASSUME HibernationInv, SlabP!HighWater, [Next]_vars
  PROVE  [SlabP!SlabNext \/ SlabP!SlabInit']_SlabP!slabVars
<1>1. CASE UNCHANGED slabVars
  BY <1>1, SlabIsSlab
<1>2. ASSUME NEW c \in Conts, Slab!Insert(c)
      PROVE  SlabP!SlabNext
  BY <1>2, SlabIsSlab DEF SlabP!SlabNext
<1>3. ASSUME NEW i, Slab!Remove(i)
      PROVE  [SlabP!SlabNext]_SlabP!slabVars
  <2>1. SlabP!Remove(i)
    BY <1>3, SlabIsSlab
  <2> QED BY <2>1, SlabP!RemoveIsStep, NoneAssumption, HibernationAssumption
<1>4. CASE Crash
  BY <1>4 DEF Crash, SlabP!SlabInit
<1>5. CASE Dispatch
  <2>1. [agent_id |-> next_id, who |-> born + 1] \in Conts
    BY <1>5, HibernationAssumption
    DEF Dispatch, HibernationInv, DriverTypes, Conts, Ids, Agents
  <2> QED BY <1>2, <1>5, <2>1 DEF Dispatch
<1>6. CASE Reinsert \/ Restore
  BY <1>2, <1>6, NoneAssumption DEF Reinsert, Restore, HibernationInv, DriverTypes
<1>7. CASE \E i \in Slab!Occupied : Take(i) \/ Resume(i)
  BY <1>3, <1>7 DEF Take, Resume
<1> QED BY <1>1, <1>4, <1>5, <1>6, <1>7
        DEF Next, Write, Flush, BackgroundFlush, Started, Idle, Wake, vars, slabVars

(* What each server does to its slab is a behaviour of the slab; in        *)
(* particular inserting the restored records replaces none that is stored. *)
THEOREM ServersRunSlab ==
  Spec => /\ SlabP!SlabInit
          /\ [][SlabP!SlabNext \/ SlabP!SlabInit']_SlabP!slabVars
<1>1. Init => SlabP!SlabInit
  BY DEF Init, Slab!SlabInit, SlabP!SlabInit
<1>2. SlabP!SlabInit => SlabP!HighWater
  BY SlabP!InitHighWater, NoneAssumption, HibernationAssumption
<1>3. HibernationInv /\ SlabP!HighWater /\ [Next]_vars
        => [SlabP!SlabNext \/ SlabP!SlabInit']_SlabP!slabVars
  BY StepCallsSlab
<1>4. SlabP!HighWater /\ [SlabP!SlabNext]_SlabP!slabVars => SlabP!HighWater'
  BY SlabP!NextHighWater, NoneAssumption, HibernationAssumption
<1>5. SlabP!SlabInit' => SlabP!HighWater'
  BY <1>2, PTL
<1>6. HibernationInv /\ SlabP!HighWater /\ [Next]_vars => SlabP!HighWater'
  BY <1>3, <1>4, <1>5
<1> QED BY <1>1, <1>2, <1>3, <1>6, HibernationInvariant, PTL DEF Spec
=============================================================================
