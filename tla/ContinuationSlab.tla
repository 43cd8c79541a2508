-------------------------- MODULE ContinuationSlab --------------------------
(***************************************************************************)
(* ContinuationSlab (workex-vm/src/slab.rs): the slot store in which the   *)
(* agent scheduler keeps the continuations of suspended agents.            *)
(*                                                                         *)
(* `slots` is the Vec<Option<Continuation>>, `free_list` the stack of      *)
(* vacated indices (its last element is the top) and `count` the number    *)
(* of continuations stored.  Slot indices are 0-based, as in the code, so  *)
(* that index i is element i+1 of the sequence.                            *)
(*                                                                         *)
(* The actions Insert and Remove are whole calls: each runs under          *)
(* &mut self, which the scheduler obtains from a Mutex.  They are also     *)
(* used, through INSTANCE, by the modules of the scheduler and of the      *)
(* hibernation driver.                                                     *)
(***************************************************************************)
EXTENDS Integers, Sequences, FiniteSets

CONSTANTS
  Continuations,  (* the continuations that may be stored                  *)
  None,           (* the empty Option                                      *)
  MaxStored       (* bound of the models: live entries at once (the code's *)
                  (* only bound is memory)                                 *)

ASSUME SlabAssumption ==
  /\ None \notin Continuations
  /\ MaxStored \in Nat

VARIABLES slots, free_list, count

slabVars == <<slots, free_list, count>>

-----------------------------------------------------------------------------
(* The indices of the vector, and those that hold a continuation.          *)
Indices == 0 .. Len(slots) - 1

Occupied == {i \in Indices : slots[i + 1] # None}

Freed == {free_list[k] : k \in 1 .. Len(free_list)}

(* get: what index i holds; None beyond the end of the vector.             *)
Get(i) == IF i \in Indices THEN slots[i + 1] ELSE None

(* The index the next insert returns: the top of free_list, and the end of *)
(* the vector when no slot was freed.                                      *)
InsertIndex ==
  IF free_list = <<>> THEN Len(slots) ELSE free_list[Len(free_list)]

-----------------------------------------------------------------------------
SlabInit ==
  /\ slots = <<>>
  /\ free_list = <<>>
  /\ count = 0

Pop(stack) == SubSeq(stack, 1, Len(stack) - 1)

(* Mutant: the index that is reused stays on the free list.                *)
InsertFreedKept(c) ==
  /\ free_list # <<>>
  /\ slots' = [slots EXCEPT ![InsertIndex + 1] = c]
  /\ UNCHANGED free_list

InsertFreed(c) ==
  /\ free_list # <<>>
  /\ slots' = [slots EXCEPT ![InsertIndex + 1] = c]
  /\ free_list' = Pop(free_list)

(* Mutant: the vector is pushed to also when a slot is free.               *)
InsertAlwaysPush(c) ==
  /\ slots' = Append(slots, c)
  /\ UNCHANGED free_list

InsertPush(c) ==
  /\ free_list = <<>>
  /\ slots' = Append(slots, c)
  /\ UNCHANGED free_list

(* insert(c): stores c at InsertIndex.                                     *)
Insert(c) ==
  /\ count < MaxStored
  /\ count' = count + 1
  /\ InsertFreed(c) \/ InsertPush(c)

(* Mutants: the slot is read but not taken; the bounds of the vector are   *)
(* checked but not whether the slot is empty.                              *)
RemoveReads(i) ==
  /\ Get(i) # None
  /\ free_list' = Append(free_list, i)
  /\ count' = count - 1
  /\ UNCHANGED slots

RemoveUnchecked(i) ==
  /\ i \in Indices
  /\ Len(free_list) < MaxStored + 1
  /\ slots' = [slots EXCEPT ![i + 1] = None]
  /\ free_list' = Append(free_list, i)
  /\ count' = IF Get(i) = None THEN count ELSE count - 1

(* remove(i), finding a continuation: the caller gets Get(i).              *)
RemoveStored(i) ==
  /\ Get(i) # None
  /\ slots' = [slots EXCEPT ![i + 1] = None]
  /\ free_list' = Append(free_list, i)
  /\ count' = count - 1

(* remove(i) out of bounds or of an empty slot: the caller gets None.      *)
RemoveNothing(i) ==
  /\ Get(i) = None
  /\ UNCHANGED slabVars

Remove(i) == RemoveStored(i) \/ RemoveNothing(i)

-----------------------------------------------------------------------------
(* The slab alone, with a caller that may pass any index to remove, also   *)
(* one that was never returned or was removed before.                      *)
SlabNext ==
  \/ \E c \in Continuations : Insert(c)
  \/ \E i \in 0 .. MaxStored : Remove(i)

SlabSpec == SlabInit /\ [][SlabNext]_slabVars

-----------------------------------------------------------------------------
(* Types of the three fields.                                              *)
SlabTypeOK ==
  /\ slots \in Seq(Continuations \cup {None})
  /\ free_list \in Seq(Nat)
  /\ count \in Nat

(* free_list names each empty slot exactly once and no other index: an     *)
(* insert that pops it never meets an occupied slot or one out of bounds,  *)
(* and no vacated slot is leaked (insert, remove).                         *)
FreeListExact ==
  /\ Freed = Indices \ Occupied
  /\ \A j, k \in 1 .. Len(free_list) :
       free_list[j] = free_list[k] => j = k

(* count, kept by insert and remove independently of the vector, is the    *)
(* number of occupied slots, so that len() and the average of              *)
(* avg_continuation_bytes are about what is stored, and the decrement of   *)
(* remove never wraps.                                                     *)
CountExact == count = Cardinality(Occupied)

(* The vector grows only when every slot is occupied: insert fills freed   *)
(* slots first, so its length is the high-water mark of the live count.    *)
GrowsOnlyWhenFull ==
  [][Len(slots') # Len(slots) => Occupied = Indices]_slabVars

(* One call changes at most one slot, and it changes it between empty and  *)
(* stored: no call ever replaces a stored continuation by another one.     *)
NoOverwrite ==
  [][\A i \in Occupied : slots'[i + 1] \in {slots[i + 1], None}]_slabVars

-----------------------------------------------------------------------------
(* What the slab promises to its callers, see SlabMap: a map from handles  *)
(* to continuations in which insert chooses a handle that is not in use.   *)
Abstract == INSTANCE SlabMap WITH store <- [i \in Occupied |-> slots[i + 1]]

SlabImplementsMap == Abstract!MapSpec
=============================================================================
