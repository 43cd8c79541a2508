----------------------- MODULE ContinuationSlabProofs -----------------------
(***************************************************************************)
(* Proofs about ContinuationSlab, for every set of continuations and every *)
(* bound: the slab invariant, the action property NoOverwrite and the      *)
(* refinement of SlabMap.                                                  *)
(***************************************************************************)
EXTENDS ContinuationSlab, FiniteSetTheorems, SequenceTheorems, TLAPS

(* The inductive invariant: types, the exactness of the free list and of   *)
(* the counter, and the relation that ties the three fields together.      *)
SlabInv ==
  /\ SlabTypeOK
  /\ FreeListExact
  /\ CountExact

-----------------------------------------------------------------------------
(* What the lookup of a slot gives, in terms of the sequence.              *)
LEMMA GetFacts ==
  ASSUME SlabTypeOK, NEW i
  PROVE  /\ Get(i) # None <=> i \in Occupied
         /\ i \in Occupied => Get(i) = slots[i + 1] /\ Get(i) \in Continuations
  BY DEF SlabTypeOK, Get, Occupied, Indices

(* The occupied slots are finitely many.                                   *)
LEMMA OccupiedFinite ==
  ASSUME SlabTypeOK
  PROVE  IsFiniteSet(Occupied)
<1>1. IsFiniteSet(Indices)
  <2>1. 0 \in Int /\ Len(slots) - 1 \in Int
    BY DEF SlabTypeOK
  <2> QED BY <2>1, FS_Interval DEF Indices
<1>2. Occupied \subseteq Indices
  BY DEF Occupied
<1> QED BY <1>1, <1>2, FS_Subset

(* The index an insert uses is unused: a vacated slot or the next one past *)
(* the end.                                                                *)
LEMMA InsertIndexUnused ==
  ASSUME SlabTypeOK, FreeListExact
  PROVE  /\ InsertIndex \in Nat
         /\ InsertIndex \notin Occupied
         /\ free_list # <<>> => InsertIndex \in Indices
         /\ free_list = <<>> => Indices = Occupied
<1>1. CASE free_list = <<>>
  <2>1. Freed = {}
    BY <1>1 DEF Freed
  <2>2. Occupied \subseteq Indices
    BY DEF Occupied
  <2> QED BY <1>1, <2>1, <2>2 DEF FreeListExact, InsertIndex, Occupied, Indices, SlabTypeOK
<1>2. CASE free_list # <<>>
  <2>1. Len(free_list) \in 1 .. Len(free_list)
    BY <1>2 DEF SlabTypeOK
  <2>2. InsertIndex \in Freed /\ InsertIndex \in Nat
    BY <1>2, <2>1 DEF InsertIndex, Freed, SlabTypeOK
  <2> QED BY <1>2, <2>2 DEF FreeListExact
<1> QED BY <1>1, <1>2

(* pop drops the last element and keeps the others.                        *)
LEMMA PopFacts ==
  ASSUME NEW S, NEW stack \in Seq(S), stack # <<>>
  PROVE  /\ Pop(stack) \in Seq(S)
         /\ Len(Pop(stack)) = Len(stack) - 1
         /\ \A j \in 1 .. Len(stack) - 1 : Pop(stack)[j] = stack[j]
<1> DEFINE n == Len(stack) - 1
<1>1. n \in Nat /\ \A j \in 1 .. n : stack[j] \in S
  BY EmptySeq, LenProperties
<1>2. 1 \in Int /\ n \in Int
  BY <1>1
<1> HIDE DEF n
<1>3. /\ SubSeq(stack, 1, n) \in Seq(S)
      /\ Len(SubSeq(stack, 1, n)) = IF 1 <= n THEN n - 1 + 1 ELSE 0
      /\ \A j \in 1 .. n - 1 + 1 : SubSeq(stack, 1, n)[j] = stack[1 + j - 1]
  BY <1>1, <1>2, SubSeqProperties
<1>4. Len(SubSeq(stack, 1, n)) = n
  BY <1>1, <1>3
<1>5. \A j \in 1 .. n : SubSeq(stack, 1, n)[j] = stack[j]
  BY <1>1, <1>3
<1> QED BY <1>3, <1>4, <1>5 DEF Pop, n

-----------------------------------------------------------------------------
(* The effect of one insert on the abstract contents: exactly one slot     *)
(* becomes occupied, by c, and every other one keeps what it holds.        *)
LEMMA InsertEffect ==
  ASSUME SlabTypeOK, FreeListExact, NEW c \in Continuations, Insert(c)
  PROVE  /\ SlabTypeOK'
         /\ Occupied' = Occupied \cup {InsertIndex}
         /\ slots'[InsertIndex + 1] = c
         /\ \A i \in Occupied : slots'[i + 1] = slots[i + 1]
         /\ Freed' = Freed \ {InsertIndex}
         /\ Indices' = Indices \cup {InsertIndex}
<1> USE SlabAssumption
<1>1. CASE InsertFreed(c)
  <2>1. InsertIndex \in Indices /\ InsertIndex \notin Occupied
        /\ InsertIndex = free_list[Len(free_list)]
    BY <1>1, InsertIndexUnused DEF InsertFreed, InsertIndex
  <2>2. /\ slots' \in Seq(Continuations \cup {None})
        /\ Len(slots') = Len(slots)
        /\ \A j \in 1 .. Len(slots) :
             slots'[j] = IF j = InsertIndex + 1 THEN c ELSE slots[j]
    <3> DEFINE k == InsertIndex + 1
               S == Continuations \cup {None}
    <3>1. k \in 1 .. Len(slots) /\ slots \in Seq(S) /\ c \in S
      BY <2>1 DEF Indices, SlabTypeOK
    <3>2. slots' = [slots EXCEPT ![k] = c]
      BY <1>1 DEF InsertFreed
    <3> HIDE DEF k, S
    <3>3. /\ slots' \in Seq(S)
          /\ Len(slots') = Len(slots)
          /\ \A j \in 1 .. Len(slots) :
               slots'[j] = IF j = k THEN c ELSE slots[j]
      BY <3>1, <3>2, ExceptSeq
    <3> QED BY <3>3 DEF k, S
  <2>3. /\ free_list' \in Seq(Nat)
        /\ Len(free_list') = Len(free_list) - 1
        /\ \A j \in 1 .. Len(free_list) - 1 : free_list'[j] = free_list[j]
    BY <1>1, PopFacts DEF InsertFreed, SlabTypeOK
  <2>4. count' \in Nat
    BY DEF Insert, SlabTypeOK
  <2>5. Indices' = Indices /\ Indices' = Indices \cup {InsertIndex}
    BY <2>1, <2>2 DEF Indices
  <2>6. Occupied' = Occupied \cup {InsertIndex}
    <3>1. \A i \in Indices : i + 1 \in 1 .. Len(slots)
      BY DEF Indices, SlabTypeOK
    <3>2. \A i \in Indices :
            slots'[i + 1] # None <=> i = InsertIndex \/ slots[i + 1] # None
      <4> SUFFICES ASSUME NEW i \in Indices
                   PROVE  slots'[i + 1] # None <=> i = InsertIndex \/ slots[i + 1] # None
        OBVIOUS
      <4>1. slots'[i + 1] = IF i + 1 = InsertIndex + 1 THEN c ELSE slots[i + 1]
        BY <2>2, <3>1
      <4>2. i + 1 = InsertIndex + 1 <=> i = InsertIndex
        BY <2>1 DEF Indices, SlabTypeOK
      <4>3. c # None
        OBVIOUS
      <4> QED BY <4>1, <4>2, <4>3
    <3> QED BY <2>1, <2>5, <3>2 DEF Occupied
  <2>7. Freed' = Freed \ {InsertIndex}
    <3> DEFINE n == Len(free_list)
    <3>1. n \in Nat \ {0} /\ free_list[n] = InsertIndex
      BY <1>1, <2>1, EmptySeq DEF InsertFreed, SlabTypeOK
    <3>2. \A j \in 1 .. n - 1 : free_list[j] # InsertIndex
      <4>1. \A j \in 1 .. n - 1 : j \in 1 .. n /\ n \in 1 .. n /\ j # n
        BY <3>1
      <4> QED BY <3>1, <4>1 DEF FreeListExact
    <3>3. Freed' = {free_list[k] : k \in 1 .. n - 1}
      BY <2>3 DEF Freed
    <3>4. 1 .. n = (1 .. n - 1) \cup {n}
      BY <3>1
    <3> QED BY <3>1, <3>2, <3>3, <3>4 DEF Freed
  <2>8. \A i \in Occupied : slots'[i + 1] = slots[i + 1]
    BY <2>1, <2>2 DEF Occupied, Indices, SlabTypeOK
  <2>9. slots'[InsertIndex + 1] = c
    BY <2>1, <2>2 DEF Indices, SlabTypeOK
  <2> QED BY <2>2, <2>3, <2>4, <2>5, <2>6, <2>7, <2>8, <2>9 DEF SlabTypeOK
<1>2. CASE InsertPush(c)
  <2>1. free_list = <<>> /\ InsertIndex = Len(slots) /\ free_list' = free_list
        /\ slots' = Append(slots, c)
    BY <1>2 DEF InsertPush, InsertIndex
  <2>2. /\ slots' \in Seq(Continuations \cup {None})
        /\ Len(slots') = Len(slots) + 1
        /\ \A j \in 1 .. Len(slots) : slots'[j] = slots[j]
        /\ slots'[Len(slots) + 1] = c
    BY <2>1, AppendProperties DEF SlabTypeOK
  <2>3. count' \in Nat
    BY DEF Insert, SlabTypeOK
  <2>4. Indices' = Indices \cup {InsertIndex}
    BY <2>1, <2>2 DEF Indices, SlabTypeOK
  <2>5. Occupied' = Occupied \cup {InsertIndex}
    BY <2>1, <2>2, <2>4 DEF Occupied, Indices, SlabTypeOK
  <2>6. Freed' = Freed \ {InsertIndex}
    BY <2>1 DEF Freed
  <2>7. \A i \in Occupied : slots'[i + 1] = slots[i + 1]
    BY <2>2 DEF Occupied, Indices, SlabTypeOK
  <2>8. slots'[InsertIndex + 1] = c
    BY <2>1, <2>2
  <2> QED BY <2>1, <2>2, <2>3, <2>4, <2>5, <2>6, <2>7, <2>8 DEF SlabTypeOK
<1> QED BY <1>1, <1>2 DEF Insert

-----------------------------------------------------------------------------
(* The effect of one remove that finds a continuation: exactly one slot is *)
(* vacated, and its index is pushed on the free list.                      *)
LEMMA RemoveEffect ==
  ASSUME SlabTypeOK, NEW i, RemoveStored(i)
  PROVE  /\ SlabTypeOK' \/ count = 0
         /\ i \in Occupied
         /\ Indices' = Indices
         /\ Occupied' = Occupied \ {i}
         /\ \A j \in Occupied \ {i} : slots'[j + 1] = slots[j + 1]
         /\ slots'[i + 1] = None
         /\ free_list' = Append(free_list, i)
         /\ Freed' = Freed \cup {i}
<1>1. i \in Occupied /\ i \in Indices /\ i \in Nat
  BY GetFacts DEF RemoveStored, Occupied, Indices, SlabTypeOK
<1>2. /\ slots' \in Seq(Continuations \cup {None})
      /\ Len(slots') = Len(slots)
      /\ \A j \in 1 .. Len(slots) :
           slots'[j] = IF j = i + 1 THEN None ELSE slots[j]
  <2> DEFINE k == i + 1
             S == Continuations \cup {None}
  <2>1. k \in 1 .. Len(slots) /\ slots \in Seq(S) /\ None \in S
    BY <1>1 DEF Indices, SlabTypeOK
  <2>2. slots' = [slots EXCEPT ![k] = None]
    BY DEF RemoveStored
  <2> HIDE DEF k, S
  <2>3. /\ slots' \in Seq(S)
        /\ Len(slots') = Len(slots)
        /\ \A j \in 1 .. Len(slots) :
             slots'[j] = IF j = k THEN None ELSE slots[j]
    BY <2>1, <2>2, ExceptSeq
  <2> QED BY <2>3 DEF k, S
<1>3. Indices' = Indices
  BY <1>2 DEF Indices
<1>4. \A j \in Indices : slots'[j + 1] = IF j = i THEN None ELSE slots[j + 1]
  <2>1. \A j \in Indices : j + 1 \in 1 .. Len(slots) /\ (j + 1 = i + 1 <=> j = i)
    BY <1>1 DEF Indices, SlabTypeOK
  <2> QED BY <1>2, <2>1
<1>5. Occupied' = Occupied \ {i}
  BY <1>3, <1>4 DEF Occupied
<1>6. free_list' = Append(free_list, i) /\ count' = count - 1
  BY DEF RemoveStored
<1>7. /\ free_list' \in Seq(Nat)
      /\ Len(free_list') = Len(free_list) + 1
      /\ \A j \in 1 .. Len(free_list) : free_list'[j] = free_list[j]
      /\ free_list'[Len(free_list) + 1] = i
  BY <1>1, <1>6, AppendProperties DEF SlabTypeOK
<1>8. Freed' = Freed \cup {i}
  <2>1. 1 .. Len(free_list) + 1 = (1 .. Len(free_list)) \cup {Len(free_list) + 1}
    BY DEF SlabTypeOK
  <2> QED BY <1>7, <2>1 DEF Freed
<1>9. SlabTypeOK' \/ count = 0
  BY <1>2, <1>6, <1>7 DEF SlabTypeOK
<1> QED BY <1>1, <1>3, <1>4, <1>5, <1>6, <1>8, <1>9 DEF Occupied

-----------------------------------------------------------------------------
(* insert keeps the slab invariant.                                        *)
LEMMA InsertPreserves ==
  ASSUME SlabInv, NEW c \in Continuations, Insert(c)
  PROVE  SlabInv'
<1> USE DEF SlabInv
<1>1. SlabTypeOK'
  BY InsertEffect
<1>2. FreeListExact'
  <2>1. Freed' = Indices' \ Occupied'
    BY InsertEffect DEF FreeListExact
  <2>2. \A j, k \in 1 .. Len(free_list') : free_list'[j] = free_list'[k] => j = k
    <3>1. CASE InsertFreed(c)
      <4>1. /\ Len(free_list') = Len(free_list) - 1
            /\ \A j \in 1 .. Len(free_list) - 1 : free_list'[j] = free_list[j]
        BY <3>1, PopFacts DEF InsertFreed, SlabTypeOK
      <4>2. 1 .. Len(free_list') \subseteq 1 .. Len(free_list)
        BY <4>1 DEF SlabTypeOK
      <4> QED BY <4>1, <4>2 DEF FreeListExact
    <3>2. CASE InsertPush(c)
      BY <3>2 DEF InsertPush, FreeListExact
    <3> QED BY <3>1, <3>2 DEF Insert
  <2> QED BY <2>1, <2>2 DEF FreeListExact
<1>3. CountExact'
  <2>1. Occupied' = Occupied \cup {InsertIndex} /\ InsertIndex \notin Occupied
    BY InsertEffect, InsertIndexUnused
  <2>2. Cardinality(Occupied') = Cardinality(Occupied) + 1
    BY <2>1, OccupiedFinite, FS_AddElement
  <2> QED BY <2>2 DEF CountExact, Insert
<1> QED BY <1>1, <1>2, <1>3

(* remove keeps the slab invariant, for any index it is given.             *)
LEMMA RemovePreserves ==
  ASSUME SlabInv, NEW i, Remove(i)
  PROVE  SlabInv'
<1> USE DEF SlabInv
<1>1. CASE RemoveNothing(i)
  BY <1>1 DEF RemoveNothing, slabVars, SlabTypeOK, FreeListExact, CountExact,
     Freed, Occupied, Indices
<1>2. CASE RemoveStored(i)
  <2>1. i \in Occupied
    BY <1>2, RemoveEffect
  <2>2. /\ Cardinality(Occupied \ {i}) = Cardinality(Occupied) - 1
        /\ Cardinality(Occupied) # 0
    BY <2>1, OccupiedFinite, FS_RemoveElement, FS_EmptySet
  <2>3. SlabTypeOK'
    BY <1>2, <2>2, RemoveEffect DEF CountExact
  <2>4. CountExact'
    BY <1>2, <2>2, RemoveEffect DEF CountExact, RemoveStored
  <2>5. FreeListExact'
    <3>1. Freed' = Indices' \ Occupied'
      BY <1>2, <2>1, RemoveEffect DEF FreeListExact, Occupied
    <3>2. i \notin Freed /\ i \in Nat
      BY <2>1 DEF FreeListExact, Occupied, Indices, SlabTypeOK
    <3>3. /\ Len(free_list') = Len(free_list) + 1
          /\ \A j \in 1 .. Len(free_list) : free_list'[j] = free_list[j]
          /\ free_list'[Len(free_list) + 1] = i
      BY <1>2, <3>2, AppendProperties DEF RemoveStored, SlabTypeOK
    <3>4. \A j \in 1 .. Len(free_list) : free_list[j] # i
      BY <3>2 DEF Freed
    <3>5. \A j \in 1 .. Len(free_list') :
             j \in 1 .. Len(free_list) \/ j = Len(free_list) + 1
      BY <3>3 DEF SlabTypeOK
    <3>6. \A j, k \in 1 .. Len(free_list') :
            free_list'[j] = free_list'[k] => j = k
      BY <3>3, <3>4, <3>5 DEF FreeListExact
    <3> QED BY <3>1, <3>6 DEF FreeListExact
  <2> QED BY <2>3, <2>4, <2>5
<1> QED BY <1>1, <1>2 DEF Remove

(* The empty slab satisfies the invariant.                                 *)
LEMMA InitSlabInv == SlabInit => SlabInv
<1> SUFFICES ASSUME SlabInit PROVE SlabInv
  OBVIOUS
<1>1. Indices = {} /\ Occupied = {} /\ Freed = {}
  BY DEF SlabInit, Indices, Occupied, Freed
<1> QED BY <1>1, FS_EmptySet
        DEF SlabInit, SlabInv, SlabTypeOK, FreeListExact, CountExact

(* Every call, and every step that is not one, keeps the invariant.        *)
LEMMA NextSlabInv == SlabInv /\ [SlabNext]_slabVars => SlabInv'
<1> SUFFICES ASSUME SlabInv, [SlabNext]_slabVars PROVE SlabInv'
  OBVIOUS
<1>1. ASSUME NEW c \in Continuations, Insert(c) PROVE SlabInv'
  BY <1>1, InsertPreserves
<1>2. ASSUME NEW i \in 0 .. MaxStored, Remove(i) PROVE SlabInv'
  BY <1>2, RemovePreserves
<1>3. CASE UNCHANGED slabVars
  BY <1>3 DEF slabVars, SlabInv, SlabTypeOK, FreeListExact, CountExact,
     Freed, Occupied, Indices
<1> QED BY <1>1, <1>2, <1>3 DEF SlabNext

-----------------------------------------------------------------------------
(* The calls as a component that owns a slab sees them, through get: the   *)
(* invariant is kept, and get changes at the one index and nowhere else.   *)
LEMMA GetFromSlots ==
  /\ \A i : Get(i) = IF i \in Occupied THEN slots[i + 1] ELSE None
  /\ \A i : Get(i)' = IF i \in Occupied' THEN slots'[i + 1] ELSE None
  BY DEF Get, Occupied, Indices

(* What was inserted is found under its handle.                            *)
LEMMA GetAfterInsert ==
  ASSUME SlabInv, NEW c \in Continuations, Insert(c)
  PROVE  /\ SlabInv'
         /\ InsertIndex \in Nat
         /\ Get(InsertIndex) = None
         /\ \A i : Get(i)' = IF i = InsertIndex THEN c ELSE Get(i)
<1>1. /\ Occupied' = Occupied \cup {InsertIndex}
      /\ slots'[InsertIndex + 1] = c
      /\ \A i \in Occupied : slots'[i + 1] = slots[i + 1]
      /\ InsertIndex \in Nat
      /\ InsertIndex \notin Occupied
  BY InsertEffect, InsertIndexUnused DEF SlabInv
<1>2. SlabInv'
  BY InsertPreserves
<1> QED BY <1>1, <1>2, GetFromSlots

(* What was removed is found no more.                                      *)
LEMMA GetAfterRemove ==
  ASSUME SlabInv, NEW h, Remove(h)
  PROVE  /\ SlabInv'
         /\ \A i : Get(i)' = IF i = h THEN None ELSE Get(i)
<1>1. SlabInv'
  BY RemovePreserves
<1>2. CASE RemoveStored(h)
  <2>1. /\ Occupied' = Occupied \ {h}
        /\ \A j \in Occupied \ {h} : slots'[j + 1] = slots[j + 1]
    BY <1>2, RemoveEffect DEF SlabInv
  <2> QED BY <1>1, <2>1, GetFromSlots
<1>3. CASE RemoveNothing(h)
  <2>1. Get(h) = None /\ slots' = slots
    BY <1>3 DEF RemoveNothing, slabVars
  <2>2. \A i : Get(i)' = Get(i)
    BY <2>1 DEF Get, Indices
  <2> QED BY <1>1, <2>1, <2>2
<1> QED BY <1>2, <1>3 DEF Remove

(* A step that leaves the slab leaves what every handle finds.             *)
LEMMA GetKept ==
  ASSUME SlabInv, UNCHANGED slabVars
  PROVE  SlabInv' /\ \A i : Get(i)' = Get(i)
<1>1. SlabInv'
  BY NextSlabInv
<1>2. \A i : Get(i)' = Get(i)
  BY DEF slabVars, Get, Indices
<1> QED BY <1>1, <1>2

(* What get can give, and where.                                           *)
LEMMA GetRange ==
  ASSUME SlabInv
  PROVE  \A i : /\ Get(i) \in Continuations \cup {None}
                /\ i \in Occupied <=> Get(i) # None
                /\ Get(i) # None => i \in Nat /\ Get(i) = slots[i + 1]
<1> SUFFICES ASSUME NEW i
             PROVE  /\ Get(i) \in Continuations \cup {None}
                    /\ i \in Occupied <=> Get(i) # None
                    /\ Get(i) # None => i \in Nat /\ Get(i) = slots[i + 1]
  OBVIOUS
<1>1. SlabTypeOK
  BY DEF SlabInv
<1>2. i \in Occupied => i \in Nat
  BY <1>1 DEF SlabTypeOK, Occupied, Indices
<1> QED BY <1>1, <1>2, GetFacts

-----------------------------------------------------------------------------
(* The slab invariant holds in every state of the slab, for every set of   *)
(* continuations and however many are stored: types, exact free list       *)
(* without duplicates, exact count (insert and remove of slab.rs).         *)
THEOREM SlabSafe == SlabSpec => []SlabInv
<1>1. SlabInit => SlabInv
  BY InitSlabInv
<1>2. SlabInv /\ [SlabNext]_slabVars => SlabInv'
  BY NextSlabInv
<1> QED BY <1>1, <1>2, PTL DEF SlabSpec

(* The fields always have their types (slab.rs, struct ContinuationSlab).  *)
THEOREM SlabTypes == SlabSpec => []SlabTypeOK
<1>1. SlabInv => SlabTypeOK
  BY DEF SlabInv
<1> QED BY <1>1, SlabSafe, PTL

(* The free list is always exactly the empty slots, each once: no insert   *)
(* overwrites a continuation and no vacated slot leaks.                    *)
THEOREM FreeListAlwaysExact == SlabSpec => []FreeListExact
<1>1. SlabInv => FreeListExact
  BY DEF SlabInv
<1> QED BY <1>1, SlabSafe, PTL

(* len() is always the number of stored continuations.                     *)
THEOREM CountAlwaysExact == SlabSpec => []CountExact
<1>1. SlabInv => CountExact
  BY DEF SlabInv
<1> QED BY <1>1, SlabSafe, PTL

-----------------------------------------------------------------------------
(* No call replaces a stored continuation by another one: the slot of a    *)
(* suspended agent changes only by the remove that hands it out.           *)
THEOREM NeverOverwrites == SlabSpec => NoOverwrite
<1> DEFINE Kept == \A i \in Occupied : slots'[i + 1] \in {slots[i + 1], None}
<1>1. SlabInv /\ [SlabNext]_slabVars => [Kept]_slabVars
  <2> SUFFICES ASSUME SlabInv, SlabNext PROVE Kept
    BY DEF slabVars
  <2>1. ASSUME NEW c \in Continuations, Insert(c) PROVE Kept
    BY <2>1, InsertEffect DEF SlabInv
  <2>2. ASSUME NEW i \in 0 .. MaxStored, Remove(i) PROVE Kept
    <3>1. CASE RemoveStored(i)
      BY <3>1, RemoveEffect DEF SlabInv
    <3>2. CASE RemoveNothing(i)
      BY <3>2 DEF RemoveNothing, slabVars
    <3> QED BY <2>2, <3>1, <3>2 DEF Remove
  <2> QED BY <2>1, <2>2 DEF SlabNext
<1> QED BY <1>1, SlabSafe, PTL DEF SlabSpec, NoOverwrite

(* The vector grows only when every slot is occupied.                      *)
THEOREM GrowsOnlyFull == SlabSpec => GrowsOnlyWhenFull
<1> DEFINE Grows == Len(slots') # Len(slots) => Occupied = Indices
<1>1. SlabInv /\ [SlabNext]_slabVars => [Grows]_slabVars
  <2> SUFFICES ASSUME SlabInv, SlabNext PROVE Grows
    BY DEF slabVars
  <2>1. ASSUME NEW c \in Continuations, Insert(c) PROVE Grows
    <3>1. CASE InsertFreed(c)
      <4>1. slots' = [slots EXCEPT ![InsertIndex + 1] = c]
        BY <3>1 DEF InsertFreed
      <4>2. Len(slots') = Len(slots)
        <5>1. InsertIndex + 1 \in 1 .. Len(slots)
          BY <3>1, InsertIndexUnused DEF InsertFreed, Indices, SlabInv, SlabTypeOK
        <5> DEFINE k == InsertIndex + 1
        <5> HIDE DEF k
        <5>2. slots' = [slots EXCEPT ![k] = c] /\ k \in 1 .. Len(slots)
          BY <4>1, <5>1 DEF k
        <5> QED BY <5>2, ExceptSeq DEF SlabInv, SlabTypeOK
      <4> QED BY <4>2
    <3>2. CASE InsertPush(c)
      BY <3>2, InsertIndexUnused DEF InsertPush, SlabInv
    <3> QED BY <2>1, <3>1, <3>2 DEF Insert
  <2>2. ASSUME NEW i \in 0 .. MaxStored, Remove(i) PROVE Grows
    <3>1. CASE RemoveStored(i)
      <4>1. Len(slots') = Len(slots)
        BY <3>1, ExceptSeq DEF RemoveStored, SlabInv, SlabTypeOK
      <4> QED BY <4>1
    <3>2. CASE RemoveNothing(i)
      BY <3>2 DEF RemoveNothing, slabVars
    <3> QED BY <2>2, <3>1, <3>2 DEF Remove
  <2> QED BY <2>1, <2>2 DEF SlabNext
<1> QED BY <1>1, SlabSafe, PTL DEF SlabSpec, GrowsOnlyWhenFull

-----------------------------------------------------------------------------
(* The vector is never longer than the largest number of continuations     *)
(* stored at once.                                                         *)
HighWater == SlabInv /\ Len(slots) \in 0 .. MaxStored

(* insert stays below the bound, whether it fills a slot or pushes one.    *)
LEMMA InsertInRange ==
  ASSUME HighWater, NEW c \in Continuations, Insert(c)
  PROVE  InsertIndex \in 0 .. MaxStored - 1
<1> USE SlabAssumption
<1>1. SlabTypeOK /\ FreeListExact /\ Cardinality(Occupied) < MaxStored
  BY DEF HighWater, SlabInv, CountExact, Insert
<1>2. CASE free_list = <<>>
  <2>1. Indices = Occupied
    BY <1>1, <1>2, InsertIndexUnused
  <2>2. Cardinality(Indices) = Len(slots)
    <3>1. 0 \in Int /\ Len(slots) - 1 \in Int
      BY <1>1 DEF SlabTypeOK
    <3>2. Cardinality(0 .. Len(slots) - 1) =
            IF 0 > Len(slots) - 1 THEN 0 ELSE Len(slots) - 1 - 0 + 1
      BY <3>1, FS_Interval
    <3> QED BY <1>1, <3>2 DEF Indices, SlabTypeOK
  <2> QED BY <1>1, <1>2, <2>1, <2>2 DEF InsertIndex, SlabTypeOK
<1>3. CASE free_list # <<>>
  <2>1. InsertIndex \in Indices
    BY <1>1, <1>3, InsertIndexUnused
  <2> QED BY <1>1, <2>1 DEF Indices, HighWater, SlabTypeOK
<1> QED BY <1>2, <1>3

(* HighWater is inductive: a push finds every slot occupied.               *)
LEMMA NextHighWater == HighWater /\ [SlabNext]_slabVars => HighWater'
<1> USE SlabAssumption
<1> SUFFICES ASSUME HighWater, [SlabNext]_slabVars PROVE HighWater'
  OBVIOUS
<1>1. SlabInv'
  BY NextSlabInv DEF HighWater
<1>2. SlabTypeOK /\ SlabTypeOK' /\ FreeListExact /\ CountExact
  BY <1>1 DEF HighWater, SlabInv
<1>3. ASSUME NEW c \in Continuations, Insert(c)
      PROVE  Len(slots') \in 0 .. MaxStored
  <2>1. CASE InsertFreed(c)
    <3>1. Indices' = Indices
      BY <1>2, <1>3, <2>1, InsertEffect, InsertIndexUnused DEF InsertFreed
    <3> QED BY <1>2, <3>1 DEF Indices, HighWater, SlabTypeOK
  <2>2. CASE InsertPush(c)
    <3>1. Len(slots) \in 0 .. MaxStored - 1
      BY <1>3, <2>2, InsertInRange DEF InsertPush, InsertIndex
    <3>2. Len(slots') = Len(slots) + 1
      BY <1>2, <2>2, AppendProperties DEF InsertPush, SlabTypeOK
    <3> QED BY <1>2, <3>1, <3>2 DEF SlabTypeOK
  <2> QED BY <1>3, <2>1, <2>2 DEF Insert
<1>4. ASSUME NEW i \in 0 .. MaxStored, Remove(i)
      PROVE  Len(slots') \in 0 .. MaxStored
  <2>1. CASE RemoveStored(i)
    <3>1. Indices' = Indices
      BY <1>2, <2>1, RemoveEffect
    <3> QED BY <1>2, <3>1 DEF Indices, HighWater, SlabTypeOK
  <2>2. CASE RemoveNothing(i)
    BY <2>2 DEF RemoveNothing, slabVars, HighWater
  <2> QED BY <1>4, <2>1, <2>2 DEF Remove
<1>5. CASE UNCHANGED slabVars
  BY <1>1, <1>5 DEF slabVars, HighWater
<1> QED BY <1>1, <1>3, <1>4, <1>5 DEF SlabNext, HighWater

(* An empty vector is short enough.                                        *)
LEMMA InitHighWater == SlabInit => HighWater
  BY InitSlabInv, SlabAssumption DEF HighWater, SlabInit

(* So the vector is never longer than the bound.                           *)
LEMMA HighWaterInvariant == SlabSpec => []HighWater
  BY InitHighWater, NextHighWater, PTL DEF SlabSpec

(* A remove with any handle is one with a handle of the bounded space, or  *)
(* changes nothing.                                                        *)
LEMMA RemoveIsStep ==
  ASSUME HighWater, NEW h, Remove(h)
  PROVE  [SlabNext]_slabVars
<1>1. CASE RemoveStored(h)
  <2>1. h \in Indices
    BY <1>1 DEF RemoveStored, Get
  <2>2. h \in 0 .. MaxStored
    BY <2>1, SlabAssumption DEF Indices, HighWater
  <2> QED BY <2>2 DEF SlabNext
<1>2. CASE RemoveNothing(h)
  BY <1>2 DEF RemoveNothing
<1> QED BY <1>1, <1>2 DEF Remove

(* The slab implements the abstract map of SlabMap: each insert is an      *)
(* insertion under a handle not in use and below the bound, each remove    *)
(* takes exactly the entry of its handle, and a remove that finds nothing  *)
(* is invisible (slab.rs, insert and remove).                              *)
THEOREM SlabRefinesMap == SlabSpec => SlabImplementsMap
<1> USE SlabAssumption
<1> DEFINE Store == [i \in Occupied |-> slots[i + 1]]
<1>1. SlabInit => Abstract!MapInit
  <2> SUFFICES ASSUME SlabInit PROVE Store = [h \in {} |-> 0]
    BY DEF Abstract!MapInit
  <2>1. Occupied = {}
    BY DEF SlabInit, Occupied, Indices
  <2> QED BY <2>1
<1>2. HighWater /\ [SlabNext]_slabVars => [Abstract!MapNext]_Store
  <2> SUFFICES ASSUME HighWater, [SlabNext]_slabVars
               PROVE  [Abstract!MapNext]_Store
    OBVIOUS
  <2>1. SlabTypeOK /\ FreeListExact /\ CountExact
    BY DEF HighWater, SlabInv
  <2>2. DOMAIN Store = Occupied
    OBVIOUS
  <2>3. ASSUME NEW c \in Continuations, Insert(c)
        PROVE  Abstract!MapNext
    <3> DEFINE h == InsertIndex
    <3>1. h \in Nat /\ h \notin Occupied
      BY <2>1, InsertIndexUnused
    <3>2. h \in 0 .. MaxStored - 1
      BY <2>3, InsertInRange
    <3> HIDE DEF h
    <3>3. Store' = [k \in Occupied \cup {h} |-> IF k = h THEN c ELSE Store[k]]
      <4>1. Occupied' = Occupied \cup {h} /\ slots'[h + 1] = c
            /\ \A i \in Occupied : slots'[i + 1] = slots[i + 1]
        BY <2>1, <2>3, InsertEffect DEF h
      <4> QED BY <3>1, <4>1
    <3>4. Abstract!MapInsert(h, c)
      BY <2>2, <3>1, <3>3 DEF Abstract!MapInsert
    <3> QED BY <3>2, <3>4 DEF Abstract!MapNext, Abstract!Handles
  <2>4. ASSUME NEW i \in 0 .. MaxStored, Remove(i)
        PROVE  [Abstract!MapNext]_Store
    <3>1. CASE RemoveStored(i)
      <4>1. /\ i \in Occupied
            /\ Occupied' = Occupied \ {i}
            /\ \A j \in Occupied \ {i} : slots'[j + 1] = slots[j + 1]
        BY <2>1, <3>1, RemoveEffect
      <4>2. Store' = [k \in Occupied \ {i} |-> Store[k]]
        BY <4>1
      <4>3. i \in 0 .. MaxStored - 1
        BY <2>1, <4>1 DEF Occupied, Indices, HighWater, SlabTypeOK
      <4>4. Abstract!MapRemove(i)
        BY <2>2, <4>1, <4>2 DEF Abstract!MapRemove
      <4> QED BY <4>3, <4>4 DEF Abstract!MapNext, Abstract!Handles
    <3>2. CASE RemoveNothing(i)
      <4>1. Occupied' = Occupied /\ slots' = slots
        BY <3>2 DEF RemoveNothing, slabVars, Occupied, Indices
      <4> QED BY <4>1
    <3> QED BY <2>4, <3>1, <3>2 DEF Remove
  <2>5. CASE UNCHANGED slabVars
    <3>1. Occupied' = Occupied /\ slots' = slots
      BY <2>5 DEF slabVars, Occupied, Indices
    <3> QED BY <3>1
  <2> QED BY <2>3, <2>4, <2>5 DEF SlabNext
<1> QED BY <1>1, <1>2, HighWaterInvariant, PTL
        DEF SlabSpec, SlabImplementsMap, Abstract!MapSpec
=============================================================================
