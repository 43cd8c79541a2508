------------------------------ MODULE SlabMap ------------------------------
(***************************************************************************)
(* The abstract specification of a continuation store: a finite map from   *)
(* handles to continuations.  insert returns SOME handle that is not in    *)
(* use, chosen by the implementation; remove takes the entry of its handle *)
(* and nothing else; a remove of an unknown handle changes nothing (a      *)
(* stuttering step).                                                       *)
(***************************************************************************)
EXTENDS Integers

CONSTANTS Continuations, MaxStored

VARIABLE store

MapInit == store = [h \in {} |-> 0]

MapInsert(h, c) ==
  /\ h \notin DOMAIN store
  /\ store' = [k \in DOMAIN store \cup {h} |-> IF k = h THEN c ELSE store[k]]

MapRemove(h) ==
  /\ h \in DOMAIN store
  /\ store' = [k \in DOMAIN store \ {h} |-> store[k]]

(* The handles: as many as entries the store may have at once, so the      *)
(* handle space does not grow with the number of calls.                    *)
Handles == 0 .. MaxStored - 1

MapNext ==
  \E h \in Handles :
    \/ \E c \in Continuations : MapInsert(h, c)
    \/ MapRemove(h)

MapSpec == MapInit /\ [][MapNext]_store
============================================================================
