------------------------------ MODULE Headers ------------------------------
(***************************************************************************)
(* Headers (workex-runtime/src/headers.rs): from the lower-case spelling   *)
(* of a name to the values given for it, in their order.                   *)
(***************************************************************************)
EXTENDS Integers, Sequences

CONSTANTS
  Lower,    (* to_lowercase: from every spelling of a name to one of them  *)
  None

Spellings == DOMAIN Lower

ASSUME LowerAssumption == \A k \in Spellings : Lower[k] \in Spellings /\ Lower[Lower[k]] = Lower[k]

NoHeaders == [n \in {} |-> <<>>]

HasHeader(h, key) == Lower[key] \in DOMAIN h

ValuesOf(h, key) == IF HasHeader(h, key) THEN h[Lower[key]] ELSE <<>>

GetHeader(h, key) == IF HasHeader(h, key) THEN h[Lower[key]][1] ELSE None

Insert(h, name, values) == [n \in DOMAIN h \cup {name} |-> IF n = name THEN values ELSE h[n]]

(* Mutant: the key is inserted as it is spelled.                           *)
SetAsSpelled(h, key, v) == Insert(h, key, <<v>>)

SetHeader(h, key, v) == Insert(h, Lower[key], <<v>>)

AppendHeader(h, key, v) == Insert(h, Lower[key], Append(ValuesOf(h, key), v))

DeleteHeader(h, key) == [n \in DOMAIN h \ {Lower[key]} |-> h[n]]

(* entries, of which taken[n] values of each name n have been yielded:     *)
(* name by name, in any order, as the hash map has them; the next value of *)
(* the name it is at, or the first of a name it has not begun.             *)
Unyielded(h, taken) == {n \in DOMAIN h : taken[n] < Len(h[n])}

MayYield(h, taken, name) ==
  /\ name \in Unyielded(h, taken)
  /\ \A n \in Unyielded(h, taken) \ {name} : taken[n] = 0
=============================================================================
