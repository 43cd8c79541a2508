---------------------------- MODULE KvNamespace ----------------------------
(***************************************************************************)
(* A KV namespace (workex-runtime/src/kv.rs) over a sled database.  The    *)
(* database of a binding is a directory which one handle at a time has     *)
(* open (sled locks it, external); a namespace is a function from keys to  *)
(* values or Null.                                                         *)
(***************************************************************************)
EXTENDS FiniteSets

CONSTANTS Keys, Null

EmptyKv == [k \in Keys |-> Null]

Get(db, k) == db[k]
Put(db, k, v) == [db EXCEPT ![k] = v]
Delete(db, k) == [db EXCEPT ![k] = Null]

(* list: the keys with the prefix, here a set of keys, or all of them.     *)
List(db, prefixed) == {k \in prefixed : db[k] # Null}
=============================================================================
