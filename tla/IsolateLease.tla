---------------------------- MODULE IsolateLease ----------------------------
(***************************************************************************)
(* The abstract specification of a pool of isolates: it lends an isolate   *)
(* to a client, that nobody else holds and in which nothing is left; only  *)
(* the client that holds it puts something into it; and it takes it back   *)
(* empty.  Where isolates come from and where they are kept is no concern  *)
(* of the client.                                                          *)
(***************************************************************************)
EXTENDS Sequences

CONSTANTS Clients, Isolates, Values, None

VARIABLES
  holder,     (* per client: the isolate it holds, or None                 *)
  contents    (* per isolate: what is allocated in it                      *)

LeaseInit ==
  /\ holder = [c \in Clients |-> None]
  /\ contents = [i \in Isolates |-> <<>>]

Lend(c, i) ==
  /\ holder[c] = None
  /\ \A d \in Clients : holder[d] # i
  /\ contents[i] = <<>>
  /\ holder' = [holder EXCEPT ![c] = i]
  /\ UNCHANGED contents

PutInto(c, v) ==
  /\ holder[c] # None
  /\ contents' = [contents EXCEPT ![holder[c]] = Append(@, v)]
  /\ UNCHANGED holder

TakeBack(c) ==
  /\ holder[c] # None
  /\ contents' = [contents EXCEPT ![holder[c]] = <<>>]
  /\ holder' = [holder EXCEPT ![c] = None]

LeaseNext ==
  \E c \in Clients :
    \/ \E i \in Isolates : Lend(c, i)
    \/ \E v \in Values : PutInto(c, v)
    \/ TakeBack(c)

LeaseSpec == LeaseInit /\ [][LeaseNext]_<<holder, contents>>
=============================================================================
