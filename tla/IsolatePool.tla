---------------------------- MODULE IsolatePool ----------------------------
(***************************************************************************)
(* IsolatePool (workex-core/src/isolate.rs): isolates of one script that   *)
(* are kept warm between requests.                                         *)
(*                                                                         *)
(* An isolate is its IsolateId.  Of what it owns only the arena changes;   *)
(* arena[i] is the sequence of the values allocated in it and not yet      *)
(* reset (how the bytes are laid out is the subject of module Arena).      *)
(* Warm, Spawn and Recycle are whole calls: they take &mut self, which the *)
(* server obtains from a Mutex.                                            *)
(***************************************************************************)
EXTENDS Integers, Sequences, FiniteSets

CONSTANTS
  MaxIdle,      (* max_idle                                                *)
  MaxIsolates,  (* bound: isolates created (the id is a u64)               *)
  Values        (* what may be allocated in an arena                       *)

Isolates == 1 .. MaxIsolates

VARIABLES
  idle,           (* the stack of idle isolates: its last element is the top *)
  next_isolate,   (* the counter of IsolateId::next                        *)
  arena,          (* per isolate: what it has allocated since the reset    *)
  total_spawned,
  total_recycled

poolVars == <<idle, next_isolate, arena, total_spawned, total_recycled>>

PoolInit ==
  /\ idle = <<>>
  /\ next_isolate = 1
  /\ arena = [i \in Isolates |-> <<>>]
  /\ total_spawned = 0
  /\ total_recycled = 0

Idle == {idle[k] : k \in 1 .. Len(idle)}

(* IsolateId::next, n times: the counter moves past the ids it gave.       *)
IdsAfter(n) == next_isolate + n

(* warm: fills the pool; each isolate made counts as spawned.              *)
Warm ==
  LET missing == MaxIdle - Len(idle) IN
  /\ missing > 0
  /\ next_isolate + missing - 1 <= MaxIsolates
  /\ idle' = idle \o [k \in 1 .. missing |-> next_isolate + k - 1]
  /\ next_isolate' = IdsAfter(missing)
  /\ total_spawned' = total_spawned + missing
  /\ UNCHANGED <<arena, total_recycled>>

(* Mutant: an isolate that is popped is not counted.                       *)
CountOnlyNew == total_spawned + (IF idle = <<>> THEN 1 ELSE 0)

(* total_spawned counts the calls of spawn, whether or not they reuse.     *)
CountSpawn == total_spawned + 1

(* Mutant: the top isolate is handed out and stays in the pool.            *)
PopKept == idle

PopIdle == SubSeq(idle, 1, Len(idle) - 1)

(* spawn: the isolate iso is the top of idle, or a new one.                *)
Spawn(iso) ==
  /\ total_spawned' = CountSpawn
  /\ \/ /\ idle # <<>>
        /\ iso = idle[Len(idle)]
        /\ idle' = PopIdle
        /\ UNCHANGED next_isolate
     \/ /\ idle = <<>>
        /\ iso = next_isolate
        /\ next_isolate' = IdsAfter(1)
        /\ UNCHANGED idle
  /\ UNCHANGED <<arena, total_recycled>>

(* A value is allocated in the arena of the isolate that a request owns;   *)
(* the pool is not involved.                                               *)
Allocate(iso, value) ==
  /\ arena' = [arena EXCEPT ![iso] = Append(@, value)]
  /\ UNCHANGED <<idle, next_isolate, total_spawned, total_recycled>>

(* Mutant: the arena keeps what the last request allocated.                *)
ResetNothing(iso) == arena

ResetForReuse(iso) == [arena EXCEPT ![iso] = <<>>]

HasRoom == Len(idle) < MaxIdle

(* recycle: the isolate is reset, and kept unless the pool is full, where  *)
(* it is dropped.                                                          *)
Recycle(iso) ==
  /\ total_recycled' = total_recycled + 1
  /\ arena' = ResetForReuse(iso)
  /\ idle' = IF HasRoom THEN Append(idle, iso) ELSE idle
  /\ UNCHANGED <<next_isolate, total_spawned>>

(* Types of the fields; only isolates that were made are in the pool.      *)
PoolTypeOK ==
  /\ next_isolate \in 1 .. MaxIsolates + 1
  /\ idle \in Seq(Nat)
  /\ \A k \in 1 .. Len(idle) : idle[k] \in 1 .. next_isolate - 1
  /\ arena \in [Isolates -> Seq(Values)]
=============================================================================
