-------------------------- MODULE RuntimeRegistry --------------------------
(***************************************************************************)
(* RuntimeRegistry (workex-runtime/src/registry.rs): threads ask for the   *)
(* SharedRuntime of a Worker script.  get_or_create looks the hash of the  *)
(* script up under the read lock, creates a runtime under no lock, enters  *)
(* it under the write lock if the hash is still vacant, and hands out the  *)
(* runtime it created, whichever is entered.                               *)
(*                                                                         *)
(* A critical section is one step.  A runtime is the number of its         *)
(* creation; made records the script each was created from.                *)
(***************************************************************************)
EXTENDS Integers, Sequences, FiniteSets

CONSTANTS
  Threads,
  Scripts,     (* Worker sources                                           *)
  Hashes,      (* values of hash_source, a u64                             *)
  None,
  MaxCalls     (* bound: calls of get_or_create                            *)

ASSUME RegistryAssumption ==
  /\ IsFiniteSet(Threads)
  /\ MaxCalls \in Nat /\ None \notin Nat /\ None \notin Scripts

VARIABLES
  hash_source, (* the hash function, which is fixed                        *)
  runtimes,    (* RwLock<HashMap<u64, Arc<SharedRuntime>>>                 *)
  made,        (* the script of each runtime created so far                *)
  pc,          (* idle, lookup, create, publish                            *)
  source,      (* the argument of the thread's call                        *)
  rt,          (* the runtime its call created                             *)
  answer,      (* the runtime its last call returned, None after an Err    *)
  entered,     (* ghost: what the map held for its hash when it called     *)
  calls

mapVars == <<hash_source, runtimes>>
vars == <<mapVars, made, pc, source, rt, answer, entered, calls>>

Runtimes == 1 .. MaxCalls

(* Two scripts of different source have different hashes.  DefaultHasher   *)
(* does not promise it; the isolation of Workers relies on it.             *)
Injective(f) == \A s1, s2 \in DOMAIN f : f[s1] = f[s2] => s1 = s2

-----------------------------------------------------------------------------
Init ==
  /\ hash_source \in {f \in [Scripts -> Hashes] : Injective(f)}
  /\ runtimes = [h \in Hashes |-> None]
  /\ made = <<>>
  /\ pc = [t \in Threads |-> "idle"]
  /\ source = [t \in Threads |-> None]
  /\ rt = [t \in Threads |-> None]
  /\ answer = [t \in Threads |-> None]
  /\ entered = [t \in Threads |-> None]
  /\ calls = 0

Hash(t) == hash_source[source[t]]

(* get_or_create(s) is called.                                             *)
Call(t, s) ==
  /\ pc[t] = "idle"
  /\ calls < MaxCalls
  /\ calls' = calls + 1
  /\ pc' = [pc EXCEPT ![t] = "lookup"]
  /\ source' = [source EXCEPT ![t] = s]
  /\ entered' = [entered EXCEPT ![t] = runtimes[hash_source[s]]]
  /\ UNCHANGED <<mapVars, made, rt, answer>>

Return(t, result) ==
  /\ pc' = [pc EXCEPT ![t] = "idle"]
  /\ answer' = [answer EXCEPT ![t] = result]

(* The fast path, under the read lock.                                     *)
LookupHit(t) ==
  /\ pc[t] = "lookup"
  /\ runtimes[Hash(t)] # None
  /\ Return(t, runtimes[Hash(t)])
  /\ UNCHANGED <<mapVars, made, source, rt, entered, calls>>

LookupMiss(t) ==
  /\ pc[t] = "lookup"
  /\ runtimes[Hash(t)] = None
  /\ pc' = [pc EXCEPT ![t] = "create"]
  /\ UNCHANGED <<mapVars, made, source, rt, answer, entered, calls>>

(* SharedRuntime::new, under no lock; the source may fail to load.         *)
Create(t) ==
  /\ pc[t] = "create"
  /\ made' = Append(made, source[t])
  /\ rt' = [rt EXCEPT ![t] = Len(made')]
  /\ pc' = [pc EXCEPT ![t] = "publish"]
  /\ UNCHANGED <<mapVars, source, answer, entered, calls>>

CreateFails(t) ==
  /\ pc[t] = "create"
  /\ Return(t, None)
  /\ UNCHANGED <<mapVars, made, source, rt, entered, calls>>

(* Mutant: the runtime is entered under the hash of another script.        *)
PublishElsewhere(t) ==
  /\ pc[t] = "publish"
  /\ \E h \in Hashes :
       runtimes' = [runtimes EXCEPT ![h] = IF @ = None THEN rt[t] ELSE @]
  /\ Return(t, rt[t])
  /\ rt' = [rt EXCEPT ![t] = None]
  /\ UNCHANGED <<hash_source, made, source, entered, calls>>

(* entry().or_insert_with(), under the write lock, and the return of the   *)
(* runtime this call created.                                              *)
Publish(t) ==
  /\ pc[t] = "publish"
  /\ runtimes' = [runtimes EXCEPT ![Hash(t)] = IF @ = None THEN rt[t] ELSE @]
  /\ Return(t, rt[t])
  /\ rt' = [rt EXCEPT ![t] = None]
  /\ UNCHANGED <<hash_source, made, source, entered, calls>>

Finished ==
  /\ calls = MaxCalls
  /\ \A t \in Threads : pc[t] = "idle"
  /\ UNCHANGED vars

Work(t) == LookupHit(t) \/ LookupMiss(t) \/ Create(t) \/ CreateFails(t) \/ Publish(t)

Next ==
  \/ \E t \in Threads : Work(t) \/ \E s \in Scripts : Call(t, s)
  \/ Finished

Spec == Init /\ [][Next]_vars

-----------------------------------------------------------------------------
(* Types of the variables; a runtime in the map or in a thread was made.   *)
TypeOK ==
  /\ hash_source \in [Scripts -> Hashes] /\ Injective(hash_source)
  /\ made \in Seq(Scripts)
  /\ runtimes \in [Hashes -> (1 .. Len(made)) \cup {None}]
  /\ pc \in [Threads -> {"idle", "lookup", "create", "publish"}]
  /\ source \in [Threads -> Scripts \cup {None}]
  /\ rt \in [Threads -> (1 .. Len(made)) \cup {None}]
  /\ answer \in [Threads -> (1 .. Len(made)) \cup {None}]
  /\ entered \in [Threads -> (1 .. Len(made)) \cup {None}]
  /\ calls \in Nat

(* What a call returns, however the calls interleave.  The runtime was     *)
(* created from the script of the call.  The runtime of a hash is entered  *)
(* once: a call that began when there was one returns that one, so that    *)
(* only calls that overlap the first creation may get another.             *)
ReturnsOwnRuntime ==
  \A t \in Threads : pc[t] = "idle" =>
    /\ answer[t] # None => made[answer[t]] = source[t]
    /\ entered[t] # None => answer[t] = entered[t]
=============================================================================
