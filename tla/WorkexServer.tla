---------------------------- MODULE WorkexServer ----------------------------
(***************************************************************************)
(* The benchmark HTTP server (workex-cli/src/server.rs): main accepts      *)
(* connections and spawns a task for each; a task serves the requests of   *)
(* its connection one after the other.  handle locks the pool twice, to    *)
(* spawn and to recycle, and uses the isolate in between without a lock.   *)
(* It has no await, so a connection that breaks does not stop it half way. *)
(***************************************************************************)
EXTENDS Integers, Sequences, FiniteSets

CONSTANTS
  Conns,        (* the tasks of the connections                            *)
  Paths,        (* request paths                                           *)
  None,         (* no value                                                *)
  MaxIdle,      (* capacity of the pool: DEFAULT_POOL_SIZE                 *)
  MaxRequests   (* bound: requests received                                *)

ASSUME ServerAssumption ==
  MaxIdle \in Nat /\ MaxRequests \in Nat /\ None \notin Nat /\ "main" \notin Conns

VARIABLES
  idle, next_isolate, arena, total_spawned, total_recycled,
  pc,        (* main: binding, accepting; a connection: reading, routed,   *)
             (* spawned, allocated, replying                               *)
  request,   (* per connection: the path it serves                         *)
  isolate,   (* per connection: the isolate it owns                        *)
  body,      (* per connection: the body of the response                   *)
  received   (* requests received                                          *)

poolVars == <<idle, next_isolate, arena, total_spawned, total_recycled>>
vars == <<poolVars, pc, request, isolate, body, received>>

(* What the match on the path allocates: /health, /json and /compute have  *)
(* bodies of their own, any other path the greeting.                       *)
Routes == {"/health", "/json", "/compute"}
Body(path) == IF path \in Routes THEN path ELSE "greeting"

MaxIsolates == MaxIdle + MaxRequests

Pool == INSTANCE IsolatePool WITH Values <- Routes \cup {"greeting"}

Main == "main"

Init ==
  /\ Pool!PoolInit
  /\ pc = [p \in Conns \cup {Main} |-> IF p = Main THEN "binding" ELSE "closed"]
  /\ request = [c \in Conns |-> None]
  /\ isolate = [c \in Conns |-> None]
  /\ body = [c \in Conns |-> None]
  /\ received = 0

(* main: the pool is warmed before the listener accepts.                   *)
Listen ==
  /\ pc[Main] = "binding"
  /\ Pool!Warm
  /\ pc' = [pc EXCEPT ![Main] = "accepting"]
  /\ UNCHANGED <<request, isolate, body, received>>

Accept(c) ==
  /\ pc[Main] = "accepting"
  /\ pc[c] = "closed"
  /\ pc' = [pc EXCEPT ![c] = "reading"]
  /\ UNCHANGED <<poolVars, request, isolate, body, received>>

(* serve_connection reads the next request of the connection.              *)
Receive(c, path) ==
  /\ pc[c] = "reading"
  /\ received < MaxRequests
  /\ received' = received + 1
  /\ request' = [request EXCEPT ![c] = path]
  /\ pc' = [pc EXCEPT ![c] = "routed"]
  /\ UNCHANGED <<poolVars, isolate, body>>

(* The peer closes an idle connection.                                     *)
Close(c) ==
  /\ pc[c] = "reading"
  /\ pc' = [pc EXCEPT ![c] = "closed"]
  /\ UNCHANGED <<poolVars, request, isolate, body, received>>

SpawnIsolate(c) ==
  /\ pc[c] = "routed"
  /\ \E iso \in Pool!Isolates :
       /\ Pool!Spawn(iso)
       /\ isolate' = [isolate EXCEPT ![c] = iso]
  /\ pc' = [pc EXCEPT ![c] = "spawned"]
  /\ UNCHANGED <<request, body, received>>

(* alloc_str: the text goes to the arena of the isolate.                   *)
AllocBody(c) ==
  /\ pc[c] = "spawned"
  /\ Pool!Allocate(isolate[c], Body(request[c]))
  /\ pc' = [pc EXCEPT ![c] = "allocated"]
  /\ UNCHANGED <<request, isolate, body, received>>

(* to_string: the response owns a copy of what the arena holds there.      *)
CopyBody(c) ==
  /\ pc[c] = "allocated"
  /\ body' = [body EXCEPT ![c] = arena[isolate[c]][Len(arena[isolate[c]])]]
  /\ pc' = [pc EXCEPT ![c] = "copied"]
  /\ UNCHANGED <<poolVars, request, isolate, received>>

RecycleIsolate(c) ==
  /\ pc[c] = "copied"
  /\ Pool!Recycle(isolate[c])
  /\ isolate' = [isolate EXCEPT ![c] = None]
  /\ pc' = [pc EXCEPT ![c] = "replying"]
  /\ UNCHANGED <<request, body, received>>

Reply(c) ==
  /\ pc[c] = "replying"
  /\ request' = [request EXCEPT ![c] = None]
  /\ body' = [body EXCEPT ![c] = None]
  /\ pc' = [pc EXCEPT ![c] = "reading"]
  /\ UNCHANGED <<poolVars, isolate, received>>

Handle(c) ==
  SpawnIsolate(c) \/ AllocBody(c) \/ CopyBody(c) \/ RecycleIsolate(c) \/ Reply(c)

Next ==
  \/ Listen
  \/ \E c \in Conns : Accept(c) \/ Close(c) \/ Handle(c)
  \/ \E c \in Conns, path \in Paths : Receive(c, path)

Spec == Init /\ [][Next]_vars

-----------------------------------------------------------------------------
Held == {isolate[c] : c \in {d \in Conns : isolate[d] # None}}

Phases == {"binding", "accepting", "closed", "reading", "routed", "spawned",
           "allocated", "copied", "replying"}

(* Types of the variables; a connection owns an isolate exactly from the   *)
(* spawn to the recycling.                                                 *)
TypeOK ==
  /\ Pool!PoolTypeOK
  /\ pc \in [Conns \cup {Main} -> Phases]
  /\ request \in [Conns -> Paths \cup {None}]
  /\ isolate \in [Conns -> (1 .. next_isolate - 1) \cup {None}]
  /\ \A c \in Conns : (isolate[c] # None) <=> pc[c] \in {"spawned", "allocated", "copied"}

(* An isolate serves one request at a time: those of two connections are   *)
(* different, none of them is idle, and none is in the pool twice.         *)
OneRequestPerIsolate ==
  /\ \A c, d \in Conns : c # d /\ isolate[c] # None => isolate[c] # isolate[d]
  /\ Held \cap Pool!Idle = {}
  /\ \A j, k \in 1 .. Len(idle) : idle[j] = idle[k] => j = k

(* What one request allocated is gone before another gets the isolate: an  *)
(* arena is empty unless a request that allocated in it still owns it, and *)
(* then it holds that request's body alone.                                *)
ArenasIsolated ==
  \A i \in Pool!Isolates :
    \/ arena[i] = <<>>
    \/ \E c \in Conns : isolate[c] = i /\ arena[i] = <<Body(request[c])>>

(* The pool keeps at most max_idle isolates although any number may be in  *)
(* use, and the two counters account for every isolate: of those handed    *)
(* out, all but the held ones came back; of those made, all but the idle   *)
(* and the held ones were dropped.  total_spawned counts the warm isolates *)
(* a second time when they are first handed out.                           *)
PoolAccounts ==
  /\ Len(idle) <= MaxIdle
  /\ pc[Main] = "accepting" =>
       total_spawned = MaxIdle + total_recycled + Cardinality(Held)
  /\ next_isolate - 1 >= Len(idle) + Cardinality(Held)

(* However many connections share it, the pool is, to each of them, one    *)
(* that lends isolates as IsolateLease says: spawn lends an empty one that *)
(* nobody holds, recycle takes it back empty, and in between its arena is  *)
(* written by the connection that holds it alone.                          *)
Lease == INSTANCE IsolateLease
  WITH Clients <- Conns, Isolates <- Pool!Isolates, Values <- Routes \cup {"greeting"},
       holder <- isolate, contents <- arena

PoolImplementsLease == Lease!LeaseSpec
=============================================================================
