------------------------ MODULE WorkexServerProofs ------------------------
(***************************************************************************)
(* Proofs about WorkexServer and the IsolatePool it uses, for any number   *)
(* of connections and requests and any size of the pool: an isolate serves *)
(* one request at a time, with an arena of its own.                        *)
(*                                                                         *)
(* And about the Arena inside an isolate, for every initial size and cap,  *)
(* every set of layouts and every placement of chunks: the bump pointer is *)
(* exact, live regions are in the arena and do not overlap, no allocation  *)
(* takes a third growth, and chunks double from the first one on, anew     *)
(* after each reset.                                                       *)
(***************************************************************************)
EXTENDS WorkexServer, Arena, FiniteSetTheorems, SequenceTheorems, TLAPS

(* The arena of an isolate follows the progress of the request that owns   *)
(* it, and is empty when no request does.                                  *)
ArenaFollows ==
  /\ \A c \in Conns :
       /\ pc[c] = "spawned" => arena[isolate[c]] = <<>>
       /\ pc[c] \in {"allocated", "copied"} => arena[isolate[c]] = <<Body(request[c])>>
  /\ \A i \in Pool!Isolates : arena[i] = <<>> \/ \E c \in Conns : isolate[c] = i

(* The inductive invariant.                                                *)
ServerInv == TypeOK /\ OneRequestPerIsolate /\ ArenaFollows

-----------------------------------------------------------------------------
(* OneRequestPerIsolate, without the sets: isolates differ between         *)
(* connections, from the idle ones, and within the pool.                   *)
LEMMA OneRequestMeans ==
  OneRequestPerIsolate <=>
    /\ \A c, d \in Conns : c # d /\ isolate[c] # None => isolate[c] # isolate[d]
    /\ \A c \in Conns, k \in 1 .. Len(idle) : isolate[c] # None => isolate[c] # idle[k]
    /\ \A j, k \in 1 .. Len(idle) : idle[j] = idle[k] => j = k
  BY DEF OneRequestPerIsolate, Held, Pool!Idle

(* pop drops the top of the stack and keeps the others.                    *)
LEMMA PopIdleFacts ==
  ASSUME idle \in Seq(Nat), idle # <<>>
  PROVE  /\ Len(idle) \in Nat \ {0}
         /\ Pool!PopIdle \in Seq(Nat)
         /\ Len(Pool!PopIdle) = Len(idle) - 1
         /\ \A k \in 1 .. Len(idle) - 1 : Pool!PopIdle[k] = idle[k]
<1> DEFINE n == Len(idle) - 1
<1>1. n \in Nat /\ \A k \in 1 .. n : idle[k] \in Nat
  BY EmptySeq, LenProperties
<1>2. 1 \in Int /\ n \in Int
  BY <1>1
<1>3. Len(idle) = n + 1
  BY LenProperties
<1> HIDE DEF n
<1>4. /\ SubSeq(idle, 1, n) \in Seq(Nat)
      /\ Len(SubSeq(idle, 1, n)) = IF 1 <= n THEN n - 1 + 1 ELSE 0
      /\ \A k \in 1 .. n - 1 + 1 : SubSeq(idle, 1, n)[k] = idle[1 + k - 1]
  BY <1>1, <1>2, SubSeqProperties
<1>5. /\ Len(SubSeq(idle, 1, n)) = n
      /\ \A k \in 1 .. n : SubSeq(idle, 1, n)[k] = idle[k]
  BY <1>1, <1>4
<1>6. Pool!PopIdle = SubSeq(idle, 1, n)
  BY DEF Pool!PopIdle, n
<1> QED BY <1>1, <1>3, <1>4, <1>5, <1>6

(* The isolates that warm makes are new ones, each once.                   *)
LEMMA WarmFacts ==
  ASSUME Pool!PoolTypeOK, Pool!Warm
  PROVE  LET missing == MaxIdle - Len(idle) IN
         /\ missing \in Nat
         /\ next_isolate' = next_isolate + missing
         /\ next_isolate' \in 1 .. MaxIsolates + 1
         /\ idle' \in Seq(Nat)
         /\ Len(idle') = Len(idle) + missing
         /\ \A k \in 1 .. Len(idle) : idle'[k] = idle[k]
         /\ \A k \in 1 .. missing : idle'[Len(idle) + k] = next_isolate + k - 1
         /\ arena' = arena
<1> DEFINE missing == MaxIdle - Len(idle)
           made == [k \in 1 .. missing |-> next_isolate + k - 1]
<1>1. Len(idle) \in Nat /\ MaxIdle \in Nat /\ next_isolate \in Nat /\ MaxIsolates \in Nat
  BY ServerAssumption DEF Pool!PoolTypeOK, MaxIsolates
<1>2. missing \in Nat /\ missing > 0 /\ next_isolate + missing - 1 <= MaxIsolates
  BY <1>1 DEF Pool!Warm
<1>3. made \in Seq(Nat) /\ Len(made) = missing
  BY <1>1, <1>2
<1>4. idle' = idle \o made
  BY DEF Pool!Warm
<1> HIDE DEF made
<1>5. /\ idle \o made \in Seq(Nat)
      /\ Len(idle \o made) = Len(idle) + missing
      /\ \A k \in 1 .. Len(idle) + missing :
           (idle \o made)[k] = IF k <= Len(idle) THEN idle[k] ELSE made[k - Len(idle)]
  <2>1. idle \in Seq(Nat)
    BY DEF Pool!PoolTypeOK
  <2>2. made \in Seq(Nat) /\ Len(made) = missing
    BY <1>3
  <2> HIDE DEF missing
  <2> QED BY <2>1, <2>2, ConcatProperties
<1>6. next_isolate' = next_isolate + missing /\ arena' = arena
  BY DEF Pool!Warm, Pool!IdsAfter
<1>7. \A k \in 1 .. missing : idle'[Len(idle) + k] = next_isolate + k - 1
  BY <1>1, <1>2, <1>4, <1>5 DEF made
<1>8. next_isolate' \in 1 .. MaxIsolates + 1
  BY <1>1, <1>2, <1>6
<1>9. /\ idle' \in Seq(Nat)
      /\ Len(idle') = Len(idle) + missing
      /\ \A k \in 1 .. Len(idle) : idle'[k] = idle[k]
  BY <1>1, <1>2, <1>4, <1>5
<1> QED BY <1>2, <1>6, <1>7, <1>8, <1>9

-----------------------------------------------------------------------------
(* The server is not listening.                                            *)
LEMMA InitServer == Init => ServerInv
<1> SUFFICES ASSUME Init PROVE ServerInv
  OBVIOUS
<1>1. MaxIsolates \in Nat
  BY ServerAssumption DEF MaxIsolates
<1>2. TypeOK
  BY <1>1, ServerAssumption
  DEF Init, TypeOK, Pool!PoolInit, Pool!PoolTypeOK, Main, Phases
<1>3. OneRequestPerIsolate
  BY OneRequestMeans DEF Init, Pool!PoolInit
<1>4. ArenaFollows
  BY ServerAssumption DEF Init, Pool!PoolInit, ArenaFollows, Main
<1> QED BY <1>2, <1>3, <1>4 DEF ServerInv

(* The pool of isolates is filled before the server listens.               *)
LEMMA ListenPreserves ==
  ASSUME ServerInv, Listen
  PROVE  ServerInv'
<1> DEFINE missing == MaxIdle - Len(idle)
<1>1. Pool!PoolTypeOK
  BY DEF ServerInv, TypeOK
<1>2. /\ missing \in Nat
      /\ next_isolate' = next_isolate + missing
      /\ next_isolate' \in 1 .. MaxIsolates + 1
      /\ idle' \in Seq(Nat)
      /\ Len(idle') = Len(idle) + missing
      /\ \A k \in 1 .. Len(idle) : idle'[k] = idle[k]
      /\ \A k \in 1 .. missing : idle'[Len(idle) + k] = next_isolate + k - 1
      /\ arena' = arena
  BY <1>1, WarmFacts DEF Listen
<1>3. Len(idle) \in Nat /\ next_isolate \in Nat
  BY <1>1 DEF Pool!PoolTypeOK
<1> HIDE DEF missing
<1>4. \A k \in 1 .. Len(idle') :
        \/ k \in 1 .. Len(idle) /\ idle'[k] = idle[k] /\ idle[k] < next_isolate
        \/ /\ k - Len(idle) \in 1 .. missing
           /\ idle'[k] = next_isolate + (k - Len(idle)) - 1
  <2> SUFFICES ASSUME NEW k \in 1 .. Len(idle')
               PROVE  \/ k \in 1 .. Len(idle) /\ idle'[k] = idle[k] /\ idle[k] < next_isolate
                      \/ /\ k - Len(idle) \in 1 .. missing
                         /\ idle'[k] = next_isolate + (k - Len(idle)) - 1
    OBVIOUS
  <2>1. k \in 1 .. Len(idle) + missing
    BY <1>2
  <2>2. CASE k <= Len(idle)
    BY <2>1, <2>2, <1>1, <1>2, <1>3 DEF Pool!PoolTypeOK
  <2>3. CASE k > Len(idle)
    <3>1. k - Len(idle) \in 1 .. missing
      BY <2>1, <2>3, <1>2, <1>3
    <3>2. idle'[Len(idle) + (k - Len(idle))] = next_isolate + (k - Len(idle)) - 1
      BY <3>1, <1>2
    <3>3. Len(idle) + (k - Len(idle)) = k
      BY <2>1, <1>2, <1>3
    <3> QED BY <3>1, <3>2, <3>3
  <2> QED BY <2>1, <2>2, <2>3, <1>2, <1>3
<1>5. UNCHANGED <<request, isolate>>
  BY DEF Listen
<1>6. pc \in [Conns \cup {Main} -> Phases] /\ \A c \in Conns : pc'[c] = pc[c]
  BY ServerAssumption DEF Listen, ServerInv, TypeOK, Main
<1>7. TypeOK'
  <2>1. \A k \in 1 .. Len(idle') : idle'[k] \in 1 .. next_isolate' - 1
    <3> SUFFICES ASSUME NEW k \in 1 .. Len(idle')
                 PROVE  idle'[k] \in 1 .. next_isolate' - 1
      OBVIOUS
    <3>1. next_isolate \in Nat \ {0}
      BY <1>1 DEF Pool!PoolTypeOK
    <3>2. CASE k \in 1 .. Len(idle) /\ idle'[k] = idle[k]
      <4>1. idle[k] \in 1 .. next_isolate - 1
        BY <3>2, <1>1 DEF Pool!PoolTypeOK
      <4> QED BY <3>1, <3>2, <4>1, <1>2
    <3>3. CASE /\ k - Len(idle) \in 1 .. missing
               /\ idle'[k] = next_isolate + (k - Len(idle)) - 1
      BY <3>1, <3>3, <1>2
    <3> QED BY <3>2, <3>3, <1>4
  <2>2. Pool!PoolTypeOK'
    BY <2>1, <1>1, <1>2 DEF Pool!PoolTypeOK
  <2>3. pc' \in [Conns \cup {Main} -> Phases]
    BY DEF Listen, ServerInv, TypeOK, Phases
  <2>4. \A c \in Conns : isolate[c] \in (1 .. next_isolate' - 1) \cup {None}
    BY <1>2, <1>3 DEF ServerInv, TypeOK
  <2> QED BY <2>2, <2>3, <2>4, <1>5, <1>6 DEF ServerInv, TypeOK
<1>8. OneRequestPerIsolate'
  <2>1. \A j, k \in 1 .. Len(idle') : idle'[j] = idle'[k] => j = k
    <3> SUFFICES ASSUME NEW j \in 1 .. Len(idle'), NEW k \in 1 .. Len(idle'), idle'[j] = idle'[k]
                 PROVE  j = k
      OBVIOUS
    <3>1. j \in Nat /\ k \in Nat
      BY <1>2
    <3>2. \A m, n \in 1 .. Len(idle) : idle[m] = idle[n] => m = n
      BY OneRequestMeans DEF ServerInv
    <3>3. \A m \in 1 .. Len(idle) : idle[m] \in Nat
      BY <1>1 DEF Pool!PoolTypeOK
    <3>4. ASSUME NEW m \in 1 .. Len(idle')
          PROVE  \/ m \in 1 .. Len(idle) /\ idle'[m] = idle[m] /\ idle[m] < next_isolate
                 \/ idle'[m] = next_isolate + (m - Len(idle)) - 1 /\ idle'[m] >= next_isolate
      BY <1>2, <1>3, <1>4
    <3>5. idle'[j] \in Nat /\ next_isolate \in Nat
      BY <1>2, <1>3
    <3>6. CASE idle'[j] < next_isolate
      BY <3>1, <3>2, <3>4, <3>5, <3>6, <1>2, <1>3
    <3>7. CASE idle'[j] >= next_isolate
      <4>1. /\ idle'[j] = next_isolate + (j - Len(idle)) - 1
            /\ idle'[k] = next_isolate + (k - Len(idle)) - 1
        BY <3>4, <3>5, <3>7
      <4>2. next_isolate + (j - Len(idle)) - 1 = next_isolate + (k - Len(idle)) - 1
        BY <4>1
      <4>3. Len(idle) \in Int /\ next_isolate \in Int /\ j \in Int /\ k \in Int
        BY <3>1, <1>3
      <4> QED BY <4>2, <4>3
    <3> QED BY <3>5, <3>6, <3>7
  <2>2. \A c \in Conns, k \in 1 .. Len(idle') : isolate[c] # None => isolate[c] # idle'[k]
    <3> SUFFICES ASSUME NEW c \in Conns, NEW k \in 1 .. Len(idle'), isolate[c] # None
                 PROVE  isolate[c] # idle'[k]
      OBVIOUS
    <3>1. isolate[c] \in 1 .. next_isolate - 1
      BY DEF ServerInv, TypeOK
    <3>2. \A m \in 1 .. Len(idle) : isolate[c] # idle[m]
      BY OneRequestMeans DEF ServerInv
    <3>3. CASE k \in 1 .. Len(idle) /\ idle'[k] = idle[k]
      BY <3>2, <3>3
    <3>4. CASE /\ k - Len(idle) \in 1 .. missing
               /\ idle'[k] = next_isolate + (k - Len(idle)) - 1
      BY <3>1, <3>4, <1>2, <1>3
    <3> QED BY <3>3, <3>4, <1>4
  <2>3. \A c, d \in Conns : c # d /\ isolate[c] # None => isolate[c] # isolate[d]
    BY OneRequestMeans DEF ServerInv
  <2> QED BY <2>1, <2>2, <2>3, <1>5 DEF OneRequestPerIsolate, Held, Pool!Idle
<1>9. ArenaFollows'
  BY <1>2, <1>5, <1>6 DEF ServerInv, ArenaFollows, Pool!Isolates
<1> QED BY <1>7, <1>8, <1>9 DEF ServerInv

(* spawn hands out the top of the pool or a new isolate: nobody has it and *)
(* its arena is empty.                                                     *)
LEMMA SpawnFacts ==
  ASSUME ServerInv, NEW iso \in Pool!Isolates, Pool!Spawn(iso)
  PROVE  /\ Pool!PoolTypeOK'
         /\ next_isolate <= next_isolate'
         /\ iso \in 1 .. next_isolate' - 1
         /\ \A c \in Conns : isolate[c] # iso
         /\ \A k \in 1 .. Len(idle') : k \in 1 .. Len(idle) /\ idle'[k] = idle[k] /\ idle[k] # iso
         /\ arena' = arena
         /\ arena[iso] = <<>>
<1>1. /\ idle \in Seq(Nat)
      /\ next_isolate \in 1 .. MaxIsolates + 1
      /\ arena \in [Pool!Isolates -> Seq(Routes \cup {"greeting"})]
      /\ \A k \in 1 .. Len(idle) : idle[k] \in 1 .. next_isolate - 1
      /\ \A c \in Conns : isolate[c] \in (1 .. next_isolate - 1) \cup {None}
      /\ MaxIsolates \in Nat
      /\ iso \in 1 .. MaxIsolates
  BY ServerAssumption DEF ServerInv, TypeOK, Pool!PoolTypeOK, Pool!Isolates, MaxIsolates
<1>2. arena' = arena
  BY DEF Pool!Spawn
<1>3. CASE /\ idle # <<>>
           /\ iso = idle[Len(idle)]
           /\ idle' = Pool!PopIdle
           /\ UNCHANGED next_isolate
  <2>1. /\ Len(idle) \in Nat \ {0}
        /\ idle' \in Seq(Nat)
        /\ Len(idle') = Len(idle) - 1
        /\ \A k \in 1 .. Len(idle) - 1 : idle'[k] = idle[k]
    BY <1>1, <1>3, PopIdleFacts
  <2>2. /\ \A c \in Conns, k \in 1 .. Len(idle) : isolate[c] # None => isolate[c] # idle[k]
        /\ \A j, k \in 1 .. Len(idle) : idle[j] = idle[k] => j = k
    BY OneRequestMeans DEF ServerInv
  <2>3. Len(idle) \in 1 .. Len(idle)
    BY <2>1, <1>1
  <2>4. iso \in 1 .. next_isolate - 1
    BY <2>3, <1>1, <1>3
  <2>5. \A c \in Conns : isolate[c] # iso
    BY <2>2, <2>3, <2>4, <1>3, ServerAssumption, <1>1
  <2>6. \A k \in 1 .. Len(idle') : k \in 1 .. Len(idle) /\ idle'[k] = idle[k] /\ idle[k] # iso
    <3> SUFFICES ASSUME NEW k \in 1 .. Len(idle) - 1
                 PROVE  k \in 1 .. Len(idle) /\ idle[k] # idle[Len(idle)]
      BY <2>1, <1>3
    <3>1. k \in 1 .. Len(idle) /\ k # Len(idle)
      BY <2>1
    <3> QED BY <3>1, <2>2, <2>3
  <2>7. Pool!PoolTypeOK'
    BY <2>1, <2>6, <1>1, <1>2, <1>3 DEF Pool!PoolTypeOK
  <2>8. arena[iso] = <<>>
    BY <2>5 DEF ServerInv, ArenaFollows
  <2>9. next_isolate' = next_isolate /\ next_isolate \in Nat
    BY <1>1, <1>3
  <2> QED BY <2>4, <2>5, <2>6, <2>7, <2>8, <2>9, <1>2
<1>4. CASE /\ idle = <<>>
           /\ iso = next_isolate
           /\ next_isolate' = Pool!IdsAfter(1)
           /\ UNCHANGED idle
  <2>1. next_isolate' = next_isolate + 1
    BY <1>4 DEF Pool!IdsAfter
  <2>2. \A c \in Conns : isolate[c] # iso
    BY <1>1, <1>4, ServerAssumption
  <2>3. Pool!PoolTypeOK'
    BY <2>1, <1>1, <1>2, <1>4 DEF Pool!PoolTypeOK
  <2> QED BY <2>1, <2>2, <2>3, <1>1, <1>2, <1>4 DEF ServerInv, ArenaFollows
<1> QED BY <1>3, <1>4 DEF Pool!Spawn

(* A connection takes an isolate, an idle one or a new one.                *)
LEMMA SpawnPreserves ==
  ASSUME ServerInv, NEW c \in Conns, SpawnIsolate(c)
  PROVE  ServerInv'
<1>1. PICK iso \in Pool!Isolates :
        Pool!Spawn(iso) /\ isolate' = [isolate EXCEPT ![c] = iso]
  BY DEF SpawnIsolate
<1>2. /\ Pool!PoolTypeOK'
      /\ next_isolate <= next_isolate'
      /\ iso \in 1 .. next_isolate' - 1
      /\ \A d \in Conns : isolate[d] # iso
      /\ \A k \in 1 .. Len(idle') : k \in 1 .. Len(idle) /\ idle'[k] = idle[k] /\ idle[k] # iso
      /\ arena' = arena
      /\ arena[iso] = <<>>
  BY <1>1, SpawnFacts
<1>3. /\ isolate \in [Conns -> (1 .. next_isolate - 1) \cup {None}]
      /\ next_isolate \in Nat /\ next_isolate' \in Nat
      /\ pc \in [Conns \cup {Main} -> Phases]
      /\ pc' = [pc EXCEPT ![c] = "spawned"] /\ request' = request
  BY <1>2 DEF ServerInv, TypeOK, Pool!PoolTypeOK, SpawnIsolate
<1>4. /\ isolate'[c] = iso /\ pc'[c] = "spawned" /\ iso # None
      /\ \A d \in Conns \ {c} : isolate'[d] = isolate[d] /\ pc'[d] = pc[d]
  BY <1>1, <1>2, <1>3, ServerAssumption
<1>5. TypeOK'
  <2>1. isolate' \in [Conns -> (1 .. next_isolate' - 1) \cup {None}]
    BY <1>1, <1>2, <1>3
  <2>2. pc' \in [Conns \cup {Main} -> Phases]
    BY <1>3 DEF Phases
  <2> QED BY <2>1, <2>2, <1>2, <1>3, <1>4 DEF ServerInv, TypeOK
<1>6. OneRequestPerIsolate'
  <2>1. \A d, e \in Conns : d # e /\ isolate'[d] # None => isolate'[d] # isolate'[e]
    BY <1>2, <1>4, OneRequestMeans DEF ServerInv
  <2>2. \A d \in Conns, k \in 1 .. Len(idle') : isolate'[d] # None => isolate'[d] # idle'[k]
    BY <1>2, <1>4, OneRequestMeans DEF ServerInv
  <2>3. \A j, k \in 1 .. Len(idle') : idle'[j] = idle'[k] => j = k
    BY <1>2, OneRequestMeans DEF ServerInv
  <2> QED BY <2>1, <2>2, <2>3 DEF OneRequestPerIsolate, Held, Pool!Idle
<1>7. ArenaFollows'
  <2>1. \A d \in Conns : 
           /\ pc'[d] = "spawned" => arena'[isolate'[d]] = <<>>
           /\ pc'[d] \in {"allocated", "copied"} => arena'[isolate'[d]] = <<Body(request'[d])>>
    BY <1>2, <1>3, <1>4 DEF ServerInv, ArenaFollows
  <2>2. \A i \in Pool!Isolates : arena'[i] = <<>> \/ \E d \in Conns : isolate'[d] = i
    <3> SUFFICES ASSUME NEW i \in Pool!Isolates, arena[i] # <<>>
                 PROVE  \E d \in Conns : isolate'[d] = i
      BY <1>2
    <3>1. PICK d \in Conns : isolate[d] = i
      BY DEF ServerInv, ArenaFollows
    <3>2. d # c
      <4>1. isolate[c] = None
        BY DEF ServerInv, TypeOK, SpawnIsolate
      <4>2. i # None
        BY ServerAssumption DEF Pool!Isolates, MaxIsolates
      <4> QED BY <3>1, <4>1, <4>2
    <3> QED BY <3>1, <3>2, <1>4
  <2> QED BY <2>1, <2>2 DEF ArenaFollows, Pool!Isolates
<1> QED BY <1>5, <1>6, <1>7 DEF ServerInv

-----------------------------------------------------------------------------
(* A value is allocated in the arena of the isolate that the request owns. *)
LEMMA AllocPreserves ==
  ASSUME ServerInv, NEW c \in Conns, AllocBody(c)
  PROVE  ServerInv'
<1>1. /\ UNCHANGED <<idle, next_isolate, isolate, request>>
      /\ arena' = [arena EXCEPT ![isolate[c]] = Append(@, Body(request[c]))]
      /\ pc' = [pc EXCEPT ![c] = "allocated"] /\ pc[c] = "spawned"
  BY DEF AllocBody, Pool!Allocate
<1>2. /\ isolate[c] # None /\ isolate[c] \in 1 .. next_isolate - 1
      /\ next_isolate \in 1 .. MaxIsolates + 1 /\ MaxIsolates \in Nat
      /\ arena \in [Pool!Isolates -> Seq(Routes \cup {"greeting"})]
      /\ pc \in [Conns \cup {Main} -> Phases]
  BY <1>1, ServerAssumption DEF ServerInv, TypeOK, Pool!PoolTypeOK, MaxIsolates
<1>3. isolate[c] \in Pool!Isolates
  BY <1>2 DEF Pool!Isolates
<1>4. Body(request[c]) \in Routes \cup {"greeting"}
  BY DEF Body
<1>5. /\ arena' \in [Pool!Isolates -> Seq(Routes \cup {"greeting"})]
      /\ arena'[isolate[c]] = <<Body(request[c])>>
      /\ \A i \in Pool!Isolates : i # isolate[c] => arena'[i] = arena[i]
  <2>1. arena[isolate[c]] = <<>>
    BY <1>1 DEF ServerInv, ArenaFollows
  <2>2. Append(arena[isolate[c]], Body(request[c])) = <<Body(request[c])>>
    BY <2>1
  <2>3. <<Body(request[c])>> \in Seq(Routes \cup {"greeting"})
    BY <1>4
  <2> QED BY <2>2, <2>3, <1>1, <1>2, <1>3
<1>6. TypeOK'
  <2>1. pc' \in [Conns \cup {Main} -> Phases]
    BY <1>1, <1>2 DEF Phases
  <2>2. \A d \in Conns : pc'[d] = IF d = c THEN "allocated" ELSE pc[d]
    BY <1>1, <1>2
  <2>3. Pool!PoolTypeOK'
    BY <1>1, <1>5 DEF ServerInv, TypeOK, Pool!PoolTypeOK, Pool!Isolates
  <2> QED BY <2>1, <2>2, <2>3, <1>1, <1>2 DEF ServerInv, TypeOK
<1>7. OneRequestPerIsolate'
  <2>1. idle' = idle /\ isolate' = isolate
    BY <1>1
  <2> QED BY <2>1 DEF ServerInv, OneRequestPerIsolate, Held, Pool!Idle
<1>8. ArenaFollows'
  <2>1. ASSUME NEW d \in Conns
        PROVE  /\ pc'[d] = "spawned" => arena'[isolate[d]] = <<>>
               /\ pc'[d] \in {"allocated", "copied"} => arena'[isolate[d]] = <<Body(request[d])>>
    <3>1. CASE d = c
      BY <3>1, <1>1, <1>2, <1>5
    <3>2. CASE d # c
      <4>1. pc'[d] = pc[d]
        BY <3>2, <1>1, <1>2
      <4>2. pc[d] \in {"spawned", "allocated", "copied"} =>
              isolate[d] \in Pool!Isolates /\ isolate[d] # isolate[c]
        BY <3>2, <1>2, OneRequestMeans DEF ServerInv, TypeOK, Pool!Isolates
      <4> QED BY <4>1, <4>2, <1>5 DEF ServerInv, ArenaFollows
    <3> QED BY <3>1, <3>2
  <2>2. \A i \in Pool!Isolates : arena'[i] = <<>> \/ \E d \in Conns : isolate[d] = i
    BY <1>5 DEF ServerInv, ArenaFollows
  <2> QED BY <2>1, <2>2, <1>1 DEF ArenaFollows, Pool!Isolates
<1> QED BY <1>6, <1>7, <1>8 DEF ServerInv

(* The isolate goes back empty, to the pool or away.                       *)
LEMMA RecyclePreserves ==
  ASSUME ServerInv, NEW c \in Conns, RecycleIsolate(c)
  PROVE  ServerInv'
<1> DEFINE iso == isolate[c]
<1>1. /\ idle' = IF Pool!HasRoom THEN Append(idle, iso) ELSE idle
      /\ arena' = [arena EXCEPT ![iso] = <<>>]
      /\ isolate' = [isolate EXCEPT ![c] = None]
      /\ pc' = [pc EXCEPT ![c] = "replying"] /\ pc[c] = "copied"
      /\ UNCHANGED <<next_isolate, request>>
  BY DEF RecycleIsolate, Pool!Recycle, Pool!ResetForReuse
<1>2. /\ iso # None /\ iso \in 1 .. next_isolate - 1
      /\ next_isolate \in 1 .. MaxIsolates + 1 /\ MaxIsolates \in Nat
      /\ arena \in [Pool!Isolates -> Seq(Routes \cup {"greeting"})]
      /\ pc \in [Conns \cup {Main} -> Phases]
      /\ isolate \in [Conns -> (1 .. next_isolate - 1) \cup {None}]
      /\ idle \in Seq(Nat)
      /\ \A k \in 1 .. Len(idle) : idle[k] \in 1 .. next_isolate - 1
  BY <1>1, ServerAssumption DEF ServerInv, TypeOK, Pool!PoolTypeOK, MaxIsolates
<1>3. /\ isolate'[c] = None /\ pc'[c] = "replying"
      /\ \A d \in Conns \ {c} : isolate'[d] = isolate[d] /\ pc'[d] = pc[d] /\ isolate[d] # iso
  BY <1>1, <1>2, OneRequestMeans DEF ServerInv
<1>4. /\ arena' \in [Pool!Isolates -> Seq(Routes \cup {"greeting"})]
      /\ \A i \in Pool!Isolates : arena'[i] = IF i = iso THEN <<>> ELSE arena[i]
  BY <1>1, <1>2 DEF Pool!Isolates
<1>5. /\ idle' \in Seq(Nat)
      /\ \A k \in 1 .. Len(idle') :
           \/ k \in 1 .. Len(idle) /\ idle'[k] = idle[k]
           \/ k = Len(idle) + 1 /\ idle'[k] = iso
  <2>1. CASE Pool!HasRoom
    <3>1. idle' = Append(idle, iso) /\ iso \in Nat
      BY <2>1, <1>1, <1>2
    <3>2. /\ idle' \in Seq(Nat) /\ Len(idle) \in Nat
          /\ Len(idle') = Len(idle) + 1
          /\ \A k \in 1 .. Len(idle) : idle'[k] = idle[k]
          /\ idle'[Len(idle) + 1] = iso
      BY <3>1, <1>2, AppendProperties
    <3>3. ASSUME NEW k \in 1 .. Len(idle')
          PROVE  k \in 1 .. Len(idle) \/ k = Len(idle) + 1
      BY <3>2
    <3> QED BY <3>2, <3>3
  <2>2. CASE ~Pool!HasRoom
    <3>1. idle' = idle
      BY <2>2, <1>1
    <3> QED BY <3>1, <1>2
  <2> QED BY <2>1, <2>2
<1>6. \A k \in 1 .. Len(idle) : idle[k] # iso
  BY <1>2, OneRequestMeans DEF ServerInv
<1>7. TypeOK'
  <2>1. Pool!PoolTypeOK'
    BY <1>1, <1>2, <1>4, <1>5 DEF Pool!PoolTypeOK, Pool!Isolates
  <2>2. pc' \in [Conns \cup {Main} -> Phases]
    BY <1>1, <1>2 DEF Phases
  <2> QED BY <2>1, <2>2, <1>1, <1>2, <1>3 DEF ServerInv, TypeOK
<1>8. OneRequestPerIsolate'
  <2>1. \A d, e \in Conns : d # e /\ isolate'[d] # None => isolate'[d] # isolate'[e]
    BY <1>3, OneRequestMeans DEF ServerInv
  <2>2. \A d \in Conns, k \in 1 .. Len(idle') : isolate'[d] # None => isolate'[d] # idle'[k]
    BY <1>3, <1>5, OneRequestMeans DEF ServerInv
  <2>3. \A j, k \in 1 .. Len(idle') : idle'[j] = idle'[k] => j = k
    BY <1>5, <1>6, OneRequestMeans DEF ServerInv
  <2> QED BY <2>1, <2>2, <2>3 DEF OneRequestPerIsolate, Held, Pool!Idle
<1>9. ArenaFollows'
  <2>1. ASSUME NEW d \in Conns
        PROVE  /\ pc'[d] = "spawned" => arena'[isolate'[d]] = <<>>
               /\ pc'[d] \in {"allocated", "copied"} => arena'[isolate'[d]] = <<Body(request[d])>>
    <3>1. CASE d = c
      BY <3>1, <1>3
    <3>2. CASE d # c
      <4>1. pc[d] \in {"spawned", "allocated", "copied"} => isolate[d] \in Pool!Isolates
        BY <1>2 DEF ServerInv, TypeOK, Pool!Isolates
      <4>2. isolate'[d] = isolate[d] /\ pc'[d] = pc[d] /\ isolate[d] # iso
        BY <3>2, <1>3
      <4>3. /\ pc[d] = "spawned" => arena[isolate[d]] = <<>>
            /\ pc[d] \in {"allocated", "copied"} => arena[isolate[d]] = <<Body(request[d])>>
        BY DEF ServerInv, ArenaFollows
      <4>4. pc[d] \in {"spawned", "allocated", "copied"} => arena'[isolate[d]] = arena[isolate[d]]
        BY <4>1, <4>2, <1>4
      <4> QED BY <4>2, <4>3, <4>4
    <3> QED BY <3>1, <3>2
  <2>2. \A i \in Pool!Isolates : arena'[i] = <<>> \/ \E d \in Conns : isolate'[d] = i
    <3> SUFFICES ASSUME NEW i \in Pool!Isolates, arena'[i] # <<>>
                 PROVE  \E d \in Conns : isolate'[d] = i
      OBVIOUS
    <3>1. i # iso /\ arena[i] # <<>>
      BY <1>4
    <3>2. PICK d \in Conns : isolate[d] = i
      BY <3>1 DEF ServerInv, ArenaFollows
    <3> QED BY <3>1, <3>2, <1>3
  <2> QED BY <2>1, <2>2, <1>1 DEF ArenaFollows, Pool!Isolates
<1> QED BY <1>7, <1>8, <1>9 DEF ServerInv

-----------------------------------------------------------------------------
(* The steps of a connection that owns no isolate, or only reads from it.  *)
LEMMA OthersPreserve ==
  ASSUME ServerInv, NEW c \in Conns,
         \/ Accept(c) \/ Close(c) \/ CopyBody(c) \/ Reply(c)
         \/ \E path \in Paths : Receive(c, path)
  PROVE  ServerInv'
<1>1. /\ UNCHANGED <<idle, next_isolate, arena, isolate>>
      /\ \E p \in Phases : pc' = [pc EXCEPT ![c] = p]
      /\ pc \in [Conns \cup {Main} -> Phases]
      /\ request' \in [Conns -> Paths \cup {None}]
  BY DEF ServerInv, TypeOK, Accept, Close, CopyBody, Reply, Receive, Phases, poolVars
<1>2. \A d \in Conns : d # c => pc'[d] = pc[d] /\ request'[d] = request[d]
  BY <1>1 DEF ServerInv, TypeOK, Accept, Close, CopyBody, Reply, Receive
<1>3. \/ pc[c] = "allocated" /\ pc'[c] = "copied" /\ request' = request
      \/ /\ pc[c] \in {"closed", "reading", "replying"}
         /\ pc'[c] \in {"closed", "reading", "routed"}
  BY <1>1 DEF Accept, Close, CopyBody, Reply, Receive
<1>4. TypeOK'
  <2>1. pc' \in [Conns \cup {Main} -> Phases]
    BY <1>1
  <2>2. Pool!PoolTypeOK'
    BY <1>1 DEF ServerInv, TypeOK, Pool!PoolTypeOK, Pool!Isolates
  <2> QED BY <2>1, <2>2, <1>1, <1>2, <1>3 DEF ServerInv, TypeOK
<1>5. OneRequestPerIsolate'
  <2>1. idle' = idle /\ isolate' = isolate
    BY <1>1
  <2> QED BY <2>1 DEF ServerInv, OneRequestPerIsolate, Held, Pool!Idle
<1>6. ArenaFollows'
  BY <1>1, <1>2, <1>3 DEF ServerInv, ArenaFollows, Pool!Isolates
<1> QED BY <1>4, <1>5, <1>6 DEF ServerInv

(* The types, one request per isolate, and the arenas that follow them: the *)
(* inductive invariant of the server and its pool, for every pool size.    *)
THEOREM ServerInvariant == Spec => []ServerInv
<1>1. ServerInv /\ [Next]_vars => ServerInv'
  <2> SUFFICES ASSUME ServerInv, [Next]_vars PROVE ServerInv'
    OBVIOUS
  <2>1. CASE Listen
    BY <2>1, ListenPreserves
  <2>2. CASE \E c \in Conns : Accept(c) \/ Close(c) \/ Handle(c)
    BY <2>2, SpawnPreserves, AllocPreserves, RecyclePreserves, OthersPreserve DEF Handle
  <2>3. CASE \E c \in Conns, path \in Paths : Receive(c, path)
    BY <2>3, OthersPreserve
  <2>4. CASE UNCHANGED vars
    <3>1. UNCHANGED <<idle, next_isolate, arena, pc, request, isolate>>
      BY <2>4 DEF vars, poolVars
    <3>2. TypeOK'
      BY <3>1 DEF ServerInv, TypeOK, Pool!PoolTypeOK, Pool!Isolates
    <3>3. OneRequestPerIsolate'
      BY <3>1 DEF ServerInv, OneRequestPerIsolate, Held, Pool!Idle
    <3>4. ArenaFollows'
      BY <3>1 DEF ServerInv, ArenaFollows, Pool!Isolates
    <3> QED BY <3>2, <3>3, <3>4 DEF ServerInv
  <2> QED BY <2>1, <2>2, <2>3, <2>4 DEF Next
<1> QED BY <1>1, InitServer, PTL DEF Spec

(* Spawn and recycle by any number of connections never put one isolate in *)
(* two hands, in a hand and in the pool, or twice in the pool.             *)
THEOREM AlwaysOneRequest == Spec => []OneRequestPerIsolate
<1>1. ServerInv => OneRequestPerIsolate
  BY DEF ServerInv
<1> QED BY <1>1, ServerInvariant, PTL

(* No request finds in its arena what another one allocated.               *)
THEOREM ArenasAlwaysIsolated == Spec => []ArenasIsolated
<1>1. ServerInv => ArenasIsolated
  <2> SUFFICES ASSUME ServerInv, NEW i \in Pool!Isolates, arena[i] # <<>>
               PROVE  \E c \in Conns : isolate[c] = i /\ arena[i] = <<Body(request[c])>>
    BY DEF ArenasIsolated
  <2>1. PICK c \in Conns : isolate[c] = i
    BY DEF ServerInv, ArenaFollows
  <2>2. isolate[c] # None
    BY <2>1, ServerAssumption DEF Pool!Isolates, MaxIsolates
  <2>3. pc[c] \in {"spawned", "allocated", "copied"}
    BY <2>2 DEF ServerInv, TypeOK
  <2> QED BY <2>1, <2>3 DEF ServerInv, ArenaFollows
<1> QED BY <1>1, ServerInvariant, PTL

-----------------------------------------------------------------------------
(* The accounts.  Before the listener accepts, nothing was handed out, so  *)
(* that the warm isolates are the first that total_spawned counts.         *)
AccountInv ==
  /\ total_spawned \in Nat /\ total_recycled \in Nat
  /\ pc[Main] \in {"binding", "accepting"}
  /\ pc[Main] = "binding" =>
       /\ idle = <<>> /\ total_spawned = 0 /\ total_recycled = 0
       /\ \A c \in Conns : pc[c] = "closed"
  /\ PoolAccounts

(* The isolates in use are finitely many, as those ever made are.          *)
LEMMA HeldFinite ==
  ASSUME ServerInv
  PROVE  /\ IsFiniteSet(Held) /\ Cardinality(Held) \in Nat
         /\ Len(idle) \in Nat /\ next_isolate \in Nat
<1>1. next_isolate \in Nat /\ Len(idle) \in Nat
  BY ServerAssumption DEF ServerInv, TypeOK, Pool!PoolTypeOK, MaxIsolates
<1>2. IsFiniteSet(1 .. next_isolate - 1)
  <2>1. 1 \in Int /\ next_isolate - 1 \in Int
    BY <1>1
  <2> QED BY <2>1, FS_Interval
<1>3. Held \subseteq 1 .. next_isolate - 1
  BY DEF Held, ServerInv, TypeOK
<1> QED BY <1>1, <1>2, <1>3, FS_Subset, FS_CardinalityType

(* A spawn takes one more isolate into use.                                *)
LEMMA SpawnHolds ==
  ASSUME ServerInv, NEW c \in Conns, NEW iso \in Pool!Isolates, Pool!Spawn(iso),
         isolate[c] = None, isolate' = [isolate EXCEPT ![c] = iso]
  PROVE  Cardinality(Held') = Cardinality(Held) + 1
<1>1. \A d \in Conns : isolate[d] # iso
  BY SpawnFacts
<1>2. isolate \in [Conns -> (1 .. next_isolate - 1) \cup {None}] /\ iso # None
  BY ServerAssumption DEF ServerInv, TypeOK, Pool!Isolates, MaxIsolates
<1>3. \A d \in Conns : isolate'[d] = IF d = c THEN iso ELSE isolate[d]
  BY <1>2
<1>4. Held' = Held \cup {iso} /\ iso \notin Held
  BY <1>1, <1>2, <1>3 DEF Held
<1> QED BY <1>4, HeldFinite, FS_AddElement

(* A recycling gives one back.                                             *)
LEMMA RecycleReturns ==
  ASSUME ServerInv, NEW c \in Conns, isolate[c] # None,
         isolate' = [isolate EXCEPT ![c] = None]
  PROVE  Cardinality(Held') = Cardinality(Held) - 1
<1>1. \A d \in Conns \ {c} : isolate[d] # isolate[c]
  BY OneRequestMeans DEF ServerInv
<1>2. \A d \in Conns : isolate'[d] = IF d = c THEN None ELSE isolate[d]
  BY DEF ServerInv, TypeOK
<1>3. Held' = Held \ {isolate[c]} /\ isolate[c] \in Held
  BY <1>1, <1>2 DEF Held
<1> QED BY <1>3, HeldFinite, FS_RemoveElement

(* A step that moves no isolate keeps the accounts.                        *)
LEMMA AccountsKept ==
  ASSUME AccountInv, NEW c \in Conns, NEW p \in Phases, pc[Main] = "accepting",
         pc \in [Conns \cup {Main} -> Phases], pc' = [pc EXCEPT ![c] = p],
         UNCHANGED <<idle, next_isolate, total_spawned, total_recycled, isolate>>
  PROVE  AccountInv'
<1>1. pc'[Main] = "accepting"
  BY ServerAssumption DEF Main
<1>2. Held' = Held
  BY DEF Held
<1> QED BY <1>1, <1>2 DEF AccountInv, PoolAccounts

(* total_spawned, total_recycled and next_isolate account for every        *)
(* isolate, and the pool never keeps more than max_idle (warm, spawn and   *)
(* recycle of the isolate pool under the requests of server.rs).           *)
THEOREM PoolAlwaysAccounts == Spec => []PoolAccounts
<1>1. ServerInv /\ Init => AccountInv
  <2> SUFFICES ASSUME ServerInv, Init PROVE AccountInv
    OBVIOUS
  <2>1. Held = {}
    BY DEF Held, Init
  <2>2. Cardinality(Held) = 0
    BY <2>1, FS_EmptySet
  <2> QED BY <2>2, ServerAssumption DEF Init, Pool!PoolInit, AccountInv, PoolAccounts, Main
<1>2. ServerInv /\ AccountInv /\ [Next]_vars => AccountInv'
  <2> SUFFICES ASSUME ServerInv, AccountInv, [Next]_vars PROVE AccountInv'
    OBVIOUS
  <2>1. /\ Cardinality(Held) \in Nat /\ Len(idle) \in Nat /\ next_isolate \in Nat
        /\ total_spawned \in Nat /\ total_recycled \in Nat /\ MaxIdle \in Nat
        /\ pc \in [Conns \cup {Main} -> Phases]
    BY HeldFinite, ServerAssumption DEF ServerInv, TypeOK, AccountInv
  <2>2. \A c \in Conns : pc[c] # "closed" => pc[Main] = "accepting"
    BY DEF AccountInv
  <2>3. CASE Listen
    <3>1. /\ idle = <<>> /\ total_spawned = 0 /\ total_recycled = 0
          /\ \A c \in Conns : isolate[c] = None
      BY <2>3 DEF Listen, AccountInv, ServerInv, TypeOK
    <3>2. /\ Len(idle') = MaxIdle /\ next_isolate' = next_isolate + MaxIdle
      <4>1. Len(idle) = 0
        BY <3>1
      <4> QED BY <2>1, <2>3, <4>1, WarmFacts DEF Listen, ServerInv, TypeOK
    <3>3. total_spawned' = MaxIdle /\ total_recycled' = 0 /\ isolate' = isolate
      BY <2>1, <2>3, <3>1 DEF Listen, Pool!Warm
    <3>4. Held' = {}
      BY <3>1, <3>3 DEF Held
    <3>5. Cardinality(Held') = 0
      BY <3>4, FS_EmptySet
    <3>6. pc'[Main] = "accepting"
      BY <2>1, <2>3 DEF Listen, Main
    <3>7. next_isolate >= 1
      BY <2>1 DEF ServerInv, TypeOK, Pool!PoolTypeOK
    <3> QED BY <2>1, <3>2, <3>3, <3>5, <3>6, <3>7 DEF AccountInv, PoolAccounts
  <2>4. ASSUME NEW c \in Conns, SpawnIsolate(c) PROVE AccountInv'
    <3>1. PICK iso \in Pool!Isolates :
            Pool!Spawn(iso) /\ isolate' = [isolate EXCEPT ![c] = iso]
      BY <2>4 DEF SpawnIsolate
    <3>2. isolate[c] = None /\ pc[Main] = "accepting" /\ pc'[Main] = pc[Main]
      BY <2>1, <2>2, <2>4, ServerAssumption DEF SpawnIsolate, ServerInv, TypeOK, Main
    <3>3. Cardinality(Held') = Cardinality(Held) + 1
      BY <3>1, <3>2, SpawnHolds
    <3>4. total_spawned' = total_spawned + 1 /\ total_recycled' = total_recycled
      BY <3>1 DEF Pool!Spawn, Pool!CountSpawn
    <3>5. \/ Len(idle') = Len(idle) - 1 /\ next_isolate' = next_isolate
          \/ Len(idle') = Len(idle) /\ next_isolate' = next_isolate + 1
      <4>1. CASE idle # <<>> /\ idle' = Pool!PopIdle /\ UNCHANGED next_isolate
        BY <4>1, PopIdleFacts DEF ServerInv, TypeOK, Pool!PoolTypeOK
      <4>2. CASE next_isolate' = Pool!IdsAfter(1) /\ UNCHANGED idle
        BY <4>2 DEF Pool!IdsAfter
      <4> QED BY <3>1, <4>1, <4>2 DEF Pool!Spawn
    <3>6. /\ Len(idle) <= MaxIdle
          /\ total_spawned = MaxIdle + total_recycled + Cardinality(Held)
          /\ next_isolate - 1 >= Len(idle) + Cardinality(Held)
      BY <3>2 DEF AccountInv, PoolAccounts
    <3>7. /\ Len(idle') <= MaxIdle
          /\ total_spawned' = MaxIdle + total_recycled' + Cardinality(Held')
          /\ next_isolate' - 1 >= Len(idle') + Cardinality(Held')
          /\ total_spawned' \in Nat /\ total_recycled' \in Nat
      <4>1. Len(idle') \in Int /\ next_isolate' \in Int /\ Cardinality(Held') \in Int
        BY <2>1, <3>3, <3>5
      <4>2. Len(idle') <= MaxIdle
        BY <2>1, <3>5, <3>6, <4>1
      <4>3. total_spawned' = MaxIdle + total_recycled' + Cardinality(Held')
        BY <2>1, <3>3, <3>4, <3>6, <4>1
      <4>4. next_isolate' - 1 >= Len(idle') + Cardinality(Held')
        <5>1. PICK l \in Int, k \in Int, h \in Int, g \in Int, n \in Int, m \in Int :
                /\ l = Len(idle) /\ k = Len(idle')
                /\ h = Cardinality(Held) /\ g = Cardinality(Held')
                /\ n = next_isolate /\ m = next_isolate'
          <6>1. Len(idle) \in Int /\ Cardinality(Held) \in Int /\ next_isolate \in Int
            BY <2>1
          <6> QED BY <4>1, <6>1, Zenon
        <5>2. /\ g = h + 1 /\ n - 1 >= l + h
              /\ (k = l - 1 /\ m = n) \/ (k = l /\ m = n + 1)
          BY <5>1, <3>3, <3>5, <3>6
        <5>3. m - 1 >= k + g
          BY <5>2
        <5> QED BY <5>1, <5>3
      <4> QED BY <2>1, <3>4, <4>2, <4>3, <4>4
    <3> QED BY <3>2, <3>7 DEF AccountInv, PoolAccounts
  <2>5. ASSUME NEW c \in Conns, RecycleIsolate(c) PROVE AccountInv'
    <3>1. isolate[c] # None /\ pc[Main] = "accepting" /\ pc'[Main] = pc[Main]
      BY <2>1, <2>2, <2>5, ServerAssumption DEF RecycleIsolate, ServerInv, TypeOK, Main
    <3>2. Cardinality(Held') = Cardinality(Held) - 1
      BY <3>1, <2>5, RecycleReturns DEF RecycleIsolate
    <3>3. /\ total_recycled' = total_recycled + 1
          /\ UNCHANGED <<total_spawned, next_isolate>>
          /\ idle' = IF Pool!HasRoom THEN Append(idle, isolate[c]) ELSE idle
      BY <2>5 DEF RecycleIsolate, Pool!Recycle
    <3>4. Len(idle') <= MaxIdle /\ Len(idle') \in {Len(idle), Len(idle) + 1}
      <4>1. isolate[c] \in Nat /\ idle \in Seq(Nat)
        BY <2>1, <3>1 DEF ServerInv, TypeOK, Pool!PoolTypeOK
      <4>2. Len(Append(idle, isolate[c])) = Len(idle) + 1
        BY <4>1, AppendProperties
      <4> QED BY <2>1, <3>3, <4>2 DEF Pool!HasRoom, AccountInv, PoolAccounts
    <3>5. /\ Len(idle) <= MaxIdle
          /\ total_spawned = MaxIdle + total_recycled + Cardinality(Held)
          /\ next_isolate - 1 >= Len(idle) + Cardinality(Held)
      BY <3>1 DEF AccountInv, PoolAccounts
    <3>6. /\ Len(idle') <= MaxIdle
          /\ total_spawned' = MaxIdle + total_recycled' + Cardinality(Held')
          /\ next_isolate' - 1 >= Len(idle') + Cardinality(Held')
          /\ total_spawned' \in Nat /\ total_recycled' \in Nat
      BY <2>1, <3>2, <3>3, <3>4, <3>5
    <3> QED BY <3>1, <3>6 DEF AccountInv, PoolAccounts
  <2>6. ASSUME NEW c \in Conns,
               \/ Accept(c) \/ Close(c) \/ AllocBody(c) \/ CopyBody(c) \/ Reply(c)
               \/ \E path \in Paths : Receive(c, path)
        PROVE  AccountInv'
    <3>1. /\ UNCHANGED <<idle, next_isolate, total_spawned, total_recycled, isolate>>
          /\ \E p \in Phases : pc' = [pc EXCEPT ![c] = p]
      BY <2>6 DEF Accept, Close, AllocBody, CopyBody, Reply, Receive, poolVars, Phases, Pool!Allocate
    <3>2. pc[Main] = "accepting"
      BY <2>2, <2>6 DEF Accept, Close, AllocBody, CopyBody, Reply, Receive
    <3> QED BY <2>1, <3>1, <3>2, AccountsKept
  <2>7. CASE UNCHANGED vars
    <3>1. /\ UNCHANGED <<idle, next_isolate, total_spawned, total_recycled, isolate, pc>>
      BY <2>7 DEF vars, poolVars
    <3>2. Held' = Held
      BY <3>1 DEF Held
    <3> QED BY <3>1, <3>2 DEF AccountInv, PoolAccounts
  <2> QED BY <2>3, <2>4, <2>5, <2>6, <2>7 DEF Next, Handle
<1>3. AccountInv => PoolAccounts
  BY DEF AccountInv
<1> QED BY <1>1, <1>2, <1>3, ServerInvariant, PTL DEF Spec

-----------------------------------------------------------------------------
(* The steps of a connection, as the steps of a lease.                     *)
LEMMA SpawnLends ==
  ASSUME ServerInv, NEW c \in Conns, SpawnIsolate(c)
  PROVE  \E iso \in Pool!Isolates : Lease!Lend(c, iso)
<1>1. PICK iso \in Pool!Isolates :
        Pool!Spawn(iso) /\ isolate' = [isolate EXCEPT ![c] = iso]
  BY DEF SpawnIsolate
<1>2. (\A d \in Conns : isolate[d] # iso) /\ arena' = arena /\ arena[iso] = <<>>
  BY <1>1, SpawnFacts
<1>3. isolate[c] = None
  BY DEF SpawnIsolate, ServerInv, TypeOK
<1> QED BY <1>1, <1>2, <1>3 DEF Lease!Lend

LEMMA AllocPutsInto ==
  ASSUME ServerInv, NEW c \in Conns, AllocBody(c)
  PROVE  \E v \in Routes \cup {"greeting"} : Lease!PutInto(c, v)
<1>1. isolate[c] # None /\ UNCHANGED isolate
  BY DEF AllocBody, ServerInv, TypeOK
<1>2. arena' = [arena EXCEPT ![isolate[c]] = Append(@, Body(request[c]))]
  BY DEF AllocBody, Pool!Allocate
<1>3. Body(request[c]) \in Routes \cup {"greeting"}
  BY DEF Body
<1> QED BY <1>1, <1>2, <1>3 DEF Lease!PutInto

LEMMA RecycleTakesBack ==
  ASSUME ServerInv, NEW c \in Conns, RecycleIsolate(c)
  PROVE  Lease!TakeBack(c)
<1>1. isolate[c] # None
  BY DEF RecycleIsolate, ServerInv, TypeOK
<1> QED BY <1>1 DEF RecycleIsolate, Pool!Recycle, Pool!ResetForReuse, Lease!TakeBack

(* For any number of connections, requests and idle isolates, the pool of  *)
(* isolate.rs under the requests of server.rs implements IsolateLease:     *)
(* each step of the server is a step of a lease or leaves isolates and     *)
(* arenas alone.                                                           *)
THEOREM PoolRefinesLease == Spec => PoolImplementsLease
<1>1. Init => Lease!LeaseInit
  BY DEF Init, Pool!PoolInit, Lease!LeaseInit
<1>2. ServerInv /\ [Next]_vars => [Lease!LeaseNext]_<<isolate, arena>>
  <2> SUFFICES ASSUME ServerInv, [Next]_vars
               PROVE  Lease!LeaseNext \/ UNCHANGED <<isolate, arena>>
    OBVIOUS
  <2>1. CASE \E c \in Conns : SpawnIsolate(c) \/ AllocBody(c) \/ RecycleIsolate(c)
    BY <2>1, SpawnLends, AllocPutsInto, RecycleTakesBack DEF Lease!LeaseNext
  <2>2. CASE Listen
    BY <2>2 DEF Listen, Pool!Warm
  <2>3. CASE \E c \in Conns : Accept(c) \/ Close(c) \/ CopyBody(c) \/ Reply(c)
    BY <2>3 DEF Accept, Close, CopyBody, Reply, poolVars
  <2>4. CASE \E c \in Conns, path \in Paths : Receive(c, path)
    BY <2>4 DEF Receive, poolVars
  <2>5. CASE UNCHANGED vars
    BY <2>5 DEF vars, poolVars
  <2> QED BY <2>1, <2>2, <2>3, <2>4, <2>5 DEF Next, Handle
<1> QED BY <1>1, <1>2, ServerInvariant, PTL DEF Spec, PoolImplementsLease, Lease!LeaseSpec

-----------------------------------------------------------------------------
(* The arena.                                                              *)

(* No two chunks overlap: each was free when it was added.                 *)
ChunksApart ==
  \A i, j \in 1 .. Len(chunks) :
    i # j => End(chunks[i]) <= chunks[j].addr \/ End(chunks[j]) <= chunks[i].addr

(* Each live region is in a chunk before the active one, or in the active  *)
(* one below the bump pointer.                                             *)
InChunk(r, c) == c.addr <= r.addr /\ r.addr + r.size <= End(c)

BelowPointer(r) == Last.addr <= r.addr /\ r.addr + r.size <= current

Behind ==
  \A k \in 1 .. Len(live) :
    \/ \E i \in 1 .. Len(chunks) - 1 : InChunk(live[k], chunks[i])
    \/ BelowPointer(live[k])

LiveApart ==
  \A j, k \in 1 .. Len(live) : j # k => Apart(live[j], live[k])

(* The inductive invariant.  LiveDisjoint is not inductive without Behind, *)
(* which says that what Fit returns is above all that it returned before.  *)
ArenaInv == ArenaTypeOK /\ BumpExact /\ ChunksApart /\ Behind /\ LiveApart

-----------------------------------------------------------------------------
(* What the types say of the elements of the two sequences.                *)
LEMMA Elements ==
  ASSUME ArenaTypeOK
  PROVE  /\ Len(chunks) \in Nat \ {0}
         /\ \A i \in 1 .. Len(chunks) :
              chunks[i].addr \in Nat /\ chunks[i].len \in Nat /\ End(chunks[i]) \in Nat
         /\ Last.addr \in Nat /\ Last.len \in Nat /\ End(Last) \in Nat
         /\ Len(live) \in Nat
         /\ \A k \in 1 .. Len(live) : live[k].addr \in Nat /\ live[k].size \in Nat
<1>1. chunks \in Seq(Chunks) /\ chunks # <<>> /\ live \in Seq(Regions)
  BY DEF ArenaTypeOK
<1>2. Len(chunks) \in Nat \ {0} /\ chunks \in [1 .. Len(chunks) -> Chunks]
  BY <1>1, EmptySeq, LenProperties
<1>3. Len(live) \in Nat /\ live \in [1 .. Len(live) -> Regions]
  BY <1>1, LenProperties
<1>4. \A i \in 1 .. Len(chunks) :
        chunks[i].addr \in Nat /\ chunks[i].len \in Nat /\ End(chunks[i]) \in Nat
  <2> SUFFICES ASSUME NEW i \in 1 .. Len(chunks)
               PROVE  chunks[i].addr \in Nat /\ chunks[i].len \in Nat /\ End(chunks[i]) \in Nat
    OBVIOUS
  <2>1. chunks[i] \in Chunks
    BY <1>2
  <2> QED BY <2>1 DEF Chunks, End
<1>5. Len(chunks) \in 1 .. Len(chunks)
  BY <1>2
<1>6. \A k \in 1 .. Len(live) : live[k].addr \in Nat /\ live[k].size \in Nat
  <2> SUFFICES ASSUME NEW k \in 1 .. Len(live)
               PROVE  live[k].addr \in Nat /\ live[k].size \in Nat
    OBVIOUS
  <2>1. live[k] \in Regions
    BY <1>3
  <2> QED BY <2>1 DEF Regions
<1> QED BY <1>2, <1>3, <1>4, <1>5, <1>6 DEF Last

(* Rounding up to a power of two goes up, and by less than the alignment.  *)
LEMMA AlignUpBounds ==
  ASSUME NEW addr \in Nat, NEW align \in Alignments
  PROVE  /\ AlignUp(addr, align) \in Nat
         /\ addr <= AlignUp(addr, align)
         /\ AlignUp(addr, align) < addr + align
<1>1. CASE align = 1 BY <1>1 DEF AlignUp
<1>2. CASE align = 2 BY <1>2 DEF AlignUp
<1>3. CASE align = 4 BY <1>3 DEF AlignUp
<1>4. CASE align = 8 BY <1>4 DEF AlignUp
<1>5. CASE align = 16 BY <1>5 DEF AlignUp
<1>6. CASE align = 32 BY <1>6 DEF AlignUp
<1>7. CASE align = 64 BY <1>7 DEF AlignUp
<1> QED BY <1>1, <1>2, <1>3, <1>4, <1>5, <1>6, <1>7 DEF Alignments

(* A value that takes space takes as much as its alignment at least.       *)
LEMMA SizeCoversAlignment ==
  ASSUME NEW l \in Layouts, l.size > 0
  PROVE  l.align <= l.size
<1>1. l.size \in Nat /\ l.align \in Alignments /\ l.size % l.align = 0
  BY ArenaAssumption
<1> DEFINE s == l.size
           a == l.align
<1>2. s \in Nat /\ s > 0 /\ a \in Alignments /\ s % a = 0
  BY <1>1
<1> SUFFICES a <= s
  OBVIOUS
<1> HIDE DEF s, a
<1>3. CASE a = 1 BY <1>2, <1>3
<1>4. CASE a = 2 BY <1>2, <1>4
<1>5. CASE a = 4 BY <1>2, <1>5
<1>6. CASE a = 8 BY <1>2, <1>6
<1>7. CASE a = 16 BY <1>2, <1>7
<1>8. CASE a = 32 BY <1>2, <1>8
<1>9. CASE a = 64 BY <1>2, <1>9
<1> QED BY <1>2, <1>3, <1>4, <1>5, <1>6, <1>7, <1>8, <1>9 DEF Alignments

(* What alloc_raw computes for the layout under way.                       *)
LEMMA RoundFacts ==
  ASSUME ArenaTypeOK, layout # NoLayout
  PROVE  /\ layout \in Layouts /\ layout.size \in Nat /\ layout.align \in Nat
         /\ Aligned \in Nat /\ current <= Aligned
         /\ Aligned < current + layout.align
         /\ TotalNeeded \in Nat
         /\ TotalNeeded = (Aligned - current) + layout.size
         /\ NewSize \in Nat /\ next_chunk_size <= NewSize /\ TotalNeeded <= NewSize
<1>1. /\ layout \in Layouts /\ layout.size \in Nat /\ layout.align \in Alignments
      /\ current \in Nat /\ next_chunk_size \in Nat
  BY ArenaAssumption DEF ArenaTypeOK
<1>2. layout.align \in Nat
  BY <1>1 DEF Alignments
<1>3. Aligned \in Nat /\ current <= Aligned /\ Aligned < current + layout.align
  BY <1>1, AlignUpBounds DEF Aligned
<1>4. TotalNeeded \in Nat /\ TotalNeeded = (Aligned - current) + layout.size
  BY <1>1, <1>3 DEF TotalNeeded
<1> QED BY <1>1, <1>2, <1>3, <1>4 DEF NewSize, Max2

-----------------------------------------------------------------------------
(* The state after new.                                                    *)
LEMMA InitArenaInv == ArenaInit => ArenaInv
<1> SUFFICES ASSUME ArenaInit PROVE ArenaInv
  OBVIOUS
<1>1. PICK b \in Addresses : chunks = << [addr |-> b, len |-> InitialSize] >> /\ current = b
  BY DEF ArenaInit
<1>2. b \in Nat /\ InitialSize \in Nat
  BY ArenaAssumption
<1>3. ArenaTypeOK
  BY <1>1, <1>2 DEF ArenaInit, ArenaTypeOK, Chunks
<1>4. BumpExact
  BY <1>1, <1>2 DEF ArenaInit, BumpExact, Last, End
<1>5. ChunksApart
  BY <1>1 DEF ChunksApart
<1>6. Behind /\ LiveApart
  BY DEF ArenaInit, Behind, LiveApart
<1> QED BY <1>3, <1>4, <1>5, <1>6 DEF ArenaInv

(* The arithmetic of Fit: lo and hi bound the active chunk, a is aligned.  *)
LEMMA BumpArithmetic ==
  ASSUME NEW lo \in Nat, NEW hi \in Nat, NEW p \in Nat, NEW rem \in Nat,
         NEW a \in Nat, NEW size \in Nat,
         lo <= p, p + rem = hi, p <= a, (a - p) + size <= rem
  PROVE  /\ lo <= a /\ a + size <= hi /\ lo <= a + size
         /\ (a + size) + (rem - ((a - p) + size)) = hi
OBVIOUS

(* The order of addresses over two steps.                                  *)
LEMMA LeqTransitive ==
  ASSUME NEW x \in Nat, NEW y \in Nat, NEW z \in Nat, x <= y, y <= z
  PROVE  x <= z
OBVIOUS

(* An allocation that fits: the region lies above every earlier one.       *)
LEMMA FitRegion ==
  ASSUME ArenaInv, Fit
  PROVE  LET r == [addr |-> Aligned, size |-> layout.size]
         IN  /\ r \in Regions
             /\ live' = Append(live, r)
             /\ \A k \in 1 .. Len(live) : Apart(r, live[k])
             /\ Last.addr <= r.addr /\ r.addr + r.size = current' /\ current' <= End(Last)
<1> DEFINE r == [addr |-> Aligned, size |-> layout.size]
<1>1. /\ ArenaTypeOK /\ layout.size \in Nat /\ Aligned \in Nat /\ current <= Aligned
      /\ TotalNeeded = (Aligned - current) + layout.size /\ TotalNeeded <= remaining
  BY RoundFacts DEF ArenaInv, Fit
<1>2. r \in Regions /\ live' = Append(live, r)
  BY <1>1 DEF Fit, Regions
<1>3. /\ Len(chunks) \in Nat \ {0}
      /\ \A i \in 1 .. Len(chunks) : chunks[i].addr \in Nat /\ End(chunks[i]) \in Nat
      /\ \A k \in 1 .. Len(live) : live[k].addr \in Nat /\ live[k].size \in Nat
      /\ Last.addr \in Nat /\ End(Last) \in Nat
  BY <1>1, Elements
<1>4. /\ current \in Nat /\ remaining \in Nat
      /\ current >= Last.addr /\ current + remaining = End(Last)
  BY <1>1 DEF ArenaTypeOK, ArenaInv, BumpExact
<1>5. Last.addr <= r.addr /\ r.addr + r.size = current' /\ current' <= End(Last)
  <2>1. r.addr = Aligned /\ r.size = layout.size /\ current' = Aligned + layout.size
    BY DEF Fit
  <2>2. Last.addr \in Nat /\ End(Last) \in Nat
    BY <1>3
  <2>3. (Aligned - current) + layout.size <= remaining
    BY <1>1
  <2>4. Last.addr <= Aligned /\ Aligned + layout.size <= End(Last)
    BY <1>1, <1>4, <2>2, <2>3, BumpArithmetic
  <2> QED BY <2>1, <2>4
<1>6. ASSUME NEW k \in 1 .. Len(live)
      PROVE  Apart(r, live[k])
  <2>1. live[k].addr \in Nat /\ live[k].size \in Nat
    BY <1>3
  <2>2. CASE BelowPointer(live[k])
    <3>1. live[k].addr + live[k].size <= current /\ live[k].addr + live[k].size \in Nat
      BY <2>1, <2>2 DEF BelowPointer
    <3>2. live[k].addr + live[k].size <= Aligned
      BY <1>1, <1>4, <3>1, LeqTransitive
    <3> QED BY <3>2 DEF Apart
  <2>3. ASSUME NEW i \in 1 .. Len(chunks) - 1, InChunk(live[k], chunks[i])
        PROVE  Apart(r, live[k])
    <3>1. i \in 1 .. Len(chunks) /\ Len(chunks) \in 1 .. Len(chunks) /\ i # Len(chunks)
      BY <1>3
    <3>2. End(chunks[i]) <= Last.addr \/ End(Last) <= chunks[i].addr
      BY <3>1 DEF ArenaInv, ChunksApart, Last
    <3>3. chunks[i].addr \in Nat /\ End(chunks[i]) \in Nat
      BY <1>3, <3>1
    <3>4. /\ chunks[i].addr <= live[k].addr
          /\ live[k].addr + live[k].size <= End(chunks[i])
      BY <2>3 DEF InChunk
    <3>5. r.addr \in Nat /\ r.addr + r.size \in Nat /\ r.addr + r.size <= End(Last)
      BY <1>1, <1>5
    <3> HIDE DEF r
    <3>6. r.addr + r.size <= live[k].addr \/ live[k].addr + live[k].size <= r.addr
      <4>1. Last.addr \in Nat /\ End(Last) \in Nat /\ Last.addr <= r.addr
        BY <1>3, <1>5
      <4>2. live[k].addr + live[k].size \in Nat
        BY <2>1
      <4>3. CASE End(chunks[i]) <= Last.addr
        <5>1. live[k].addr + live[k].size <= Last.addr
          BY <3>3, <3>4, <4>1, <4>2, <4>3, LeqTransitive
        <5> QED BY <3>5, <4>1, <4>2, <5>1, LeqTransitive
      <4>4. CASE End(Last) <= chunks[i].addr
        <5>1. r.addr + r.size <= chunks[i].addr
          BY <3>3, <3>5, <4>1, <4>2, <4>4, LeqTransitive
        <5>2. r.addr + r.size <= live[k].addr
          BY <2>1, <3>3, <3>4, <3>5, <5>1, LeqTransitive
        <5> QED BY <5>2
      <4> QED BY <3>2, <4>3, <4>4
    <3> QED BY <3>6 DEF Apart
  <2> QED BY <2>2, <2>3 DEF ArenaInv, Behind
<1> QED BY <1>2, <1>5, <1>6

-----------------------------------------------------------------------------
(* Each call and each round of alloc_raw preserves the invariant.          *)
LEMMA AllocKeepsInv ==
  ASSUME ArenaInv, NEW l \in Layouts, Alloc(l)
  PROVE  ArenaInv'
<1>1. UNCHANGED <<chunks, current, remaining, next_chunk_size, live>>
  BY DEF Alloc
<1>2. ArenaTypeOK'
  BY <1>1 DEF ArenaInv, ArenaTypeOK, Alloc
<1>3. BumpExact' /\ ChunksApart' /\ Behind' /\ LiveApart'
  BY <1>1 DEF ArenaInv, BumpExact, Last, End, ChunksApart, Behind, BelowPointer, InChunk, LiveApart, Apart
<1> QED BY <1>2, <1>3 DEF ArenaInv

(* A chunk the cap does not admit panics; what is allocated stays.         *)
LEMMA PanicKeepsInv ==
  ASSUME ArenaInv, Panic
  PROVE  ArenaInv'
<1>1. UNCHANGED <<chunks, current, remaining, next_chunk_size, live, growths>>
  BY DEF Panic
<1>2. ArenaTypeOK'
  BY <1>1 DEF ArenaInv, ArenaTypeOK, Panic
<1>3. BumpExact' /\ ChunksApart' /\ Behind' /\ LiveApart'
  BY <1>1 DEF ArenaInv, BumpExact, Last, End, ChunksApart, Behind, BelowPointer, InChunk, LiveApart, Apart
<1> QED BY <1>2, <1>3 DEF ArenaInv

(* reset keeps the first chunk and no region.                              *)
LEMMA ResetKeepsInv ==
  ASSUME ArenaInv, Reset
  PROVE  ArenaInv'
<1>1. First \in Chunks /\ First.addr \in Nat /\ First.len \in Nat
  <2>1. ArenaTypeOK
    BY DEF ArenaInv
  <2>2. chunks \in Seq(Chunks) /\ Len(chunks) \in Nat \ {0}
    BY <2>1, Elements DEF ArenaTypeOK
  <2>3. chunks[1] \in Chunks
    BY <2>2
  <2> QED BY <2>3 DEF First, Chunks
<1>2. chunks' = << First >> /\ current' = First.addr /\ remaining' = First.len /\ live' = <<>>
  BY DEF Reset
<1>3. ArenaTypeOK'
  BY <1>1, <1>2 DEF ArenaInv, ArenaTypeOK, Reset
<1>4. BumpExact'
  BY <1>1, <1>2 DEF BumpExact, Last, End
<1>5. ChunksApart' /\ Behind' /\ LiveApart'
  BY <1>2 DEF ChunksApart, Behind, LiveApart
<1> QED BY <1>3, <1>4, <1>5 DEF ArenaInv

(* A region is cut from the current chunk.                                 *)
LEMMA FitKeepsInv ==
  ASSUME ArenaInv, Fit
  PROVE  ArenaInv'
<1> DEFINE r == [addr |-> Aligned, size |-> layout.size]
<1>1. /\ r \in Regions /\ live' = Append(live, r)
      /\ \A k \in 1 .. Len(live) : Apart(r, live[k])
      /\ Last.addr <= r.addr /\ r.addr + r.size = current' /\ current' <= End(Last)
  BY FitRegion
<1>2. ArenaTypeOK /\ BumpExact /\ ChunksApart /\ Behind /\ LiveApart
  BY DEF ArenaInv
<1>3. /\ chunks' = chunks /\ Last' = Last /\ End(Last)' = End(Last)
      /\ remaining' = remaining - TotalNeeded /\ current' = Aligned + layout.size
      /\ next_chunk_size' = next_chunk_size /\ layout' = NoLayout /\ growths' = growths
  BY DEF Fit, Last, End
<1>4. /\ layout.size \in Nat /\ Aligned \in Nat /\ current <= Aligned
      /\ TotalNeeded \in Nat /\ TotalNeeded = (Aligned - current) + layout.size
      /\ TotalNeeded <= remaining
  BY <1>2, RoundFacts DEF Fit
<1>5. /\ Last.addr \in Nat /\ End(Last) \in Nat /\ Len(live) \in Nat
      /\ \A k \in 1 .. Len(live) : live[k].addr \in Nat /\ live[k].size \in Nat
  BY <1>2, Elements
<1>6. /\ Len(live') = Len(live) + 1
      /\ \A k \in 1 .. Len(live) : live'[k] = live[k]
      /\ live'[Len(live) + 1] = r
      /\ live' \in Seq(Regions)
  BY <1>1, <1>2 DEF ArenaTypeOK
<1>7. current \in Nat /\ remaining \in Nat
  BY <1>2 DEF ArenaTypeOK
<1>8. ArenaTypeOK'
  <2>1. current' \in Nat /\ remaining' \in Nat
    BY <1>3, <1>4, <1>7
  <2> QED BY <1>2, <1>3, <1>6, <2>1 DEF ArenaTypeOK
<1>9. BumpExact'
  <2>1. current >= Last.addr /\ current + remaining = End(Last)
    BY <1>2 DEF BumpExact
  <2>2. Last.addr \in Nat /\ End(Last) \in Nat
    BY <1>5
  <2>3. (Aligned - current) + layout.size <= remaining
    BY <1>4
  <2>4. /\ Last.addr <= Aligned + layout.size
        /\ (Aligned + layout.size) + (remaining - ((Aligned - current) + layout.size)) = End(Last)
    BY <1>4, <1>7, <2>1, <2>2, <2>3, BumpArithmetic
  <2>5. current' >= Last.addr /\ current' + remaining' = End(Last)
    BY <1>3, <1>4, <2>2, <2>4
  <2> QED BY <1>3, <2>5 DEF BumpExact
<1>10. ChunksApart'
  BY <1>2, <1>3 DEF ChunksApart, End
<1>11. Behind'
  <2> SUFFICES ASSUME NEW k \in 1 .. Len(live')
               PROVE  \/ \E i \in 1 .. Len(chunks) - 1 : InChunk(live'[k], chunks[i])
                      \/ Last.addr <= live'[k].addr /\ live'[k].addr + live'[k].size <= current'
    BY <1>3 DEF Behind, BelowPointer, InChunk, End
  <2>1. CASE k = Len(live) + 1
    <3>1. live'[k] = r /\ r.addr + r.size \in Nat
      BY <1>4, <1>6, <2>1
    <3> QED BY <1>1, <3>1
  <2>2. CASE k \in 1 .. Len(live)
    <3>1. live'[k] = live[k] /\ live[k].addr \in Nat /\ live[k].size \in Nat
      BY <1>5, <1>6, <2>2
    <3>2. current <= current' /\ current' \in Nat
      BY <1>3, <1>4, <1>7
    <3>3. CASE BelowPointer(live[k])
      <4>1. live[k].addr + live[k].size \in Nat /\ live[k].addr + live[k].size <= current
        BY <3>1, <3>3 DEF BelowPointer
      <4>2. live[k].addr + live[k].size <= current'
        BY <1>7, <3>2, <4>1, LeqTransitive
      <4> QED BY <3>1, <3>3, <4>2 DEF BelowPointer
    <3> QED BY <1>2, <2>2, <3>1, <3>3 DEF Behind
  <2> QED BY <1>5, <1>6, <2>1, <2>2
<1>12. LiveApart'
  <2> SUFFICES ASSUME NEW j \in 1 .. Len(live'), NEW k \in 1 .. Len(live'), j # k
               PROVE  Apart(live'[j], live'[k])
    BY DEF LiveApart, Apart
  <2>1. CASE j = Len(live) + 1
    <3>1. k \in 1 .. Len(live)
      BY <1>5, <1>6, <2>1
    <3> QED BY <1>1, <1>6, <2>1, <3>1
  <2>2. CASE k = Len(live) + 1
    <3>1. j \in 1 .. Len(live)
      BY <1>5, <1>6, <2>2
    <3>2. Apart(r, live[j])
      BY <1>1, <3>1
    <3> QED BY <1>6, <2>2, <3>1, <3>2 DEF Apart
  <2>3. CASE j \in 1 .. Len(live) /\ k \in 1 .. Len(live)
    BY <1>2, <1>6, <2>3 DEF LiveApart
  <2> QED BY <1>5, <1>6, <2>1, <2>2, <2>3
<1> QED BY <1>8, <1>9, <1>10, <1>11, <1>12 DEF ArenaInv

(* A new chunk, apart from the others.                                     *)
LEMMA GrowKeepsInv ==
  ASSUME ArenaInv, Grow
  PROVE  ArenaInv'
<1>1. PICK b \in Addresses :
        /\ Free(b, NewSize)
        /\ chunks' = Append(chunks, [addr |-> b, len |-> NewSize])
        /\ current' = b
  BY DEF Grow
<1> DEFINE c == [addr |-> b, len |-> NewSize]
<1>2. ArenaTypeOK /\ BumpExact /\ ChunksApart /\ Behind /\ LiveApart
  BY DEF ArenaInv
<1>3. b \in Nat /\ NewSize \in Nat /\ c \in Chunks
  BY <1>2, ArenaAssumption, RoundFacts DEF Grow, Chunks
<1>4. /\ remaining' = NewSize /\ next_chunk_size' = NewSize * 2
      /\ growths' = growths + 1 /\ layout' = layout /\ live' = live
  BY DEF Grow
<1>5. /\ Len(chunks) \in Nat \ {0}
      /\ \A i \in 1 .. Len(chunks) :
           chunks[i].addr \in Nat /\ chunks[i].len \in Nat /\ End(chunks[i]) \in Nat
      /\ Len(live) \in Nat
      /\ \A k \in 1 .. Len(live) : live[k].addr \in Nat /\ live[k].size \in Nat
  BY <1>2, Elements
<1>6. /\ chunks' \in Seq(Chunks) /\ chunks' # <<>>
      /\ Len(chunks') = Len(chunks) + 1
      /\ \A i \in 1 .. Len(chunks) : chunks'[i] = chunks[i]
      /\ chunks'[Len(chunks) + 1] = c
  BY <1>1, <1>2, <1>3, <1>5 DEF ArenaTypeOK
<1>7. ArenaTypeOK'
  BY <1>1, <1>2, <1>3, <1>4, <1>6 DEF ArenaTypeOK
<1>8. BumpExact'
  <2>1. Last' = c
    BY <1>5, <1>6 DEF Last
  <2> QED BY <1>1, <1>3, <1>4, <2>1 DEF BumpExact, End
<1>9. ChunksApart'
  <2>1. \A i \in 1 .. Len(chunks) : b + NewSize <= chunks[i].addr \/ End(chunks[i]) <= b
    BY <1>1 DEF Free
  <2> SUFFICES ASSUME NEW i \in 1 .. Len(chunks'), NEW j \in 1 .. Len(chunks'), i # j
               PROVE  End(chunks'[i]) <= chunks'[j].addr \/ End(chunks'[j]) <= chunks'[i].addr
    BY DEF ChunksApart, End
  <2>2. CASE i = Len(chunks) + 1
    <3>1. j \in 1 .. Len(chunks)
      BY <1>5, <1>6, <2>2
    <3> QED BY <1>6, <2>1, <2>2, <3>1 DEF End
  <2>3. CASE j = Len(chunks) + 1
    <3>1. i \in 1 .. Len(chunks)
      BY <1>5, <1>6, <2>3
    <3> QED BY <1>6, <2>1, <2>3, <3>1 DEF End
  <2>4. CASE i \in 1 .. Len(chunks) /\ j \in 1 .. Len(chunks)
    BY <1>2, <1>6, <2>4 DEF ChunksApart
  <2> QED BY <1>5, <1>6, <2>2, <2>3, <2>4
<1>10. Behind'
  <2> SUFFICES ASSUME NEW k \in 1 .. Len(live)
               PROVE  \E i \in 1 .. Len(chunks) : InChunk(live[k], chunks'[i])
    BY <1>4, <1>5, <1>6 DEF Behind, InChunk, End
  <2>1. CASE BelowPointer(live[k])
    <3>1. /\ current >= Last.addr /\ current + remaining = End(Last)
          /\ current \in Nat /\ remaining \in Nat
      BY <1>2 DEF BumpExact, ArenaTypeOK
    <3>2. live[k].addr + live[k].size <= End(Last)
      BY <1>5, <2>1, <3>1 DEF BelowPointer
    <3>3. InChunk(live[k], chunks[Len(chunks)])
      BY <2>1, <3>2 DEF BelowPointer, InChunk, Last
    <3>4. Len(chunks) \in 1 .. Len(chunks)
      BY <1>5
    <3> QED BY <1>6, <3>3, <3>4
  <2>2. ASSUME NEW i \in 1 .. Len(chunks) - 1, InChunk(live[k], chunks[i])
        PROVE  \E n \in 1 .. Len(chunks) : InChunk(live[k], chunks'[n])
    <3>1. i \in 1 .. Len(chunks)
      BY <1>5
    <3> QED BY <1>6, <2>2, <3>1
  <2> QED BY <1>2, <2>1, <2>2 DEF Behind
<1>11. LiveApart'
  BY <1>2, <1>4 DEF LiveApart, Apart
<1> QED BY <1>7, <1>8, <1>9, <1>10, <1>11 DEF ArenaInv

(* The types, and live regions apart inside chunks that are apart: the     *)
(* inductive invariant of the arena, for every size and alignment.         *)
THEOREM ArenaInvariant == ArenaSpec => []ArenaInv
<1>1. ArenaInv /\ [ArenaNext]_arenaVars => ArenaInv'
  <2> SUFFICES ASSUME ArenaInv, [ArenaNext]_arenaVars
               PROVE  ArenaInv'
    OBVIOUS
  <2>1. CASE \E l \in Layouts : Alloc(l) BY <2>1, AllocKeepsInv
  <2>2. CASE Fit BY <2>2, FitKeepsInv
  <2>3. CASE Grow BY <2>3, GrowKeepsInv
  <2>4. CASE Panic BY <2>4, PanicKeepsInv
  <2>5. CASE Reset BY <2>5, ResetKeepsInv
  <2>6. CASE UNCHANGED arenaVars
    BY <2>6 DEF arenaVars, ArenaInv, ArenaTypeOK, BumpExact, Last, End, ChunksApart, Behind,
                BelowPointer, InChunk, LiveApart, Apart
  <2> QED BY <2>1, <2>2, <2>3, <2>4, <2>5, <2>6 DEF ArenaNext
<1> QED BY <1>1, InitArenaInv, PTL DEF ArenaSpec

-----------------------------------------------------------------------------
(* The types of the arena's fields (arena.rs 19-28), which no allocation,  *)
(* growth or reset leaves: remaining is never driven below zero.           *)
THEOREM ArenaTypes == ArenaSpec => []ArenaTypeOK
<1>1. ArenaInv => ArenaTypeOK
  BY DEF ArenaInv
<1> QED BY <1>1, ArenaInvariant, PTL

(* alloc_raw and grow keep pointer and remaining bytes in step: the        *)
(* pointer never leaves the active chunk.                                  *)
THEOREM BumpAlwaysExact == ArenaSpec => []BumpExact
<1>1. ArenaInv => BumpExact
  BY DEF ArenaInv
<1> QED BY <1>1, ArenaInvariant, PTL

(* The references that alloc and its kind return until the next reset are  *)
(* to memory of the arena, and no two of them alias.                       *)
THEOREM LiveAlwaysDisjoint == ArenaSpec => []LiveDisjoint
<1>1. ArenaInv => LiveDisjoint
  <2> SUFFICES ASSUME ArenaInv
               PROVE  \A k \in 1 .. Len(live) : InSomeChunk(live[k])
    BY DEF ArenaInv, LiveDisjoint, LiveApart
  <2> SUFFICES ASSUME NEW k \in 1 .. Len(live)
               PROVE  InSomeChunk(live[k])
    OBVIOUS
  <2>1. /\ ArenaTypeOK /\ current \in Nat /\ remaining \in Nat
        /\ current >= Last.addr /\ current + remaining = End(Last)
    BY DEF ArenaInv, BumpExact, ArenaTypeOK
  <2>2. /\ Len(chunks) \in Nat \ {0}
        /\ live[k].addr \in Nat /\ live[k].size \in Nat /\ End(Last) \in Nat
    BY <2>1, Elements
  <2>3. CASE BelowPointer(live[k])
    <3>1. live[k].addr + live[k].size <= End(Last)
      BY <2>1, <2>2, <2>3 DEF BelowPointer
    <3>2. Len(chunks) \in 1 .. Len(chunks)
      BY <2>2
    <3> QED BY <2>3, <3>1, <3>2 DEF BelowPointer, InSomeChunk, Last
  <2>4. ASSUME NEW i \in 1 .. Len(chunks) - 1, InChunk(live[k], chunks[i])
        PROVE  InSomeChunk(live[k])
    <3>1. i \in 1 .. Len(chunks)
      BY <2>2
    <3> QED BY <2>4, <3>1 DEF InChunk, InSomeChunk
  <2> QED BY <2>3, <2>4 DEF ArenaInv, Behind
<1> QED BY <1>1, ArenaInvariant, PTL

-----------------------------------------------------------------------------
(* What the growths for the allocation under way have gained: after the    *)
(* first the chunk has room for the value without its padding, after the   *)
(* second for twice the value.                                             *)
GrowthGain ==
  layout # NoLayout =>
    /\ growths >= 1 => layout.size <= remaining /\ next_chunk_size = 2 * remaining
    /\ growths >= 2 => 2 * layout.size <= remaining

(* Growing makes room for the layout it was called for.                    *)
LEMMA GrowthGainInvariant == ArenaSpec => []GrowthGain
<1>1. ArenaInit => GrowthGain
  BY DEF ArenaInit, GrowthGain
<1>2. ArenaInv /\ GrowthGain /\ [ArenaNext]_arenaVars => GrowthGain'
  <2> SUFFICES ASSUME ArenaInv, GrowthGain, [ArenaNext]_arenaVars
               PROVE  GrowthGain'
    OBVIOUS
  <2>1. ArenaTypeOK
    BY DEF ArenaInv
  <2>2. ASSUME NEW l \in Layouts, Alloc(l)
        PROVE  GrowthGain'
    BY <2>2 DEF Alloc, GrowthGain
  <2>3. CASE Fit \/ Panic
    BY <2>3 DEF Fit, Panic, GrowthGain
  <2>4. CASE Reset
    BY <2>4 DEF Reset, GrowthGain
  <2>5. CASE Grow
    <3>1. /\ layout # NoLayout /\ layout' = layout /\ remaining' = NewSize
          /\ next_chunk_size' = NewSize * 2 /\ growths' = growths + 1
      BY <2>5 DEF Grow
    <3>2. /\ layout.size \in Nat /\ TotalNeeded \in Nat /\ NewSize \in Nat
          /\ Aligned \in Nat /\ current <= Aligned
          /\ TotalNeeded = (Aligned - current) + layout.size
          /\ next_chunk_size <= NewSize /\ TotalNeeded <= NewSize
      BY <2>1, <3>1, RoundFacts
    <3>3. current \in Nat /\ growths \in Nat /\ remaining \in Nat /\ next_chunk_size \in Nat
      BY <2>1 DEF ArenaTypeOK
    <3>4. layout.size <= NewSize
      BY <3>2, <3>3
    <3>5. growths + 1 >= 2 => 2 * layout.size <= NewSize
      <4> SUFFICES ASSUME growths >= 1 PROVE 2 * layout.size <= NewSize
        BY <3>3
      <4>1. layout.size <= remaining /\ next_chunk_size = 2 * remaining
        BY <3>1 DEF GrowthGain
      <4> QED BY <3>2, <3>3, <4>1
    <3> QED BY <3>1, <3>2, <3>4, <3>5 DEF GrowthGain
  <2>6. CASE UNCHANGED arenaVars
    BY <2>6 DEF arenaVars, GrowthGain
  <2> QED BY <2>2, <2>3, <2>4, <2>5, <2>6 DEF ArenaNext
<1> QED BY <1>1, <1>2, ArenaInvariant, PTL DEF ArenaSpec

(* The recursion of alloc_raw (arena.rs 166-171) ends after two growths:   *)
(* the padding is less than the alignment, which is at most the size.      *)
THEOREM NoThirdGrowth == ArenaSpec => []TwoGrowthsSuffice
<1>1. ArenaInv /\ GrowthGain => TwoGrowthsSuffice
  <2> SUFFICES ASSUME ArenaInv, GrowthGain,
                      layout # NoLayout, growths >= 2, layout.size > 0
               PROVE  TotalNeeded <= remaining
    BY DEF TwoGrowthsSuffice
  <2>1. ArenaTypeOK
    BY DEF ArenaInv
  <2>2. /\ layout \in Layouts /\ layout.size \in Nat /\ layout.align \in Nat
        /\ Aligned \in Nat /\ Aligned < current + layout.align
        /\ TotalNeeded = (Aligned - current) + layout.size
    BY <2>1, RoundFacts
  <2>3. layout.align <= layout.size
    BY <2>2, SizeCoversAlignment
  <2>4. 2 * layout.size <= remaining /\ current \in Nat /\ remaining \in Nat
    BY <2>1 DEF GrowthGain, ArenaTypeOK
  <2> QED BY <2>2, <2>3, <2>4
<1> QED BY <1>1, ArenaInvariant, GrowthGainInvariant, PTL

-----------------------------------------------------------------------------
(* grow and reset (arena.rs 112-133, 175-190): each chunk is at least      *)
(* twice the one before, and after a reset the doubling starts anew from   *)
(* the first chunk, whatever the requests before it took.                  *)
THEOREM GrowthAlwaysDoubles == ArenaSpec => []GrowthDoubles
<1>1. ArenaInit => GrowthDoubles
  <2> SUFFICES ASSUME ArenaInit PROVE GrowthDoubles
    OBVIOUS
  <2>1. PICK b \in Addresses : chunks = << [addr |-> b, len |-> InitialSize] >>
    BY DEF ArenaInit
  <2> QED BY <2>1, ArenaAssumption DEF ArenaInit, GrowthDoubles, First, Last
<1>2. ArenaInv /\ GrowthDoubles /\ [ArenaNext]_arenaVars => GrowthDoubles'
  <2> SUFFICES ASSUME ArenaInv, GrowthDoubles, [ArenaNext]_arenaVars
               PROVE  GrowthDoubles'
    OBVIOUS
  <2>1. /\ ArenaTypeOK /\ next_chunk_size \in Nat /\ Len(chunks) \in Nat \ {0}
        /\ Last.len \in Nat /\ InitialSize \in Nat
    BY Elements, ArenaAssumption DEF ArenaInv, ArenaTypeOK
  <2>2. /\ First.len = InitialSize /\ next_chunk_size = 2 * Last.len
        /\ \A i \in 1 .. Len(chunks) - 1 : chunks[i + 1].len >= 2 * chunks[i].len
    BY DEF GrowthDoubles
  <2>3. CASE UNCHANGED <<chunks, next_chunk_size>>
    BY <2>2, <2>3 DEF GrowthDoubles, First, Last
  <2>4. CASE Grow
    <3>1. PICK b \in Addresses : chunks' = Append(chunks, [addr |-> b, len |-> NewSize])
      BY <2>4 DEF Grow
    <3> DEFINE c == [addr |-> b, len |-> NewSize]
    <3>2. NewSize \in Nat /\ next_chunk_size <= NewSize /\ b \in Nat
      BY <2>1, <2>4, RoundFacts, ArenaAssumption DEF Grow
    <3>3. c \in Chunks /\ c.len = NewSize
      BY <3>2 DEF Chunks
    <3>4. chunks \in Seq(Chunks)
      BY <2>1 DEF ArenaTypeOK
    <3> HIDE DEF c
    <3>5. /\ Len(chunks') = Len(chunks) + 1
          /\ \A i \in 1 .. Len(chunks) : chunks'[i] = chunks[i]
          /\ chunks'[Len(chunks) + 1] = c
      BY <2>1, <3>1, <3>3, <3>4 DEF c
    <3>6. Last' = c /\ First' = First
      BY <2>1, <3>5 DEF Last, First
    <3>7. next_chunk_size' = 2 * NewSize
      BY <2>4, <3>2 DEF Grow
    <3>8. \A i \in 1 .. Len(chunks') - 1 : chunks'[i + 1].len >= 2 * chunks'[i].len
      <4> SUFFICES ASSUME NEW i \in 1 .. Len(chunks)
                   PROVE  chunks'[i + 1].len >= 2 * chunks'[i].len
        BY <2>1, <3>5
      <4>1. CASE i = Len(chunks)
        BY <2>1, <2>2, <3>2, <3>3, <3>5, <4>1 DEF Last
      <4>2. CASE i # Len(chunks)
        <5>1. i \in 1 .. Len(chunks) - 1 /\ i + 1 \in 1 .. Len(chunks)
          BY <2>1, <4>2
        <5> QED BY <2>2, <3>5, <5>1
      <4> QED BY <4>1, <4>2
    <3> QED BY <2>2, <3>3, <3>6, <3>7, <3>8 DEF GrowthDoubles
  <2>5. CASE Reset
    <3>1. chunks' = << First >>
      BY <2>5 DEF Reset
    <3>2. First' = First /\ Last' = First
      BY <3>1 DEF First, Last
    <3>3. next_chunk_size' = 2 * InitialSize
      <4>1. next_chunk_size' = IF Len(chunks) > 1 THEN First.len * 2 ELSE next_chunk_size
        BY <2>5 DEF Reset
      <4>2. CASE Len(chunks) > 1
        BY <2>1, <2>2, <4>1, <4>2
      <4>3. CASE Len(chunks) = 1
        BY <2>2, <4>1, <4>3 DEF First, Last
      <4>4. Len(chunks) = 1 \/ Len(chunks) > 1
        <5> DEFINE n == Len(chunks)
        <5>1. n \in Nat \ {0}
          BY <2>1
        <5> HIDE DEF n
        <5>2. n = 1 \/ n > 1
          BY <5>1
        <5> QED BY <5>2 DEF n
      <4> QED BY <4>2, <4>3, <4>4
    <3> QED BY <2>2, <3>1, <3>2, <3>3 DEF GrowthDoubles
  <2> QED BY <2>3, <2>4, <2>5 DEF ArenaNext, Alloc, Fit, Panic, arenaVars
<1> QED BY <1>1, <1>2, ArenaInvariant, PTL DEF ArenaSpec
=============================================================================
