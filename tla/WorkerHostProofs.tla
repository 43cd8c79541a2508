-------------------------- MODULE WorkerHostProofs --------------------------
(***************************************************************************)
(* The host for every set of threads, scripts and handlers, any number of  *)
(* requests and any size of the pools: it runs the registry as specified,  *)
(* a context handles one request at a time, the pools of contexts are      *)
(* never drained, and no response is the reply of two requests.            *)
(***************************************************************************)
EXTENDS WorkerHost, FiniteSetTheorems, SequenceTheorems, TLAPS

-----------------------------------------------------------------------------
(* The registry by itself.                                                 *)

(* What is entered for a hash was made from the script of that hash.       *)
MapServesOwn ==
  \A s \in Scripts :
    runtimes[hash_source[s]] # None => made[runtimes[hash_source[s]]] = s

(* A thread inside a call: its script is set; the runtime it has created   *)
(* is of that script; and if the call began when there was an entry, the   *)
(* entry is still there and the call has not gone past the lookup.         *)
CallOnItsWay(t) ==
  pc[t] # "idle" =>
    /\ source[t] \in Scripts
    /\ pc[t] = "publish" => rt[t] # None /\ made[rt[t]] = source[t]
    /\ entered[t] # None => pc[t] = "lookup" /\ runtimes[Hash(t)] = entered[t]

(* The inductive invariant.                                                *)
RegistryInv ==
  /\ TypeOK
  /\ MapServesOwn
  /\ \A t \in Threads : CallOnItsWay(t)
  /\ ReturnsOwnRuntime

-----------------------------------------------------------------------------
(* Nothing is entered and nobody asks.                                     *)
LEMMA InitRegistry == Init => RegistryInv
  BY RegistryAssumption
  DEF Init, RegistryInv, TypeOK, MapServesOwn, CallOnItsWay, ReturnsOwnRuntime, Hash

(* A call begins: the ghost notes the entry.                               *)
LEMMA CallPreserves ==
  ASSUME RegistryInv, NEW t \in Threads, NEW s \in Scripts, Call(t, s)
  PROVE  RegistryInv'
<1>1. TypeOK'
  BY DEF RegistryInv, TypeOK, Call, mapVars
<1>2. MapServesOwn'
  BY DEF RegistryInv, MapServesOwn, Call, mapVars
<1>3. ASSUME NEW u \in Threads PROVE CallOnItsWay(u)'
  <2>1. CASE u = t
    BY <2>1 DEF RegistryInv, TypeOK, CallOnItsWay, Call, Hash, mapVars
  <2>2. CASE u # t
    BY <2>2 DEF RegistryInv, TypeOK, CallOnItsWay, Call, Hash, mapVars
  <2> QED BY <2>1, <2>2
<1>4. ReturnsOwnRuntime'
  BY DEF RegistryInv, TypeOK, ReturnsOwnRuntime, Call, mapVars
<1> QED BY <1>1, <1>2, <1>3, <1>4 DEF RegistryInv

(* The fast path: the entry of the hash was made from the script.          *)
LEMMA LookupHitPreserves ==
  ASSUME RegistryInv, NEW t \in Threads, LookupHit(t)
  PROVE  RegistryInv'
<1>1. source[t] \in Scripts /\ hash_source[source[t]] \in Hashes
  BY DEF RegistryInv, TypeOK, CallOnItsWay, LookupHit
<1>2. TypeOK'
  BY <1>1 DEF RegistryInv, TypeOK, LookupHit, Return, Hash, mapVars
<1>3. MapServesOwn'
  BY DEF RegistryInv, MapServesOwn, LookupHit, mapVars
<1>4. ASSUME NEW u \in Threads PROVE CallOnItsWay(u)'
  BY DEF RegistryInv, TypeOK, CallOnItsWay, LookupHit, Return, Hash, mapVars
<1>5. made[runtimes[Hash(t)]] = source[t]
  BY <1>1 DEF RegistryInv, MapServesOwn, LookupHit, Hash
<1>6. entered[t] # None => runtimes[Hash(t)] = entered[t]
  BY DEF RegistryInv, CallOnItsWay, LookupHit
<1>7. ReturnsOwnRuntime'
  BY <1>5, <1>6 DEF RegistryInv, TypeOK, ReturnsOwnRuntime, LookupHit, Return, mapVars
<1> QED BY <1>2, <1>3, <1>4, <1>7 DEF RegistryInv

(* Nothing is entered for the hash, so the call began with no entry.       *)
LEMMA LookupMissPreserves ==
  ASSUME RegistryInv, NEW t \in Threads, LookupMiss(t)
  PROVE  RegistryInv'
<1>1. TypeOK'
  BY DEF RegistryInv, TypeOK, LookupMiss, mapVars
<1>2. MapServesOwn'
  BY DEF RegistryInv, MapServesOwn, LookupMiss, mapVars
<1>3. ASSUME NEW u \in Threads PROVE CallOnItsWay(u)'
  BY DEF RegistryInv, TypeOK, CallOnItsWay, LookupMiss, Hash, mapVars
<1>4. ReturnsOwnRuntime'
  BY DEF RegistryInv, TypeOK, ReturnsOwnRuntime, LookupMiss, mapVars
<1> QED BY <1>1, <1>2, <1>3, <1>4 DEF RegistryInv

(* A runtime is made: those made before keep their numbers and scripts.    *)
LEMMA CreatePreserves ==
  ASSUME RegistryInv, NEW t \in Threads, Create(t)
  PROVE  RegistryInv'
<1>1. source[t] \in Scripts
  BY DEF RegistryInv, CallOnItsWay, Create
<1>2. /\ made' \in Seq(Scripts)
      /\ Len(made') = Len(made) + 1
      /\ made'[Len(made) + 1] = source[t]
      /\ \A k \in 1 .. Len(made) : made'[k] = made[k]
  BY <1>1 DEF RegistryInv, TypeOK, Create
<1>3. Len(made) \in Nat
  BY DEF RegistryInv, TypeOK
<1>4. TypeOK'
  BY <1>2, <1>3 DEF RegistryInv, TypeOK, Create, mapVars
<1>5. MapServesOwn'
  <2>1. ASSUME NEW s \in Scripts, runtimes[hash_source[s]] # None
        PROVE  made'[runtimes[hash_source[s]]] = s
    <3>1. runtimes[hash_source[s]] \in 1 .. Len(made)
      BY <2>1 DEF RegistryInv, TypeOK
    <3> QED BY <2>1, <3>1, <1>2 DEF RegistryInv, MapServesOwn
  <2> QED BY <2>1 DEF MapServesOwn, Create, mapVars
<1>6. ASSUME NEW u \in Threads PROVE CallOnItsWay(u)'
  <2>1. CASE u = t
    BY <2>1, <1>1, <1>2, <1>3, RegistryAssumption
    DEF RegistryInv, TypeOK, CallOnItsWay, Create, Hash, mapVars
  <2>2. CASE u # t
    <3>1. rt[u] # None => rt[u] \in 1 .. Len(made)
      BY DEF RegistryInv, TypeOK
    <3> QED BY <2>2, <3>1, <1>2 DEF RegistryInv, TypeOK, CallOnItsWay, Create, Hash, mapVars
  <2> QED BY <2>1, <2>2
<1>7. ReturnsOwnRuntime'
  <2>1. ASSUME NEW u \in Threads, answer[u] # None PROVE made'[answer[u]] = made[answer[u]]
    BY <2>1, <1>2 DEF RegistryInv, TypeOK
  <2> QED BY <2>1 DEF RegistryInv, TypeOK, ReturnsOwnRuntime, Create, mapVars
<1> QED BY <1>4, <1>5, <1>6, <1>7 DEF RegistryInv

(* The call returns the error.                                             *)
LEMMA CreateFailsPreserves ==
  ASSUME RegistryInv, NEW t \in Threads, CreateFails(t)
  PROVE  RegistryInv'
<1>1. TypeOK'
  BY DEF RegistryInv, TypeOK, CreateFails, Return, mapVars
<1>2. MapServesOwn'
  BY DEF RegistryInv, MapServesOwn, CreateFails, mapVars
<1>3. ASSUME NEW u \in Threads PROVE CallOnItsWay(u)'
  BY DEF RegistryInv, TypeOK, CallOnItsWay, CreateFails, Return, Hash, mapVars
<1>4. entered[t] = None
  BY DEF RegistryInv, CallOnItsWay, CreateFails
<1>5. ReturnsOwnRuntime'
  BY <1>4 DEF RegistryInv, TypeOK, ReturnsOwnRuntime, CreateFails, Return, mapVars
<1> QED BY <1>1, <1>2, <1>3, <1>5 DEF RegistryInv

(* The vacant hash of the script gets the runtime of the script; as the    *)
(* hash is injective no other script finds it there, and an entry that is  *)
(* there already stays.                                                    *)
LEMMA PublishPreserves ==
  ASSUME RegistryInv, NEW t \in Threads, Publish(t)
  PROVE  RegistryInv'
<1>1. /\ source[t] \in Scripts
      /\ Hash(t) \in Hashes
      /\ rt[t] \in 1 .. Len(made)
      /\ made[rt[t]] = source[t]
      /\ entered[t] = None
  BY DEF RegistryInv, TypeOK, CallOnItsWay, Publish, Hash
<1>2. /\ runtimes' \in [Hashes -> (1 .. Len(made)) \cup {None}]
      /\ \A h \in Hashes : runtimes[h] # None => runtimes'[h] = runtimes[h]
      /\ \A h \in Hashes : h # Hash(t) => runtimes'[h] = runtimes[h]
      /\ runtimes[Hash(t)] = None => runtimes'[Hash(t)] = rt[t]
  BY <1>1 DEF RegistryInv, TypeOK, Publish
<1>3. TypeOK'
  BY <1>1, <1>2 DEF RegistryInv, TypeOK, Publish, Return
<1>4. MapServesOwn'
  <2>1. ASSUME NEW s \in Scripts, runtimes'[hash_source[s]] # None
        PROVE  made[runtimes'[hash_source[s]]] = s
    <3>1. hash_source[s] \in Hashes
      BY DEF RegistryInv, TypeOK
    <3>2. CASE runtimes[hash_source[s]] # None
      BY <3>1, <3>2, <1>2 DEF RegistryInv, MapServesOwn
    <3>3. CASE runtimes[hash_source[s]] = None
      <4>1. hash_source[s] = Hash(t)
        BY <2>1, <3>1, <3>3, <1>2
      <4>2. s = source[t]
        BY <4>1, <1>1 DEF RegistryInv, TypeOK, Injective, Hash
      <4> QED BY <4>1, <4>2, <3>3, <1>1, <1>2
    <3> QED BY <3>2, <3>3
  <2> QED BY <2>1 DEF MapServesOwn, Publish
<1>5. ASSUME NEW u \in Threads PROVE CallOnItsWay(u)'
  <2>1. CASE u = t
    BY <2>1 DEF RegistryInv, TypeOK, CallOnItsWay, Publish, Return
  <2>2. CASE u # t
    <3>1. pc[u] # "idle" => Hash(u) \in Hashes
      BY DEF RegistryInv, TypeOK, CallOnItsWay, Hash
    <3>2. Hash(u)' = Hash(u)
      BY DEF Hash, Publish
    <3>3. pc'[u] = pc[u] /\ rt'[u] = rt[u]
      BY <2>2 DEF RegistryInv, TypeOK, Publish, Return
    <3> QED BY <3>1, <3>2, <3>3, <1>2 DEF RegistryInv, CallOnItsWay, Publish
  <2> QED BY <2>1, <2>2
<1>6. ReturnsOwnRuntime'
  BY <1>1 DEF RegistryInv, TypeOK, ReturnsOwnRuntime, Publish, Return
<1> QED BY <1>3, <1>4, <1>5, <1>6 DEF RegistryInv

-----------------------------------------------------------------------------
(* The types, the map that serves each hash its own script, and the calls  *)
(* on their way: the invariant of get_or_create of registry.rs.            *)
THEOREM RegistryInvariant == Spec => []RegistryInv
<1>1. RegistryInv /\ [Next]_vars => RegistryInv'
  <2> SUFFICES ASSUME RegistryInv, [Next]_vars
               PROVE  RegistryInv'
    OBVIOUS
  <2>1. CASE \E t \in Threads : Work(t)
    BY <2>1, LookupHitPreserves, LookupMissPreserves, CreatePreserves,
       CreateFailsPreserves, PublishPreserves DEF Work
  <2>2. CASE \E t \in Threads, s \in Scripts : Call(t, s)
    BY <2>2, CallPreserves
  <2>3. CASE UNCHANGED vars
    BY <2>3 DEF vars, mapVars, RegistryInv, TypeOK, MapServesOwn, CallOnItsWay,
                ReturnsOwnRuntime, Hash
  <2> QED BY <2>1, <2>2, <2>3 DEF Next, Finished
<1> QED BY <1>1, InitRegistry, PTL DEF Spec

(* Isolation of Workers and sharing: get_or_create returns a runtime made  *)
(* from the script of the call, and the one that was entered when the call *)
(* began, whatever other threads do between its critical sections.         *)
THEOREM AlwaysOwnRuntime == Spec => []ReturnsOwnRuntime
<1>1. RegistryInv => ReturnsOwnRuntime
  BY DEF RegistryInv
<1> QED BY <1>1, RegistryInvariant, PTL

-----------------------------------------------------------------------------
(* The threads whose call may still make a runtime. Each runtime that is   *)
(* made, and each of these, is of a call of its own.                       *)
MayMake == {t \in Threads : pc[t] \in {"lookup", "create"}}

CallsCover == Len(made) + Cardinality(MayMake) <= calls /\ calls <= MaxCalls

(* Each step keeps what is made, and may be, within the calls.             *)
LEMMA NextCover == RegistryInv /\ CallsCover /\ [Next]_vars => CallsCover'
<1> SUFFICES ASSUME RegistryInv, CallsCover, [Next]_vars PROVE CallsCover'
  OBVIOUS
<1> USE RegistryAssumption
<1>1. /\ pc \in [Threads -> {"idle", "lookup", "create", "publish"}]
      /\ made \in Seq(Scripts) /\ calls \in Nat
      /\ \A t \in Threads : pc[t] # "idle" => source[t] \in Scripts
  BY DEF RegistryInv, TypeOK, CallOnItsWay
<1>2. IsFiniteSet(MayMake) /\ IsFiniteSet(MayMake')
  BY FS_Subset DEF MayMake
<1>3. PICK c \in Nat, d \in Nat, l \in Nat :
        c = Cardinality(MayMake) /\ d = Cardinality(MayMake') /\ l = Len(made)
  BY <1>1, <1>2, FS_CardinalityType
<1>4. l + c <= calls /\ calls <= MaxCalls
  BY <1>3 DEF CallsCover
<1>5. ASSUME NEW k \in Nat, k = Len(made'), k + d <= calls', calls' <= MaxCalls PROVE CallsCover'
  BY <1>3, <1>5 DEF CallsCover
<1>6. ASSUME NEW t \in Threads, NEW s \in Scripts, Call(t, s) PROVE CallsCover'
  <2>1. MayMake' = MayMake \cup {t} /\ t \notin MayMake
    BY <1>1, <1>6 DEF MayMake, Call
  <2>2. d = c + 1
    BY <1>2, <1>3, <2>1, FS_AddElement
  <2>3. calls' = calls + 1 /\ calls < MaxCalls /\ made' = made
    BY <1>6 DEF Call
  <2> QED
    BY <1>1, <1>3, <1>4, <1>5, <2>2, <2>3
<1>7. ASSUME NEW t \in Threads, LookupHit(t) \/ CreateFails(t) PROVE CallsCover'
  <2>1. MayMake' = MayMake \ {t} /\ t \in MayMake
    BY <1>1, <1>7 DEF MayMake, LookupHit, CreateFails, Return
  <2>2. d = c - 1
    BY <1>2, <1>3, <2>1, FS_RemoveElement
  <2>3. calls' = calls /\ made' = made
    BY <1>7 DEF LookupHit, CreateFails
  <2> QED
    BY <1>1, <1>3, <1>4, <1>5, <2>2, <2>3
<1>8. ASSUME NEW t \in Threads, Create(t) PROVE CallsCover'
  <2>1. MayMake' = MayMake \ {t} /\ t \in MayMake
    BY <1>1, <1>8 DEF MayMake, Create
  <2>2. d = c - 1
    BY <1>2, <1>3, <2>1, FS_RemoveElement
  <2>3. calls' = calls /\ made' = Append(made, source[t]) /\ source[t] \in Scripts
    BY <1>1, <1>8 DEF Create
  <2>4. Len(made') = l + 1
    BY <1>1, <1>3, <2>3
  <2> QED
    BY <1>1, <1>3, <1>4, <1>5, <2>2, <2>3, <2>4
<1>9. ASSUME MayMake' = MayMake, UNCHANGED <<made, calls>> PROVE CallsCover'
  BY <1>9 DEF CallsCover
<1>10. ASSUME NEW t \in Threads, LookupMiss(t) \/ Publish(t) PROVE CallsCover'
  <2>1. MayMake' = MayMake
    BY <1>1, <1>10 DEF MayMake, LookupMiss, Publish, Return
  <2> QED
    BY <1>9, <1>10, <2>1 DEF LookupMiss, Publish
<1>11. CASE UNCHANGED vars
  BY <1>9, <1>11 DEF vars, MayMake
<1> QED
  BY <1>6, <1>7, <1>8, <1>10, <1>11 DEF Next, Work, Finished

(* No more runtimes are made than calls, so the numbers 1 .. MaxCalls that *)
(* name them are enough.                                                   *)
THEOREM CallsAlwaysCover == Spec => []CallsCover
<1>1. Init => CallsCover
  <2> SUFFICES ASSUME Init PROVE CallsCover
    OBVIOUS
  <2>1. MayMake = {} /\ Len(made) = 0 /\ calls = 0
    BY DEF Init, MayMake
  <2> QED
    BY <2>1, FS_EmptySet, RegistryAssumption DEF CallsCover
<1> QED
  BY <1>1, NextCover, RegistryInvariant, PTL DEF Spec

-----------------------------------------------------------------------------
(* Responses, the promises that carry them, and the globals of a context.  *)
Responses == [request : Nat, status : Nat]
Pending == [response : Responses, hops : Nat]
Context == [resolved : Responses \cup {None}, deferred : Seq(Pending)]

(* The requests whose responses the promises of a sequence carry; each     *)
(* carries another's.                                                      *)
Makers(promises) == {promises[i].response.request : i \in DOMAIN promises}
Distinct(promises) ==
  \A i, j \in DOMAIN promises :
    promises[i].response.request = promises[j].response.request => i = j

(* No promise carries nothing.                                             *)
LEMMA MakersOfNone == Makers(<<>>) = {} /\ Distinct(<<>>) /\ <<>> \in Seq(Pending)
BY DEF Makers, Distinct

(* One queue behind another: promises of different requests stay so.       *)
LEMMA MakersOfJoined ==
  ASSUME NEW a \in Seq(Pending), NEW b \in Seq(Pending)
  PROVE  /\ a \o b \in Seq(Pending) /\ Makers(a \o b) = Makers(a) \cup Makers(b)
         /\ Distinct(a) /\ Distinct(b) /\ Makers(a) \cap Makers(b) = {} => Distinct(a \o b)
<1>1. PICK l, n, c : l = Len(a) /\ n = Len(b) /\ c = a \o b
  OBVIOUS
<1>2. /\ c \in Seq(Pending) /\ l \in Nat /\ n \in Nat
      /\ DOMAIN a = 1 .. l /\ DOMAIN b = 1 .. n /\ DOMAIN c = 1 .. l + n
  BY <1>1
<1>3. \A i \in 1 .. l : c[i] = a[i]
  BY <1>1
<1>4. \A i \in 1 .. n : c[l + i] = b[i]
  BY <1>1
<1>5. /\ \A i \in DOMAIN a : i \in DOMAIN c /\ c[i] = a[i]
      /\ \A i \in DOMAIN b : l + i \in DOMAIN c /\ c[l + i] = b[i]
  BY <1>2, <1>3, <1>4
<1>6. ASSUME NEW i \in DOMAIN c, i \notin DOMAIN a PROVE i - l \in DOMAIN b /\ i = l + (i - l)
  BY <1>2, <1>6
<1>7. Makers(c) = Makers(a) \cup Makers(b)
  BY <1>5, <1>6 DEF Makers
<1>8. ASSUME Distinct(a), Distinct(b), Makers(a) \cap Makers(b) = {},
             NEW i \in DOMAIN c, NEW j \in DOMAIN c,
             c[i].response.request = c[j].response.request
      PROVE  i = j
  <2>1. \/ i \in DOMAIN a /\ c[i] = a[i]
        \/ i - l \in DOMAIN b /\ i = l + (i - l) /\ c[i] = b[i - l]
    BY <1>5, <1>6
  <2>2. \/ j \in DOMAIN a /\ c[j] = a[j]
        \/ j - l \in DOMAIN b /\ j = l + (j - l) /\ c[j] = b[j - l]
    BY <1>5, <1>6
  <2>3. /\ \A k \in DOMAIN a : a[k].response.request \in Makers(a)
        /\ \A k \in DOMAIN b : b[k].response.request \in Makers(b)
    BY DEF Makers
  <2>4. /\ \A k, q \in DOMAIN a : a[k].response.request = a[q].response.request => k = q
        /\ \A k, q \in DOMAIN b : b[k].response.request = b[q].response.request => k = q
    BY <1>8 DEF Distinct
  <2>5. ~(i \in DOMAIN a /\ c[i] = a[i] /\ j - l \in DOMAIN b /\ c[j] = b[j - l])
    BY <1>8, <2>3
  <2>6. ~(j \in DOMAIN a /\ c[j] = a[j] /\ i - l \in DOMAIN b /\ c[i] = b[i - l])
    BY <1>8, <2>3
  <2> QED
    BY <1>8, <2>1, <2>2, <2>4, <2>5, <2>6
<1> QED
  BY <1>1, <1>2, <1>7, <1>8 DEF Distinct

(* A promise more, at the end.                                             *)
LEMMA MakersOfAppended ==
  ASSUME NEW a \in Seq(Pending), NEW p \in Pending
  PROVE  /\ Append(a, p) \in Seq(Pending)
         /\ Makers(Append(a, p)) = Makers(a) \cup {p.response.request}
         /\ Distinct(a) /\ p.response.request \notin Makers(a) => Distinct(Append(a, p))
<1>0. <<p>> \in Seq(Pending)
  OBVIOUS
<1>1. PICK b \in Seq(Pending) : b = <<p>>
  BY <1>0
<1>2. Makers(b) = {p.response.request} /\ Distinct(b)
  BY <1>1 DEF Makers, Distinct
<1>3. Append(a, p) = a \o b
  BY <1>1, AppendIsConcat
<1> QED
  BY <1>2, <1>3, MakersOfJoined

(* The first promise and the others.                                       *)
LEMMA MakersOfTail ==
  ASSUME NEW a \in Seq(Pending), a # <<>>
  PROVE  /\ Head(a) \in Pending /\ Tail(a) \in Seq(Pending)
         /\ Makers(a) = {Head(a).response.request} \cup Makers(Tail(a))
         /\ Distinct(a) => Distinct(Tail(a)) /\ Head(a).response.request \notin Makers(Tail(a))
<1>1. PICK h, b : h = Head(a) /\ b = Tail(a)
  OBVIOUS
<1>2. /\ h \in Pending /\ b \in Seq(Pending) /\ Len(a) \in Nat /\ Len(a) > 0
      /\ h = a[1] /\ Len(b) = Len(a) - 1 /\ DOMAIN b = 1 .. Len(b)
      /\ DOMAIN a = 1 .. Len(a) /\ \A i \in 1 .. Len(b) : b[i] = a[i + 1]
  BY <1>1
<1>3. /\ 1 \in DOMAIN a /\ \A i \in DOMAIN b : i + 1 \in DOMAIN a /\ i + 1 # 1 /\ b[i] = a[i + 1]
      /\ \A i \in DOMAIN a : i = 1 \/ \E j \in DOMAIN b : i = j + 1
  <2>1. \A i \in DOMAIN a : i = 1 \/ (i - 1 \in DOMAIN b /\ i = (i - 1) + 1)
    BY <1>2
  <2> QED
    BY <1>2, <2>1
<1>4. Makers(a) = {h.response.request} \cup Makers(b)
  <2>1. \A i \in DOMAIN a : a[i].response.request \in {h.response.request} \cup Makers(b)
    BY <1>2, <1>3 DEF Makers
  <2>2. h.response.request \in Makers(a) /\ Makers(b) \subseteq Makers(a)
    BY <1>2, <1>3 DEF Makers
  <2>3. Makers(a) \subseteq {h.response.request} \cup Makers(b)
    BY <2>1 DEF Makers
  <2> QED
    BY <2>2, <2>3
<1>5. ASSUME Distinct(a) PROVE Distinct(b) /\ h.response.request \notin Makers(b)
  <2>1. \A i, j \in DOMAIN a : a[i].response.request = a[j].response.request => i = j
    BY <1>5 DEF Distinct
  <2>2. ASSUME NEW i \in DOMAIN b PROVE b[i].response.request # h.response.request
    BY <1>2, <1>3, <2>1, <2>2
  <2>3. ASSUME NEW i \in DOMAIN b, NEW j \in DOMAIN b,
               b[i].response.request = b[j].response.request
        PROVE  i = j
    <3>1. i + 1 = j + 1
      BY <1>3, <2>1, <2>3
    <3> QED
      BY <1>2, <2>3, <3>1
  <2> QED
    BY <2>2, <2>3 DEF Makers, Distinct
<1> QED
  BY <1>1, <1>2, <1>4, <1>5

-----------------------------------------------------------------------------
(* A context and the queue of its runtime, whose promises are apart.       *)
Machine == [resolved : Responses \cup {None}, deferred : Seq(Pending), jobs : Seq(Pending)]
Apart(ctx) ==
  /\ Distinct(ctx.jobs) /\ Distinct(ctx.deferred)
  /\ Makers(ctx.jobs) \cap Makers(ctx.deferred) = {}

(* After the call of a handler for request m the promises are apart, those *)
(* in the queue were there or are settled now, and the global holds no     *)
(* earlier request's response.                                             *)
Moved(before, m, after) ==
  /\ after \in Machine /\ Apart(after)
  /\ Makers(after.jobs) \subseteq Makers(before.jobs) \cup Makers(before.deferred) \cup {m}
  /\ Makers(after.deferred) \subseteq Makers(before.deferred) \cup {m}
  /\ after.resolved # None =>
       /\ after.resolved.request = m
       /\ m \notin Makers(after.jobs) \cup Makers(after.deferred)

(* The call of a handler for a request that made nothing yet.              *)
LEMMA Dispatched ==
  ASSUME NEW before \in Machine, NEW m \in Nat, NEW h \in Handlers, Apart(before),
         m \notin Makers(before.jobs) \cup Makers(before.deferred),
         NEW after, after = S!J!ResetAndDispatch(before, m, h)
  PROVE  Moved(before, m, after)
<1> USE DEF Machine, Apart, Moved
<1>1. PICK reset : reset = [before EXCEPT !.resolved = None]
  OBVIOUS
<1>2. /\ reset \in Machine /\ reset.resolved = None
      /\ reset.jobs = before.jobs /\ reset.deferred = before.deferred
  BY <1>1
<1>3. PICK called : called = S!J!Called(reset, h)
  OBVIOUS
<1>4. /\ called \in Machine /\ called.resolved = None
      /\ Distinct(called.jobs) /\ Distinct(called.deferred)
      /\ Makers(called.jobs) \cap Makers(called.deferred) = {}
      /\ Makers(called.jobs) \subseteq Makers(before.jobs) \cup Makers(before.deferred)
      /\ Makers(called.deferred) \subseteq Makers(before.deferred)
  <2>1. CASE h.settles
    <3>1. /\ called.resolved = None /\ called.jobs = before.jobs \o before.deferred
          /\ called.deferred = <<>>
          /\ called = [resolved |-> None, jobs |-> called.jobs, deferred |-> called.deferred]
      BY <1>2, <1>3, <2>1 DEF S!J!Called
    <3> QED
      BY <3>1, MakersOfNone, MakersOfJoined
  <2>2. CASE ~h.settles
    BY <1>2, <1>3, <2>2 DEF S!J!Called
  <2> QED
    BY <2>1, <2>2
<1>5. PICK p : p = S!J!Listening(m, h)
  OBVIOUS
<1>6. /\ p \in Pending /\ p.response.request = m
      /\ S!J!ResponseOf(m, h) \in Responses /\ S!J!ResponseOf(m, h).request = m
  BY <1>5, HandlersAssumption DEF S!J!Listening, S!J!ResponseOf, S!J!PolyfillStatus, Pending, Responses
<1>7. CASE h.returns = "exception"
  <2>1. after = called
    BY <1>1, <1>3, <1>7 DEF S!J!ResetAndDispatch, S!J!Dispatch
  <2> QED
    BY <1>4, <2>1
<1>8. CASE h.returns = "promise"
  <2>1. /\ after.jobs = Append(called.jobs, p) /\ after.deferred = called.deferred
        /\ after.resolved = None
        /\ after = [resolved |-> None, jobs |-> after.jobs, deferred |-> after.deferred]
    BY <1>1, <1>3, <1>4, <1>5, <1>8
       DEF S!J!ResetAndDispatch, S!J!Dispatch, S!J!IsPromise, S!J!Then
  <2>2. called.jobs \in Seq(Pending) /\ called.deferred \in Seq(Pending)
    BY <1>4
  <2>3. m \notin Makers(called.jobs) /\ m \notin Makers(called.deferred)
    BY <1>4
  <2>4. PICK q \in Seq(Pending) : q = called.jobs
    BY <2>2
  <2>5. /\ Append(q, p) \in Seq(Pending) /\ Distinct(Append(q, p))
        /\ Makers(Append(q, p)) = Makers(q) \cup {m}
    BY <1>4, <1>6, <2>3, <2>4, MakersOfAppended
  <2>6. after.resolved = None /\ after.deferred = called.deferred /\ after.jobs = Append(q, p)
    BY <2>1, <2>4
  <2>7. after \in Machine
    BY <2>1, <2>2, <2>5, <2>6
  <2> QED
    BY <1>4, <2>3, <2>4, <2>5, <2>6, <2>7
<1>9. CASE h.returns = "deferred"
  <2>1. /\ after.deferred = Append(called.deferred, p) /\ after.jobs = called.jobs
        /\ after.resolved = None
        /\ after = [resolved |-> None, jobs |-> after.jobs, deferred |-> after.deferred]
    BY <1>1, <1>3, <1>4, <1>5, <1>9
       DEF S!J!ResetAndDispatch, S!J!Dispatch, S!J!IsPromise, S!J!Then
  <2>2. called.jobs \in Seq(Pending) /\ called.deferred \in Seq(Pending)
    BY <1>4
  <2>3. m \notin Makers(called.jobs) /\ m \notin Makers(called.deferred)
    BY <1>4
  <2>4. PICK q \in Seq(Pending) : q = called.deferred
    BY <2>2
  <2>5. /\ Append(q, p) \in Seq(Pending) /\ Distinct(Append(q, p))
        /\ Makers(Append(q, p)) = Makers(q) \cup {m}
    BY <1>4, <1>6, <2>3, <2>4, MakersOfAppended
  <2>6. after.resolved = None /\ after.jobs = called.jobs /\ after.deferred = Append(q, p)
    BY <2>1, <2>4
  <2>7. after \in Machine
    BY <2>1, <2>2, <2>5, <2>6
  <2> QED
    BY <1>4, <2>3, <2>4, <2>5, <2>6, <2>7
<1>10. CASE h.returns = "rejected"
  <2>1. after = called
    BY <1>1, <1>3, <1>4, <1>10
       DEF S!J!ResetAndDispatch, S!J!Dispatch, S!J!IsPromise, S!J!Then, S!J!Called
  <2> QED
    BY <1>4, <2>1
<1>11. CASE h.returns \notin {"exception", "promise", "deferred", "rejected"}
  <2>1. /\ after.jobs = called.jobs /\ after.deferred = called.deferred
        /\ after.resolved \in {None, S!J!ResponseOf(m, h)}
        /\ after = [resolved |-> after.resolved, jobs |-> after.jobs, deferred |-> after.deferred]
    BY <1>1, <1>3, <1>4, <1>11
       DEF S!J!ResetAndDispatch, S!J!Dispatch, S!J!IsPromise
  <2> QED
    BY <1>4, <1>6, <2>1
<1> QED
  BY <1>7, <1>8, <1>9, <1>10, <1>11

(* A job runs: its promise settles, or goes to the end of the queue.       *)
Settled(before, after) ==
  /\ after.resolved \in Responses \cup {None} /\ after.jobs \in Seq(Pending)
  /\ Distinct(after.jobs) /\ Makers(after.jobs) \subseteq Makers(before.jobs)
  /\ \/ after.resolved = before.resolved
     \/ /\ after.resolved \in Responses
        /\ after.resolved.request = Head(before.jobs).response.request
        /\ after.resolved.request \notin Makers(after.jobs)

(* execute_pending_job on the queue of a runtime.                          *)
LEMMA JobRun ==
  ASSUME NEW before \in [resolved : Responses \cup {None}, jobs : Seq(Pending)],
         before.jobs # <<>>, Distinct(before.jobs),
         NEW after, after = S!J!RunJob(before)
  PROVE  Settled(before, after)
<1> USE DEF Settled
<1>1. PICK job, rest : job = Head(before.jobs) /\ rest = Tail(before.jobs)
  OBVIOUS
<1>2. /\ job \in Pending /\ rest \in Seq(Pending) /\ Distinct(rest)
      /\ Makers(before.jobs) = {job.response.request} \cup Makers(rest)
      /\ job.response.request \notin Makers(rest)
  BY <1>1, MakersOfTail
<1>3. CASE job.hops = 0
  <2>1. after.jobs = rest /\ after.resolved = job.response
    BY <1>1, <1>3 DEF S!J!RunJob
  <2> QED
    BY <1>1, <1>2, <2>1 DEF Pending
<1>4. CASE job.hops # 0
  <2>1. PICK again : again = [job EXCEPT !.hops = @ - 1]
    OBVIOUS
  <2>2. job.hops - 1 \in Nat
    BY <1>2, <1>4 DEF Pending
  <2>3. again \in Pending /\ again.response.request = job.response.request
    BY <1>2, <2>1, <2>2 DEF Pending
  <2>4. after.jobs = Append(rest, again) /\ after.resolved = before.resolved
    BY <1>1, <1>4, <2>1 DEF S!J!RunJob
  <2> QED
    BY <1>2, <2>3, <2>4, MakersOfAppended
<1> QED
  BY <1>3, <1>4

-----------------------------------------------------------------------------
Steps == {"away", "asking", "acquiring", "creating", "acquired", "failed",
          "draining", "releasing"}

RequestRecords == [runtime : Runtimes, context : Nat, handler : Handlers,
                   reply : Responses \cup {None, S!J!Fresh}]

HostTypes ==
  /\ contexts \in [Runtimes -> Seq(Context)]
  /\ idle \in [Runtimes -> Seq(Nat)]
  /\ jobs \in [Runtimes -> Seq(Pending)]
  /\ locked \in [Runtimes -> Threads \cup {None}]
  /\ at \in [Threads -> Steps]
  /\ request \in [Threads -> Nat]
  /\ requests \in Seq(RequestRecords)

(* Threads that handle a request, those whose handler was not called yet,  *)
(* and those inside ctx.with.                                              *)
Handling == {t \in Threads : at[t] \notin {"away", "asking"}}
Early == {t \in Threads : at[t] \in {"acquiring", "creating", "acquired"}}
Inside == {t \in Threads : at[t] \in {"failed", "draining"}}

(* A thread handles a request of its own, on a runtime that was made, and  *)
(* has the lock of the runtime while it is inside.                         *)
OwnRequests ==
  /\ \A q \in DOMAIN requests : requests[q].runtime <= Len(made)
  /\ \A t \in Handling : request[t] \in DOMAIN requests
  /\ \A t, u \in Handling : request[t] = request[u] => t = u
  /\ \A t \in Inside : locked[S!Runtime(t)] = t
  /\ \A t \in Early : requests[request[t]].reply = None

(* The contexts in use and the idle ones were created, and are different.  *)
ContextsApart ==
  /\ \A t \in InUse : S!ContextOf(t) \in DOMAIN contexts[S!Runtime(t)]
  /\ \A r \in Runtimes : \A k \in DOMAIN idle[r] : idle[r][k] \in DOMAIN contexts[r]
  /\ ContextExclusive

HostInv == HostTypes /\ OwnRequests /\ ContextsApart

-----------------------------------------------------------------------------
(* Request m made a response in context c of runtime r.                    *)
MadeIn(m, r, c) ==
  /\ m \in DOMAIN requests /\ \A t \in Early : request[t] # m
  /\ requests[m].runtime = r /\ requests[m].context = c

Deferred(r, c) == contexts[r][c].deferred
Draining == {t \in Threads : at[t] = "draining"}
Resolved(t) == contexts[S!Runtime(t)][S!ContextOf(t)].resolved
Live(t, m) == Resolved(t) # None /\ Resolved(t).request = m
Given(q, m) == Replied(q) /\ requests[q].reply.request = m

(* Whatever carries a response was made in the context it is in.           *)
CarriedWhereMade ==
  \A r \in Runtimes :
    /\ \A m \in Makers(jobs[r]) :
         MadeIn(m, r, requests[m].context) /\ requests[m].context \in DOMAIN contexts[r]
    /\ \A c \in DOMAIN contexts[r] :
         /\ \A m \in Makers(Deferred(r, c)) : MadeIn(m, r, c)
         /\ contexts[r][c].resolved # None => MadeIn(contexts[r][c].resolved.request, r, c)

(* A response is in one promise, or in the global the thread that drains   *)
(* the jobs will read, or in one reply.                                    *)
CarriedOnce ==
  /\ \A r \in Runtimes :
       /\ Distinct(jobs[r])
       /\ \A c \in DOMAIN contexts[r] :
            Distinct(Deferred(r, c)) /\ Makers(jobs[r]) \cap Makers(Deferred(r, c)) = {}
  /\ \A t \in Draining : \A m \in Nat : Live(t, m) =>
       m \notin Makers(jobs[S!Runtime(t)]) \cup Makers(Deferred(S!Runtime(t), S!ContextOf(t)))
  /\ \A q \in Requests, m \in Nat : Given(q, m) =>
       /\ MadeIn(m, requests[q].runtime, requests[q].context)
       /\ \A r \in Runtimes :
            /\ m \notin Makers(jobs[r])
            /\ \A c \in DOMAIN contexts[r] : m \notin Makers(Deferred(r, c))
       /\ \A t \in Draining : ~Live(t, m)
       /\ \A p \in Requests : Given(p, m) => p = q

ReplyInv == CarriedWhereMade /\ CarriedOnce

-----------------------------------------------------------------------------
(* The runtimes that were made, and the next one, have a number.           *)
LEMMA MadeNumbered ==
  ASSUME RegistryInv, CallsCover
  PROVE  /\ Len(made) \in Nat /\ \A k \in 1 .. Len(made) : k \in Runtimes
         /\ \A t \in Threads : Create(t) => Len(made) + 1 \in Runtimes /\ Len(made') = Len(made) + 1
<1> USE RegistryAssumption
<1>1. IsFiniteSet(MayMake) /\ made \in Seq(Scripts) /\ calls \in Nat
  BY FS_Subset DEF MayMake, RegistryInv, TypeOK
<1>2. PICK c \in Nat, l \in Nat : c = Cardinality(MayMake) /\ l = Len(made)
  BY <1>1, FS_CardinalityType
<1>3. l + c <= MaxCalls
  BY <1>1, <1>2 DEF CallsCover
<1>4. ASSUME NEW t \in Threads, Create(t) PROVE l + 1 <= MaxCalls /\ Len(made') = l + 1
  <2>1. t \in MayMake /\ source[t] \in Scripts /\ made' = Append(made, source[t])
    BY <1>4 DEF MayMake, Create, RegistryInv, CallOnItsWay
  <2>2. c # 0
    BY <1>1, <1>2, <2>1, FS_EmptySet
  <2> QED
    BY <1>1, <1>2, <1>3, <2>1, <2>2
<1> QED
  BY <1>2, <1>3, <1>4 DEF Runtimes

(* What a thread that handles a request works on.                          *)
LEMMA WorksOn ==
  ASSUME HostTypes, OwnRequests, NEW t \in Handling
  PROVE  /\ request[t] \in DOMAIN requests
         /\ S!Runtime(t) \in Runtimes /\ S!ContextOf(t) \in Nat /\ S!Handler(t) \in Handlers
         /\ contexts[S!Runtime(t)] \in Seq(Context) /\ jobs[S!Runtime(t)] \in Seq(Pending)
         /\ idle[S!Runtime(t)] \in Seq(Nat)
<1>1. request[t] \in DOMAIN requests
  BY DEF OwnRequests
<1>2. requests[request[t]] \in RequestRecords
  BY <1>1 DEF HostTypes
<1>3. S!Runtime(t) \in Runtimes /\ S!ContextOf(t) \in Nat /\ S!Handler(t) \in Handlers
  BY <1>2 DEF RequestRecords, S!Runtime, S!ContextOf, S!Handler
<1> QED
  BY <1>1, <1>3 DEF HostTypes

(* A step that takes no context and gives none back.                       *)
LEMMA ApartKept ==
  ASSUME ContextsApart, InUse' \subseteq InUse, idle' = idle,
         \A t \in InUse' : S!Runtime(t)' = S!Runtime(t) /\ S!ContextOf(t)' = S!ContextOf(t),
         \A r \in Runtimes : DOMAIN contexts'[r] = DOMAIN contexts[r],
         \A t \in InUse : S!Runtime(t) \in Runtimes
  PROVE  ContextsApart'
BY DEF ContextsApart, ContextExclusive, Runtimes

(* The steps of the registry that make no runtime.                         *)
LEMMA RegistrySteps ==
  ASSUME HostInv, made' = made, UNCHANGED sharedVars
  PROVE  HostInv'
<1>1. UNCHANGED <<contexts, idle, jobs, locked, at, request, requests>>
  BY DEF sharedVars
<1>2. HostTypes'
  BY <1>1 DEF HostInv, HostTypes
<1>3. OwnRequests'
  BY <1>1 DEF HostInv, OwnRequests, Handling, Inside, Early, S!Runtime
<1>4. ContextsApart'
  BY <1>1 DEF HostInv, ContextsApart, ContextExclusive, InUse, S!Runtime, S!ContextOf, Runtimes
<1> QED
  BY <1>2, <1>3, <1>4 DEF HostInv

(* A runtime is made with its pool; no request is on it yet.               *)
LEMMA NewRuntime ==
  ASSUME HostInv, RegistryInv, CallsCover, NEW t \in Threads, Create(t), S!New(Len(made) + 1)
  PROVE  HostInv'
<1> USE PoolAssumption
<1> DEFINE r == Len(made) + 1
<1>1. r \in Runtimes /\ Len(made') = r /\ Len(made) \in Nat
  BY MadeNumbered
<1>2. PICK pool, stack : pool = [k \in 1 .. MaxPool |-> S!Globals] /\ stack = [k \in 1 .. MaxPool |-> k]
  OBVIOUS
<1>3. S!Globals \in Context
  BY MakersOfNone DEF S!Globals, Context
<1>4. pool \in Seq(Context) /\ DOMAIN pool = 1 .. MaxPool
  BY <1>2, <1>3
<1>5. stack \in Seq(Nat) /\ DOMAIN stack = 1 .. MaxPool /\ \A k \in DOMAIN stack : stack[k] = k
  BY <1>2
<1>6. /\ contexts' = [contexts EXCEPT ![r] = pool] /\ idle' = [idle EXCEPT ![r] = stack]
      /\ UNCHANGED <<jobs, locked, at, request, requests>>
  BY <1>2 DEF S!New
<1> HIDE DEF r
<1>7. HostTypes'
  BY <1>1, <1>4, <1>5, <1>6 DEF HostInv, HostTypes
<1>8. OwnRequests'
  <2>1. \A q \in DOMAIN requests : requests[q].runtime <= r
    <3>1. \A q \in DOMAIN requests : requests[q] \in RequestRecords
      BY DEF HostInv, HostTypes
    <3>2. \A q \in DOMAIN requests : requests[q].runtime \in Int /\ requests[q].runtime <= Len(made)
      BY <3>1 DEF RequestRecords, HostInv, OwnRequests, Runtimes
    <3> QED
      BY <1>1, <3>2 DEF r
  <2> QED
    BY <1>1, <1>6, <2>1 DEF HostInv, OwnRequests, Handling, Inside, Early, S!Runtime
<1>9. \A u \in InUse : S!Runtime(u) \in Runtimes /\ S!Runtime(u) # r
  <2> SUFFICES ASSUME NEW u \in InUse PROVE S!Runtime(u) \in Runtimes /\ S!Runtime(u) # r
    OBVIOUS
  <2>1. u \in Handling
    BY DEF InUse, Handling
  <2>2. S!Runtime(u) \in Runtimes /\ S!Runtime(u) <= Len(made)
    BY <2>1, WorksOn DEF HostInv, OwnRequests, S!Runtime
  <2> QED
    BY <1>1, <2>2 DEF r, Runtimes
<1>10. /\ InUse' = InUse
       /\ \A u \in Threads : S!Runtime(u)' = S!Runtime(u) /\ S!ContextOf(u)' = S!ContextOf(u)
  BY <1>6 DEF InUse, S!Runtime, S!ContextOf
<1>11. /\ contexts'[r] = pool /\ idle'[r] = stack
       /\ \A q \in Runtimes \ {r} : contexts'[q] = contexts[q] /\ idle'[q] = idle[q]
  BY <1>1, <1>6 DEF HostInv, HostTypes
<1>12. InUse \subseteq Threads
  BY DEF InUse
<1>13. ContextsApart'
  <2>1. \A u \in InUse' : S!ContextOf(u)' \in DOMAIN contexts'[S!Runtime(u)']
    BY <1>9, <1>10, <1>11, <1>12 DEF HostInv, ContextsApart
  <2>2. \A q \in Runtimes : \A k \in DOMAIN idle'[q] : idle'[q][k] \in DOMAIN contexts'[q]
    BY <1>4, <1>5, <1>11 DEF HostInv, ContextsApart
  <2>3. ContextExclusive'
    <3>1. \A u, v \in InUse' : u # v =>
            <<S!Runtime(u), S!ContextOf(u)>>' # <<S!Runtime(v), S!ContextOf(v)>>'
      BY <1>10, <1>12 DEF HostInv, ContextsApart, ContextExclusive
    <3>2. \A u \in InUse' : \A k \in DOMAIN idle'[S!Runtime(u)'] :
            idle'[S!Runtime(u)'][k] # S!ContextOf(u)'
      BY <1>9, <1>10, <1>11, <1>12 DEF HostInv, ContextsApart, ContextExclusive
    <3>3. \A q \in Runtimes : \A j, k \in DOMAIN idle'[q] : idle'[q][j] = idle'[q][k] => j = k
      BY <1>5, <1>11 DEF HostInv, ContextsApart, ContextExclusive
    <3> QED
      BY <3>1, <3>2, <3>3 DEF ContextExclusive, Runtimes
  <2> QED
    BY <2>1, <2>2, <2>3 DEF ContextsApart, Runtimes
<1> QED
  BY <1>7, <1>8, <1>13 DEF HostInv

(* A thread is given a script, or an error: it handles no request.         *)
LEMMA AwayOrAsking ==
  ASSUME HostInv, NEW t \in Threads, NEW a \in {"away", "asking"},
         at[t] \in {"away", "asking"}, at' = [at EXCEPT ![t] = a],
         UNCHANGED <<made, contexts, idle, jobs, locked, request, requests>>
  PROVE  HostInv'
<1>1. HostTypes'
  BY DEF HostInv, HostTypes, Steps
<1>2. /\ \A u \in Threads : u # t => at'[u] = at[u]
      /\ at'[t] = a
  BY DEF HostInv, HostTypes
<1>3. Handling' = Handling /\ Inside' = Inside /\ Early' = Early /\ InUse' = InUse
  BY <1>2 DEF Handling, Inside, Early, InUse
<1>4. OwnRequests'
  BY <1>3 DEF HostInv, OwnRequests, S!Runtime
<1>5. ContextsApart'
  BY <1>3 DEF HostInv, ContextsApart, ContextExclusive, S!Runtime, S!ContextOf, Runtimes
<1> QED
  BY <1>1, <1>4, <1>5 DEF HostInv

(* A request is a new one, on the runtime the registry returned.           *)
LEMMA BeginKeeps ==
  ASSUME HostInv, RegistryInv, CallsCover, NEW t \in Threads, NEW h \in Handlers, Handle(t, h)
  PROVE  HostInv'
<1> DEFINE n == Len(requests) + 1
<1>1. PICK rec : rec = [runtime |-> answer[t], context |-> 0, handler |-> h, reply |-> None]
  OBVIOUS
<1>2. answer[t] \in 1 .. Len(made) /\ Len(made) \in Nat
  BY MadeNumbered DEF Handle, RegistryInv, TypeOK
<1>3. rec \in RequestRecords /\ rec.runtime = answer[t] /\ rec.reply = None
  BY <1>1, <1>2, MadeNumbered DEF RequestRecords
<1>4. /\ requests' = Append(requests, rec) /\ request' = [request EXCEPT ![t] = n]
      /\ at' = [at EXCEPT ![t] = "acquiring"] /\ at[t] = "asking"
      /\ UNCHANGED <<contexts, idle, jobs, locked>> /\ UNCHANGED made
  BY <1>1 DEF Handle, S!Begin, vars
<1>5. /\ requests' \in Seq(RequestRecords) /\ n \in Nat /\ n \notin DOMAIN requests
      /\ DOMAIN requests' = DOMAIN requests \cup {n} /\ requests'[n] = rec
      /\ \A q \in DOMAIN requests : requests'[q] = requests[q]
  BY <1>3, <1>4 DEF HostInv, HostTypes
<1> HIDE DEF n
<1>6. /\ \A u \in Threads : u # t => at'[u] = at[u] /\ request'[u] = request[u]
      /\ at'[t] = "acquiring" /\ request'[t] = n
  BY <1>4 DEF HostInv, HostTypes
<1>7. /\ Handling' = Handling \cup {t} /\ t \notin Handling /\ Inside' = Inside
      /\ Early' = Early \cup {t} /\ InUse' = InUse /\ t \notin Early
      /\ Inside \subseteq Handling /\ Early \subseteq Handling /\ InUse \subseteq Handling
      /\ Handling \subseteq Threads
  BY <1>4, <1>6 DEF Handling, Inside, Early, InUse
<1>8. \A u \in Handling : /\ request'[u] = request[u] /\ request[u] \in DOMAIN requests
                          /\ S!Runtime(u)' = S!Runtime(u) /\ S!ContextOf(u)' = S!ContextOf(u)
  BY <1>5, <1>6, <1>7 DEF HostInv, OwnRequests, S!Runtime, S!ContextOf
<1>9. HostTypes'
  BY <1>4, <1>5 DEF HostInv, HostTypes, Steps
<1>10. OwnRequests'
  <2>1. \A q \in DOMAIN requests' : requests'[q].runtime <= Len(made')
    BY <1>2, <1>3, <1>4, <1>5 DEF HostInv, OwnRequests
  <2>2. \A u \in Handling' : request'[u] \in DOMAIN requests'
    BY <1>5, <1>6, <1>7, <1>8
  <2>3. \A u, v \in Handling' : request'[u] = request'[v] => u = v
    BY <1>5, <1>6, <1>7, <1>8 DEF HostInv, OwnRequests
  <2>4. \A u \in Inside' : locked'[S!Runtime(u)'] = u
    BY <1>4, <1>7, <1>8 DEF HostInv, OwnRequests
  <2>5. \A u \in Early' : requests'[request'[u]].reply = None
    BY <1>3, <1>5, <1>6, <1>7, <1>8 DEF HostInv, OwnRequests
  <2> QED
    BY <2>1, <2>2, <2>3, <2>4, <2>5 DEF OwnRequests
<1>11. ContextsApart'
  <2>1. \A u \in InUse : S!Runtime(u) \in Runtimes
    BY <1>7, WorksOn DEF HostInv
  <2> QED
    BY <1>4, <1>7, <1>8, <2>1, ApartKept DEF HostInv
<1> QED
  BY <1>9, <1>10, <1>11 DEF HostInv

-----------------------------------------------------------------------------
(* A step of a thread that handles a request: what all of them leave.      *)
LEMMA OwnKept ==
  ASSUME HostInv, NEW t \in Handling, UNCHANGED made,
         DOMAIN requests' = DOMAIN requests,
         \A q \in DOMAIN requests : requests'[q].runtime = requests[q].runtime,
         \A q \in DOMAIN requests : q # request[t] => requests'[q].reply = requests[q].reply,
         \A u \in Threads : u # t => at'[u] = at[u] /\ request'[u] = request[u],
         at'[t] = "away" \/ request'[t] = request[t],
         at'[t] \in {"acquiring", "creating", "acquired"} =>
           t \in Early /\ requests'[request[t]].reply = requests[request[t]].reply,
         \A u \in Inside : u # t => locked'[S!Runtime(u)] = locked[S!Runtime(u)],
         at'[t] \in {"failed", "draining"} => locked'[S!Runtime(t)] = t
  PROVE  /\ OwnRequests'
         /\ \A u \in Handling' : /\ u \in Handling /\ request'[u] = request[u]
                                 /\ S!Runtime(u)' = S!Runtime(u)
                                 /\ S!ContextOf(u)' = requests'[request[u]].context
<1>1. t \in Threads /\ at[t] \notin {"away", "asking"} /\ Handling \subseteq Threads
  BY DEF Handling
<1>2. \A u \in Handling : request[u] \in DOMAIN requests
  BY DEF HostInv, OwnRequests
<1>3. \A u \in Handling' : u \in Handling /\ request'[u] = request[u]
  <2> SUFFICES ASSUME NEW u \in Handling' PROVE u \in Handling /\ request'[u] = request[u]
    OBVIOUS
  <2> QED
    BY <1>1 DEF Handling
<1>4. \A u \in Handling' : /\ S!Runtime(u)' = S!Runtime(u)
                           /\ S!ContextOf(u)' = requests'[request[u]].context
  BY <1>2, <1>3 DEF S!Runtime, S!ContextOf
<1>5. /\ Inside' \subseteq Handling' /\ Early' \subseteq Handling'
      /\ \A u \in Inside' : u # t => u \in Inside
      /\ \A u \in Early' : u \in Early
      /\ t \in Inside' => at'[t] \in {"failed", "draining"}
      /\ t \in Early' => at'[t] \in {"acquiring", "creating", "acquired"}
  BY <1>1 DEF Inside, Early, Handling
<1>6. \A q \in DOMAIN requests' : requests'[q].runtime <= Len(made')
  BY DEF HostInv, OwnRequests
<1>7. \A u \in Inside' : locked'[S!Runtime(u)'] = u
  BY <1>4, <1>5 DEF HostInv, OwnRequests
<1>8. \A u \in Early' : requests'[request'[u]].reply = None
  <2> SUFFICES ASSUME NEW u \in Early' PROVE requests'[request[u]].reply = None
    BY <1>3, <1>5
  <2>1. u \in Early /\ u \in Handling /\ requests[request[u]].reply = None
    BY <1>3, <1>5 DEF HostInv, OwnRequests
  <2>2. u # t => request[u] # request[t]
    BY <2>1 DEF HostInv, OwnRequests
  <2> QED
    BY <1>2, <1>5, <2>1, <2>2
<1> QED
  BY <1>2, <1>3, <1>4, <1>6, <1>7, <1>8 DEF OwnRequests, HostInv

(* acquire of an idle context: the top of the stack is the thread's now.   *)
LEMMA AcquireIdleKeeps ==
  ASSUME HostInv, NEW t \in Handling, S!AcquireIdle(t), UNCHANGED made
  PROVE  HostInv'
<1> DEFINE r == S!Runtime(t)
           stack == idle[r]
           c == stack[Len(stack)]
           q == request[t]
<1>1. /\ q \in DOMAIN requests /\ r \in Runtimes /\ stack \in Seq(Nat) /\ requests[q].runtime = r
      /\ t \in Threads /\ requests[q] \in RequestRecords
  BY WorksOn DEF HostInv, HostTypes, Handling, S!Runtime
<1>2. /\ stack # <<>> /\ at[t] = "acquiring" /\ at' = [at EXCEPT ![t] = "acquired"]
      /\ requests' = [requests EXCEPT ![q].context = c]
      /\ idle' = [idle EXCEPT ![r] = S!Pop(stack)]
      /\ UNCHANGED <<contexts, jobs, locked, request>>
  BY DEF S!AcquireIdle, S!Take
<1>16. PICK l \in Nat : l = Len(stack)
  BY <1>1, LenProperties
<1>3. PICK rest : rest = S!Pop(stack)
  OBVIOUS
<1>4. /\ l \in DOMAIN stack /\ c = stack[l] /\ c \in Nat
      /\ rest \in Seq(Nat) /\ DOMAIN rest = 1 .. l - 1 /\ DOMAIN stack = 1 .. l
      /\ \A k \in DOMAIN rest : rest[k] = stack[k]
  <2>1. PICK old \in Seq(Nat) : old = stack
    BY <1>1
  <2>2. l > 0 /\ DOMAIN old = 1 .. l /\ old[l] \in Nat /\ Len(old) = l
    BY <1>2, <1>16, <2>1
  <2>3. rest = SubSeq(old, 1, l - 1)
    BY <1>3, <1>16, <2>1 DEF S!Pop
  <2>4. /\ rest \in Seq(Nat) /\ DOMAIN rest = 1 .. l - 1
        /\ \A k \in 1 .. l - 1 : rest[k] = old[k]
    BY <2>2, <2>3
  <2>5. c = old[l]
    BY <1>16, <2>1
  <2>6. l \in DOMAIN old /\ \A k \in DOMAIN rest : rest[k] = old[k]
    BY <2>2, <2>4
  <2> HIDE DEF c
  <2> QED
    BY <2>1, <2>2, <2>4, <2>5, <2>6
<1>5. \A k \in DOMAIN rest : k \in DOMAIN stack /\ k # l
  BY <1>4
<1>6. c \in DOMAIN contexts[r]
  BY <1>1, <1>4 DEF HostInv, ContextsApart, Runtimes
<1> HIDE DEF r, stack, c, q
<1>7. /\ idle' \in [Runtimes -> Seq(Nat)] /\ idle'[r] = rest
      /\ \A s \in Runtimes \ {r} : idle'[s] = idle[s]
  BY <1>1, <1>2, <1>3, <1>4 DEF HostInv, HostTypes
<1>8. [requests[q] EXCEPT !.context = c] \in RequestRecords
  BY <1>1, <1>4 DEF RequestRecords
<1>9. /\ requests' \in Seq(RequestRecords) /\ DOMAIN requests' = DOMAIN requests
      /\ requests'[q] = [requests[q] EXCEPT !.context = c]
      /\ \A p \in DOMAIN requests : p # q => requests'[p] = requests[p]
  BY <1>1, <1>2, <1>8 DEF HostInv, HostTypes
<1>10. /\ at' \in [Threads -> Steps] /\ at'[t] = "acquired"
       /\ \A u \in Threads : u # t => at'[u] = at[u]
  BY <1>1, <1>2 DEF HostInv, HostTypes, Steps
<1>11. HostTypes'
  BY <1>2, <1>7, <1>9, <1>10 DEF HostInv, HostTypes
<1>12. /\ requests'[q].context = c /\ requests'[q].runtime = requests[q].runtime
       /\ requests'[q].reply = requests[q].reply
  BY <1>1, <1>9 DEF RequestRecords
<1>13. /\ OwnRequests'
       /\ \A u \in Handling' : /\ u \in Handling /\ request'[u] = request[u]
                               /\ S!Runtime(u)' = S!Runtime(u)
                               /\ S!ContextOf(u)' = requests'[request[u]].context
  <2>1. t \in Early
    BY <1>1, <1>2 DEF Early
  <2> QED
    BY <1>2, <1>9, <1>10, <1>12, <2>1, OwnKept DEF q
<1>14. /\ \A u \in InUse' : u # t => /\ u \in InUse /\ S!Runtime(u)' = S!Runtime(u)
                                     /\ S!ContextOf(u)' = S!ContextOf(u)
       /\ S!Runtime(t)' = r /\ S!ContextOf(t)' = c /\ InUse' \subseteq Threads
  <2>1. InUse' \subseteq Handling' /\ t \in Handling'
    BY <1>1, <1>10 DEF InUse, Handling
  <2>2. \A u \in InUse' : u # t => u \in InUse /\ request[u] \in DOMAIN requests /\ request[u] # q
    BY <1>10, <1>13, <2>1 DEF InUse, HostInv, OwnRequests, q
  <2> QED
    BY <1>9, <1>12, <1>13, <2>1, <2>2 DEF InUse, r, q, S!ContextOf
<1>15. ContextsApart'
  <2>1. \A u \in InUse' : S!ContextOf(u)' \in DOMAIN contexts'[S!Runtime(u)']
    BY <1>2, <1>6, <1>14 DEF HostInv, ContextsApart
  <2>2. \A s \in Runtimes : \A k \in DOMAIN idle'[s] : idle'[s][k] \in DOMAIN contexts'[s]
    BY <1>2, <1>4, <1>5, <1>7 DEF HostInv, ContextsApart, stack
  <2>3. \A u \in InUse : \A k \in DOMAIN idle[S!Runtime(u)] : idle[S!Runtime(u)][k] # S!ContextOf(u)
    BY DEF HostInv, ContextsApart, ContextExclusive
  <2>4. \A u \in InUse' : u # t => S!Runtime(u) # r \/ S!ContextOf(u) # c
    BY <1>4, <1>14, <2>3 DEF stack
  <2>5. \A u, v \in InUse' : u # v =>
          <<S!Runtime(u)', S!ContextOf(u)'>> # <<S!Runtime(v)', S!ContextOf(v)'>>
    <3>1. \A u, v \in InUse : u # v => S!Runtime(u) # S!Runtime(v) \/ S!ContextOf(u) # S!ContextOf(v)
      BY DEF HostInv, ContextsApart, ContextExclusive
    <3>2. \A u, v \in InUse' : u # v => S!Runtime(u)' # S!Runtime(v)' \/ S!ContextOf(u)' # S!ContextOf(v)'
      BY <1>14, <2>4, <3>1
    <3> QED
      BY <3>2
  <2>6. \A s \in Runtimes : \A j, k \in DOMAIN idle[s] : idle[s][j] = idle[s][k] => j = k
    BY DEF HostInv, ContextsApart, ContextExclusive, Runtimes
  <2>7. /\ \A k \in DOMAIN rest : rest[k] # c
        /\ \A j, k \in DOMAIN rest : rest[j] = rest[k] => j = k
    <3>1. \A j, k \in DOMAIN stack : stack[j] = stack[k] => j = k
      BY <1>1, <2>6 DEF stack
    <3> QED
      BY <1>4, <1>5, <3>1
  <2>8. \A u \in InUse' : \A k \in DOMAIN idle'[S!Runtime(u)'] : idle'[S!Runtime(u)'][k] # S!ContextOf(u)'
    <3> SUFFICES ASSUME NEW u \in InUse', NEW k \in DOMAIN idle'[S!Runtime(u)']
                 PROVE  idle'[S!Runtime(u)'][k] # S!ContextOf(u)'
      OBVIOUS
    <3>1. CASE u = t
      BY <1>7, <1>14, <2>7, <3>1
    <3>2. CASE u # t
      <4>1. u \in InUse /\ S!Runtime(u) \in Runtimes
        BY <1>14, <3>2, WorksOn DEF HostInv, InUse, Handling
      <4>2. CASE S!Runtime(u) = r
        <5>1. k \in DOMAIN rest /\ idle'[S!Runtime(u)'][k] = stack[k] /\ k \in DOMAIN stack
          BY <1>4, <1>5, <1>7, <1>14, <3>2, <4>2
        <5>2. stack[k] # S!ContextOf(u)
          BY <2>3, <4>1, <4>2, <5>1 DEF stack
        <5> QED
          BY <1>14, <3>2, <5>1, <5>2
      <4>3. CASE S!Runtime(u) # r
        BY <1>7, <1>14, <2>3, <3>2, <4>1, <4>3
      <4> QED
        BY <4>2, <4>3
    <3> QED
      BY <3>1, <3>2
  <2>9. \A s \in Runtimes : \A j, k \in DOMAIN idle'[s] : idle'[s][j] = idle'[s][k] => j = k
    BY <1>7, <2>6, <2>7
  <2> QED
    BY <2>1, <2>2, <2>5, <2>8, <2>9 DEF ContextsApart, ContextExclusive, Runtimes
<1> QED
  BY <1>11, <1>13, <1>15 DEF HostInv

(* A new context: no thread has it, and it is not idle.                    *)
LEMMA CreateContextKeeps ==
  ASSUME HostInv, NEW t \in Handling, S!CreateContext(t), UNCHANGED made
  PROVE  HostInv'
<1> DEFINE r == S!Runtime(t)
           c == Len(contexts[r]) + 1
           q == request[t]
<1>1. /\ q \in DOMAIN requests /\ r \in Runtimes /\ contexts[r] \in Seq(Context)
      /\ t \in Threads /\ requests[q] \in RequestRecords /\ S!Globals \in Context
  <2>1. S!Globals \in Context
    BY MakersOfNone DEF S!Globals, Context
  <2>2. q \in DOMAIN requests /\ r \in Runtimes /\ contexts[r] \in Seq(Context) /\ t \in Threads
    BY WorksOn DEF HostInv, Handling
  <2> QED
    BY <2>1, <2>2 DEF HostInv, HostTypes
<1>2. /\ at[t] = "creating" /\ at' = [at EXCEPT ![t] = "acquired"]
      /\ requests' = [requests EXCEPT ![q].context = c]
      /\ contexts' = [contexts EXCEPT ![r] = Append(@, S!Globals)]
      /\ UNCHANGED <<idle, jobs, locked, request>>
  BY DEF S!CreateContext, S!Take
<1>3. PICK more : more = Append(contexts[r], S!Globals)
  OBVIOUS
<1>4. /\ more \in Seq(Context) /\ DOMAIN more = DOMAIN contexts[r] \cup {c}
      /\ c \in Nat /\ c \notin DOMAIN contexts[r]
  BY <1>1, <1>3
<1> HIDE DEF r, c, q
<1>5. /\ contexts' \in [Runtimes -> Seq(Context)] /\ contexts'[r] = more
      /\ \A s \in Runtimes : s # r => contexts'[s] = contexts[s]
  BY <1>1, <1>2, <1>3, <1>4 DEF HostInv, HostTypes
<1>6. [requests[q] EXCEPT !.context = c] \in RequestRecords
  BY <1>1, <1>4 DEF RequestRecords
<1>7. /\ requests' \in Seq(RequestRecords) /\ DOMAIN requests' = DOMAIN requests
      /\ requests'[q] = [requests[q] EXCEPT !.context = c]
      /\ \A p \in DOMAIN requests : p # q => requests'[p] = requests[p]
  BY <1>1, <1>2, <1>6 DEF HostInv, HostTypes
<1>8. /\ at' \in [Threads -> Steps] /\ at'[t] = "acquired"
      /\ \A u \in Threads : u # t => at'[u] = at[u]
  BY <1>1, <1>2 DEF HostInv, HostTypes, Steps
<1>9. HostTypes'
  BY <1>2, <1>5, <1>7, <1>8 DEF HostInv, HostTypes
<1>10. /\ requests'[q].context = c /\ requests'[q].runtime = requests[q].runtime
       /\ requests'[q].reply = requests[q].reply
  BY <1>1, <1>7 DEF RequestRecords
<1>11. /\ OwnRequests'
       /\ \A u \in Handling' : /\ u \in Handling /\ request'[u] = request[u]
                               /\ S!Runtime(u)' = S!Runtime(u)
                               /\ S!ContextOf(u)' = requests'[request[u]].context
  <2>1. t \in Early
    BY <1>1, <1>2 DEF Early
  <2> QED
    BY <1>2, <1>7, <1>8, <1>10, <2>1, OwnKept DEF q
<1>12. /\ \A u \in InUse' : u # t => /\ u \in InUse /\ S!Runtime(u)' = S!Runtime(u)
                                     /\ S!ContextOf(u)' = S!ContextOf(u)
       /\ S!Runtime(t)' = r /\ S!ContextOf(t)' = c /\ InUse' \subseteq Threads
  <2>1. InUse' \subseteq Handling' /\ t \in Handling'
    BY <1>1, <1>8 DEF InUse, Handling
  <2>2. \A u \in InUse' : u # t => u \in InUse /\ request[u] \in DOMAIN requests /\ request[u] # q
    BY <1>8, <1>11, <2>1 DEF InUse, HostInv, OwnRequests, q
  <2> QED
    BY <1>7, <1>10, <1>11, <2>1, <2>2 DEF InUse, r, q, S!ContextOf
<1>13. ContextsApart'
  <2>0. \A u \in InUse : /\ S!Runtime(u) \in Runtimes
                         /\ S!ContextOf(u) \in DOMAIN contexts[S!Runtime(u)]
    BY WorksOn DEF HostInv, ContextsApart, InUse, Handling
  <2>1. \A u \in InUse' : S!ContextOf(u)' \in DOMAIN contexts'[S!Runtime(u)']
    BY <1>4, <1>5, <1>12, <2>0
  <2>2. \A s \in Runtimes : \A k \in DOMAIN idle'[s] : idle'[s][k] \in DOMAIN contexts'[s]
    BY <1>2, <1>4, <1>5 DEF HostInv, ContextsApart
  <2>3. \A u, v \in InUse' : u # v => S!Runtime(u)' # S!Runtime(v)' \/ S!ContextOf(u)' # S!ContextOf(v)'
    <3>1. \A u, v \in InUse : u # v => S!Runtime(u) # S!Runtime(v) \/ S!ContextOf(u) # S!ContextOf(v)
      BY DEF HostInv, ContextsApart, ContextExclusive
    <3>2. \A u \in InUse' : u # t => S!Runtime(u) # r \/ S!ContextOf(u) # c
      BY <1>4, <1>12, <2>0
    <3> QED
      BY <1>12, <3>1, <3>2
  <2>4. \A u \in InUse' : \A k \in DOMAIN idle'[S!Runtime(u)'] : idle'[S!Runtime(u)'][k] # S!ContextOf(u)'
    <3>1. \A k \in DOMAIN idle[r] : idle[r][k] # c
      BY <1>1, <1>4 DEF HostInv, ContextsApart
    <3> QED
      BY <1>2, <1>12, <3>1 DEF HostInv, ContextsApart, ContextExclusive
  <2> QED
    BY <1>2, <2>1, <2>2, <2>3, <2>4 DEF HostInv, ContextsApart, ContextExclusive, Runtimes
<1> QED
  BY <1>9, <1>11, <1>13 DEF HostInv

(* release: the context is idle again, or dropped.                         *)
LEMMA ReleaseKeeps ==
  ASSUME HostInv, NEW t \in Handling, S!Release(t), UNCHANGED made
  PROVE  HostInv'
<1> DEFINE r == S!Runtime(t)
           c == S!ContextOf(t)
           q == request[t]
<1>1. /\ q \in DOMAIN requests /\ r \in Runtimes /\ idle[r] \in Seq(Nat) /\ c \in Nat
      /\ t \in Threads
  BY WorksOn DEF HostInv, Handling
<1>2. /\ at[t] = "releasing" /\ at' = [at EXCEPT ![t] = "away"]
      /\ request' = [request EXCEPT ![t] = 0]
      /\ UNCHANGED <<contexts, jobs, locked, requests>>
  BY DEF S!Release
<1>3. PICK stack : stack = idle'[r]
  OBVIOUS
<1>4. /\ idle' = [idle EXCEPT ![r] = stack]
      /\ stack = idle[r] \/ stack = Append(idle[r], c)
  BY <1>1, <1>3 DEF S!Release, HostInv, HostTypes
<1>5. PICK l \in Nat : l = Len(idle[r])
  BY <1>1, LenProperties
<1>6. /\ stack \in Seq(Nat) /\ DOMAIN idle[r] = 1 .. l
      /\ \A k \in DOMAIN stack : \/ k \in DOMAIN idle[r] /\ stack[k] = idle[r][k]
                                 \/ k = l + 1 /\ stack[k] = c
  <2>1. CASE stack = idle[r]
    BY <1>1, <1>5, <2>1
  <2>2. CASE stack = Append(idle[r], c)
    <3>1. PICK old, new : old = idle[r] /\ new = Append(old, c)
      OBVIOUS
    <3>2. /\ new \in Seq(Nat) /\ DOMAIN old = 1 .. l /\ DOMAIN new = 1 .. l + 1
          /\ new[l + 1] = c /\ \A k \in 1 .. l : new[k] = old[k]
      BY <1>1, <1>5, <3>1
    <3>3. \A k \in DOMAIN new : k \in DOMAIN old \/ k = l + 1
      BY <3>2
    <3> QED
      BY <2>2, <3>1, <3>2, <3>3
  <2> QED
    BY <1>4, <2>1, <2>2
<1>7. t \in InUse
  BY <1>1, <1>2 DEF InUse
<1>8. /\ c \in DOMAIN contexts[r] /\ \A k \in DOMAIN idle[r] : idle[r][k] # c
      /\ \A k \in DOMAIN idle[r] : idle[r][k] \in DOMAIN contexts[r]
      /\ \A j, k \in DOMAIN idle[r] : idle[r][j] = idle[r][k] => j = k
  BY <1>1, <1>7 DEF HostInv, ContextsApart, ContextExclusive, Runtimes
<1> HIDE DEF r, c, q
<1>9. /\ idle' \in [Runtimes -> Seq(Nat)] /\ idle'[r] = stack
      /\ \A s \in Runtimes : s # r => idle'[s] = idle[s]
  BY <1>1, <1>4, <1>6 DEF HostInv, HostTypes
<1>10. /\ at' \in [Threads -> Steps] /\ at'[t] = "away"
       /\ \A u \in Threads : u # t => at'[u] = at[u]
  BY <1>1, <1>2 DEF HostInv, HostTypes, Steps
<1>11. /\ request' \in [Threads -> Nat]
       /\ \A u \in Threads : u # t => request'[u] = request[u]
  BY <1>1, <1>2 DEF HostInv, HostTypes
<1>12. HostTypes'
  BY <1>2, <1>9, <1>10, <1>11 DEF HostInv, HostTypes
<1>13. /\ OwnRequests'
       /\ \A u \in Handling' : /\ u \in Handling /\ request'[u] = request[u]
                               /\ S!Runtime(u)' = S!Runtime(u)
                               /\ S!ContextOf(u)' = requests'[request[u]].context
  BY <1>2, <1>10, <1>11, OwnKept
<1>14. \A u \in InUse' : /\ u \in InUse /\ u # t /\ S!Runtime(u)' = S!Runtime(u)
                         /\ S!ContextOf(u)' = S!ContextOf(u) /\ S!Runtime(u) \in Runtimes
  <2>1. InUse' \subseteq Handling' /\ t \notin InUse'
    BY <1>10 DEF InUse, Handling
  <2>2. \A u \in InUse' : u \in InUse
    BY <1>10, <2>1 DEF InUse
  <2> QED
    BY <1>2, <1>13, <2>1, <2>2, WorksOn DEF HostInv, S!ContextOf
<1>15. ContextsApart'
  <2>1. \A u \in InUse' : S!Runtime(u) # r \/ S!ContextOf(u) # c
    <3>1. \A u, v \in InUse : u # v => S!Runtime(u) # S!Runtime(v) \/ S!ContextOf(u) # S!ContextOf(v)
      BY DEF HostInv, ContextsApart, ContextExclusive
    <3> QED
      BY <1>7, <1>14, <3>1 DEF r, c
  <2>2. \A s \in Runtimes : \A k \in DOMAIN idle'[s] : idle'[s][k] \in DOMAIN contexts'[s]
    <3>1. \A k \in DOMAIN stack : stack[k] \in DOMAIN contexts[r]
      BY <1>6, <1>8
    <3> QED
      BY <1>2, <1>9, <3>1 DEF HostInv, ContextsApart
  <2>3. \A u \in InUse' : \A k \in DOMAIN idle'[S!Runtime(u)'] : idle'[S!Runtime(u)'][k] # S!ContextOf(u)'
    <3> SUFFICES ASSUME NEW u \in InUse', NEW k \in DOMAIN idle'[S!Runtime(u)]
                 PROVE  idle'[S!Runtime(u)][k] # S!ContextOf(u)
      BY <1>14
    <3>1. \A j \in DOMAIN idle[S!Runtime(u)] : idle[S!Runtime(u)][j] # S!ContextOf(u)
      BY <1>14 DEF HostInv, ContextsApart, ContextExclusive
    <3>2. CASE S!Runtime(u) = r
      BY <1>6, <1>9, <2>1, <3>1, <3>2
    <3>3. CASE S!Runtime(u) # r
      BY <1>9, <1>14, <3>1, <3>3
    <3> QED
      BY <3>2, <3>3
  <2>4. \A j, k \in DOMAIN stack : stack[j] = stack[k] => j = k
    BY <1>6, <1>8
  <2>5. \A s \in Runtimes : \A j, k \in DOMAIN idle'[s] : idle'[s][j] = idle'[s][k] => j = k
    BY <1>9, <2>4 DEF HostInv, ContextsApart, ContextExclusive, Runtimes
  <2>6. \A u, v \in InUse' : u # v =>
          <<S!Runtime(u)', S!ContextOf(u)'>> # <<S!Runtime(v)', S!ContextOf(v)'>>
    BY <1>14 DEF HostInv, ContextsApart, ContextExclusive
  <2>7. \A u \in InUse' : S!ContextOf(u)' \in DOMAIN contexts'[S!Runtime(u)']
    BY <1>2, <1>14 DEF HostInv, ContextsApart
  <2> QED
    BY <2>2, <2>3, <2>5, <2>6, <2>7 DEF ContextsApart, ContextExclusive, Runtimes
<1> QED
  BY <1>12, <1>13, <1>15 DEF HostInv

(* A step of a thread on the context it has, or on none.                   *)
LEMMA StepKeeps ==
  ASSUME HostInv, NEW t \in Handling, UNCHANGED <<made, idle>>, HostTypes',
         DOMAIN requests' = DOMAIN requests,
         \A q \in DOMAIN requests : /\ requests'[q].runtime = requests[q].runtime
                                    /\ requests'[q].context = requests[q].context,
         \A q \in DOMAIN requests : q # request[t] => requests'[q].reply = requests[q].reply,
         \A u \in Threads : u # t => at'[u] = at[u] /\ request'[u] = request[u],
         at'[t] = "away" \/ request'[t] = request[t],
         at'[t] \in {"acquiring", "creating", "acquired"} =>
           t \in Early /\ requests'[request[t]].reply = requests[request[t]].reply,
         \A u \in Inside : u # t => locked'[S!Runtime(u)] = locked[S!Runtime(u)],
         at'[t] \in {"failed", "draining"} => locked'[S!Runtime(t)] = t,
         at'[t] \in {"acquired", "failed", "draining", "releasing"} => t \in InUse,
         \A r \in Runtimes : DOMAIN contexts'[r] = DOMAIN contexts[r]
  PROVE  HostInv'
<1>1. /\ OwnRequests'
      /\ \A u \in Handling' : /\ u \in Handling /\ request'[u] = request[u]
                              /\ S!Runtime(u)' = S!Runtime(u)
                              /\ S!ContextOf(u)' = requests'[request[u]].context
  BY OwnKept
<1>2. InUse' \subseteq Handling' /\ InUse' \subseteq InUse
  BY DEF InUse, Handling
<1>3. \A u \in InUse : S!Runtime(u) \in Runtimes
  BY WorksOn DEF HostInv, InUse, Handling
<1>4. \A u \in InUse' : S!Runtime(u)' = S!Runtime(u) /\ S!ContextOf(u)' = S!ContextOf(u)
  BY <1>1, <1>2, WorksOn DEF HostInv, S!ContextOf
<1>5. ContextsApart'
  BY <1>2, <1>3, <1>4, ApartKept DEF HostInv
<1> QED
  BY <1>1, <1>5 DEF HostInv

(* acquire with no idle context: the thread will create one.               *)
LEMMA AcquireNoneKeeps ==
  ASSUME HostInv, NEW t \in Handling, S!AcquireNone(t), UNCHANGED made
  PROVE  HostInv'
<1>1. /\ at[t] = "acquiring" /\ at' = [at EXCEPT ![t] = "creating"] /\ t \in Threads
      /\ UNCHANGED <<contexts, idle, jobs, locked, request, requests>>
  BY DEF S!AcquireNone, Handling
<1>2. at' \in [Threads -> Steps] /\ at'[t] = "creating" /\ \A u \in Threads : u # t => at'[u] = at[u]
  BY <1>1 DEF HostInv, HostTypes, Steps
<1>3. HostTypes'
  BY <1>1, <1>2 DEF HostInv, HostTypes
<1> QED
  BY <1>1, <1>2, <1>3, StepKeeps DEF Early

(* A reply is noted, whatever it is.                                       *)
LEMMA ReplyNoted ==
  ASSUME HostTypes, NEW q \in DOMAIN requests, NEW v \in Responses \cup {None, S!J!Fresh},
         requests' = [requests EXCEPT ![q].reply = v]
  PROVE  /\ requests' \in Seq(RequestRecords) /\ DOMAIN requests' = DOMAIN requests
         /\ \A p \in DOMAIN requests : /\ requests'[p].runtime = requests[p].runtime
                                       /\ requests'[p].context = requests[p].context
                                       /\ p # q => requests'[p].reply = requests[p].reply
         /\ requests'[q].reply = v
<1>1. requests \in Seq(RequestRecords) /\ \A p \in DOMAIN requests : requests[p] \in RequestRecords
  BY DEF HostTypes
<1>2. PICK rec : rec = [requests[q] EXCEPT !.reply = v]
  OBVIOUS
<1>3. /\ rec \in RequestRecords /\ rec.reply = v
      /\ rec.runtime = requests[q].runtime /\ rec.context = requests[q].context
  BY <1>1, <1>2 DEF RequestRecords
<1>4. /\ requests' \in Seq(RequestRecords) /\ DOMAIN requests' = DOMAIN requests
      /\ requests'[q] = rec /\ \A p \in DOMAIN requests : p # q => requests'[p] = requests[p]
  BY <1>1, <1>2, <1>3
<1> QED
  BY <1>3, <1>4

(* The context is not created: the request is answered by an error.        *)
LEMMA CreateContextFailsKeeps ==
  ASSUME HostInv, NEW t \in Handling, S!CreateContextFails(t), UNCHANGED made
  PROVE  HostInv'
<1>1. /\ at' = [at EXCEPT ![t] = "away"] /\ request' = [request EXCEPT ![t] = 0]
      /\ requests' = [requests EXCEPT ![request[t]].reply = S!J!Fresh]
      /\ UNCHANGED <<contexts, idle, jobs, locked>> /\ t \in Threads
  BY DEF S!CreateContextFails, Handling
<1>2. /\ at' \in [Threads -> Steps] /\ at'[t] = "away" /\ request' \in [Threads -> Nat]
      /\ \A u \in Threads : u # t => at'[u] = at[u] /\ request'[u] = request[u]
  BY <1>1 DEF HostInv, HostTypes, Steps
<1>3. /\ requests' \in Seq(RequestRecords) /\ DOMAIN requests' = DOMAIN requests
      /\ \A p \in DOMAIN requests : /\ requests'[p].runtime = requests[p].runtime
                                    /\ requests'[p].context = requests[p].context
                                    /\ p # request[t] => requests'[p].reply = requests[p].reply
  BY <1>1, WorksOn, ReplyNoted DEF HostInv
<1>4. HostTypes'
  BY <1>1, <1>2, <1>3 DEF HostInv, HostTypes
<1> QED
  BY <1>1, <1>2, <1>3, <1>4, StepKeeps

(* The reply of EndFetch.                                                  *)
LEMMA EndFetchReplies ==
  ASSUME HostInv, NEW t \in Handling, S!EndFetch(t)
  PROVE  \E v \in Responses \cup {None, S!J!Fresh} :
           /\ requests' = [requests EXCEPT ![request[t]].reply = v]
           /\ v = S!J!Fresh \/ (/\ at[t] = "draining" /\ Resolved(t) # None
                                /\ v \in Responses /\ v.request = Resolved(t).request)
<1>1. PICK x : x = Resolved(t)
  OBVIOUS
<1>2. requests' = [requests EXCEPT ![request[t]].reply =
        IF at[t] = "draining" /\ x # None THEN S!J!Extract(x) ELSE S!J!Fresh]
  BY <1>1 DEF S!EndFetch, Resolved
<1>3. CASE at[t] = "draining" /\ x # None
  <2>1. t \in InUse
    BY <1>3 DEF InUse, Handling
  <2>2. contexts[S!Runtime(t)][S!ContextOf(t)] \in Context
    BY <2>1, WorksOn DEF HostInv, ContextsApart
  <2>3. x \in Responses
    BY <1>1, <1>3, <2>2 DEF Context, Resolved
  <2>4. x.status % 65536 \in Nat
    BY <2>3 DEF Responses
  <2>5. S!J!Extract(x) \in Responses /\ S!J!Extract(x).request = x.request
    BY <2>3, <2>4 DEF Responses, S!J!Extract, S!J!ExtractedStatus
  <2> QED
    BY <1>1, <1>2, <1>3, <2>5
<1>4. CASE ~(at[t] = "draining" /\ x # None)
  BY <1>2, <1>4
<1> QED
  BY <1>3, <1>4

(* The end of ctx.with: the lock of the runtime is free again.             *)
LEMMA EndFetchKeeps ==
  ASSUME HostInv, NEW t \in Handling, S!EndFetch(t), UNCHANGED made
  PROVE  HostInv'
<1> USE PoolAssumption
<1>1. /\ at[t] \in {"failed", "draining"} /\ at' = [at EXCEPT ![t] = "releasing"]
      /\ locked' = [locked EXCEPT ![S!Runtime(t)] = None]
      /\ UNCHANGED <<contexts, idle, jobs, request>> /\ t \in Threads
  BY DEF S!EndFetch, Handling
<1>2. /\ at' \in [Threads -> Steps] /\ at'[t] = "releasing"
      /\ \A u \in Threads : u # t => at'[u] = at[u]
      /\ locked' \in [Runtimes -> Threads \cup {None}]
      /\ \A r \in Runtimes : r # S!Runtime(t) => locked'[r] = locked[r]
  BY <1>1, WorksOn DEF HostInv, HostTypes, Steps
<1>3. /\ requests' \in Seq(RequestRecords) /\ DOMAIN requests' = DOMAIN requests
      /\ \A p \in DOMAIN requests : /\ requests'[p].runtime = requests[p].runtime
                                    /\ requests'[p].context = requests[p].context
                                    /\ p # request[t] => requests'[p].reply = requests[p].reply
  <2>1. PICK v \in Responses \cup {None, S!J!Fresh} :
          requests' = [requests EXCEPT ![request[t]].reply = v]
    BY EndFetchReplies
  <2>2. PICK q \in DOMAIN requests : q = request[t]
    BY WorksOn DEF HostInv
  <2> QED
    BY <2>1, <2>2, ReplyNoted DEF HostInv
<1>4. HostTypes'
  BY <1>1, <1>2, <1>3 DEF HostInv, HostTypes
<1>5. t \in InUse /\ t \in Inside
  BY <1>1 DEF InUse, Inside
<1>6. \A u \in Inside : u # t => locked'[S!Runtime(u)] = locked[S!Runtime(u)]
  <2>1. \A u \in Inside : locked[S!Runtime(u)] = u /\ S!Runtime(u) \in Runtimes
    BY WorksOn DEF HostInv, OwnRequests, Inside, Handling
  <2> QED
    BY <1>2, <1>5, <2>1
<1> QED
  BY <1>1, <1>2, <1>3, <1>4, <1>5, <1>6, StepKeeps

-----------------------------------------------------------------------------
(* One context of a runtime is replaced.                                   *)
LEMMA ContextReplaced ==
  ASSUME HostTypes, NEW r \in Runtimes, NEW c \in DOMAIN contexts[r], NEW g \in Context,
         contexts' = [contexts EXCEPT ![r][c] = g]
  PROVE  /\ contexts' \in [Runtimes -> Seq(Context)] /\ contexts'[r][c] = g
         /\ \A s \in Runtimes : DOMAIN contexts'[s] = DOMAIN contexts[s]
         /\ \A s \in Runtimes : \A d \in DOMAIN contexts[s] :
              s # r \/ d # c => contexts'[s][d] = contexts[s][d]
<1>1. PICK old, new : old = contexts[r] /\ new = [old EXCEPT ![c] = g]
  OBVIOUS
<1>2. old \in Seq(Context) /\ c \in DOMAIN old
  BY <1>1 DEF HostTypes
<1>3. /\ new \in Seq(Context) /\ DOMAIN new = DOMAIN old /\ new[c] = g
      /\ \A d \in DOMAIN old : d # c => new[d] = old[d]
  BY <1>1, <1>2
<1>4. contexts' = [contexts EXCEPT ![r] = new]
  BY <1>1
<1>5. contexts'[r] = new /\ \A s \in Runtimes : s # r => contexts'[s] = contexts[s]
  BY <1>4 DEF HostTypes
<1> QED
  BY <1>1, <1>3, <1>4, <1>5 DEF HostTypes

(* What a call of a handler changes.                                       *)
LEMMA CallFetchChanges ==
  ASSUME HostInv, ReplyInv, NEW t \in Handling, S!CallFetch(t),
         NEW r, r = S!Runtime(t), NEW c, c = S!ContextOf(t), NEW m, m = request[t]
  PROVE  /\ r \in Runtimes /\ c \in DOMAIN contexts[r] /\ m \in DOMAIN requests /\ m \in Nat
         /\ contexts' \in [Runtimes -> Seq(Context)]
         /\ \A s \in Runtimes : DOMAIN contexts'[s] = DOMAIN contexts[s]
         /\ \A s \in Runtimes : \A d \in DOMAIN contexts[s] :
              s # r \/ d # c => contexts'[s][d] = contexts[s][d]
         /\ jobs' \in [Runtimes -> Seq(Pending)]
         /\ \A s \in Runtimes : s # r => jobs'[s] = jobs[s]
         /\ Distinct(jobs'[r]) /\ Distinct(Deferred(r, c)')
         /\ Makers(jobs'[r]) \cap Makers(Deferred(r, c)') = {}
         /\ Makers(jobs'[r]) \subseteq Makers(jobs[r]) \cup Makers(Deferred(r, c)) \cup {m}
         /\ Makers(Deferred(r, c)') \subseteq Makers(Deferred(r, c)) \cup {m}
         /\ contexts'[r][c].resolved # None =>
              /\ contexts'[r][c].resolved.request = m
              /\ m \notin Makers(jobs'[r]) \cup Makers(Deferred(r, c)')
<1>1. at[t] = "acquired" /\ t \in InUse /\ t \in Early
  BY DEF S!CallFetch, InUse, Early, Handling
<1>2. /\ r \in Runtimes /\ c \in DOMAIN contexts[r] /\ m \in DOMAIN requests /\ m \in Nat
      /\ S!Handler(t) \in Handlers /\ jobs[r] \in Seq(Pending) /\ contexts[r][c] \in Context
  <2>1. /\ r \in Runtimes /\ m \in DOMAIN requests /\ S!Handler(t) \in Handlers
        /\ jobs[r] \in Seq(Pending) /\ contexts[r] \in Seq(Context)
    BY WorksOn DEF HostInv
  <2>2. c \in DOMAIN contexts[r]
    BY <1>1 DEF HostInv, ContextsApart
  <2>3. m \in Nat
    BY DEF HostInv, HostTypes, Handling
  <2> QED
    BY <2>1, <2>2, <2>3
<1>3. PICK before : before = [resolved |-> contexts[r][c].resolved,
                              deferred |-> contexts[r][c].deferred, jobs |-> jobs[r]]
  OBVIOUS
<1>4. /\ before \in Machine
      /\ before.jobs = jobs[r] /\ before.deferred = Deferred(r, c)
  BY <1>2, <1>3 DEF Context, Deferred, Machine
<1>5. Apart(before)
  BY <1>2, <1>4 DEF ReplyInv, CarriedOnce, Apart
<1>6. m \notin Makers(before.jobs) \cup Makers(before.deferred)
  BY <1>1, <1>2, <1>4 DEF ReplyInv, CarriedWhereMade, MadeIn
<1>7. PICK h \in Handlers : h = S!Handler(t)
  BY <1>2
<1>15. PICK after : after = S!J!ResetAndDispatch(before, m, h)
  OBVIOUS
<1>8. /\ after \in Machine /\ Apart(after)
      /\ Makers(after.jobs) \subseteq Makers(before.jobs) \cup Makers(before.deferred) \cup {m}
      /\ Makers(after.deferred) \subseteq Makers(before.deferred) \cup {m}
      /\ after.resolved # None =>
           /\ after.resolved.request = m
           /\ m \notin Makers(after.jobs) \cup Makers(after.deferred)
  <2>1. m \in Nat
    BY <1>2
  <2>2. Moved(before, m, after)
    BY <1>4, <1>5, <1>6, <1>15, <2>1, Dispatched
  <2> QED
    BY <2>2 DEF Moved
<1>9. PICK g : g = [resolved |-> after.resolved, deferred |-> after.deferred]
  OBVIOUS
<1>10. g \in Context /\ g.resolved = after.resolved /\ g.deferred = after.deferred
  BY <1>8, <1>9 DEF Context, Machine
<1>11. contexts' = [contexts EXCEPT ![r][c] = g] /\ jobs' = [jobs EXCEPT ![r] = after.jobs]
  BY <1>3, <1>7, <1>15, <1>9 DEF S!CallFetch
<1>12. /\ contexts' \in [Runtimes -> Seq(Context)] /\ contexts'[r][c] = g
       /\ \A s \in Runtimes : DOMAIN contexts'[s] = DOMAIN contexts[s]
       /\ \A s \in Runtimes : \A d \in DOMAIN contexts[s] :
            s # r \/ d # c => contexts'[s][d] = contexts[s][d]
  BY <1>2, <1>10, <1>11, ContextReplaced DEF HostInv
<1>13. /\ jobs' \in [Runtimes -> Seq(Pending)] /\ jobs'[r] = after.jobs
       /\ \A s \in Runtimes : s # r => jobs'[s] = jobs[s]
  BY <1>2, <1>8, <1>11 DEF HostInv, HostTypes, Machine
<1>14. Deferred(r, c)' = after.deferred
  BY <1>10, <1>12 DEF Deferred
<1> QED
  BY <1>2, <1>4, <1>8, <1>10, <1>12, <1>13, <1>14 DEF Apart

(* What a job changes: the queue, and maybe the global of the context it   *)
(* was queued in.                                                          *)
Ran(r, m, c) ==
  /\ r \in Runtimes /\ m \in Makers(jobs[r]) /\ c \in DOMAIN contexts[r]
  /\ contexts' \in [Runtimes -> Seq(Context)]
  /\ \A s \in Runtimes : DOMAIN contexts'[s] = DOMAIN contexts[s]
  /\ \A s \in Runtimes : \A d \in DOMAIN contexts[s] :
       /\ Deferred(s, d)' = Deferred(s, d)
       /\ s # r \/ d # c => contexts'[s][d] = contexts[s][d]
  /\ jobs' \in [Runtimes -> Seq(Pending)]
  /\ \A s \in Runtimes : s # r => jobs'[s] = jobs[s]
  /\ Distinct(jobs'[r]) /\ Makers(jobs'[r]) \subseteq Makers(jobs[r])
  /\ \/ contexts'[r][c].resolved = contexts[r][c].resolved
     \/ contexts'[r][c].resolved.request = m /\ m \notin Makers(jobs'[r])

(* The job is the head of the queue, in the context of its request.        *)
LEMMA RunJobChanges ==
  ASSUME HostInv, ReplyInv, NEW t \in Handling, S!RunJob(t),
         NEW r, r = S!Runtime(t), NEW m, m = Head(jobs[r]).response.request,
         NEW c, c = requests[m].context
  PROVE  Ran(r, m, c)
<1>1. r \in Runtimes /\ jobs[r] \in Seq(Pending) /\ jobs[r] # <<>>
  BY WorksOn DEF HostInv, S!RunJob
<1>2. m \in Makers(jobs[r]) /\ Distinct(jobs[r])
  BY <1>1, MakersOfTail DEF ReplyInv, CarriedOnce
<1>3. c \in DOMAIN contexts[r] /\ contexts[r] \in Seq(Context)
  BY <1>1, <1>2 DEF ReplyInv, CarriedWhereMade, HostInv, HostTypes
<1>4. contexts[r][c] \in Context
  BY <1>3
<1>5. PICK before, after : /\ before = [resolved |-> contexts[r][c].resolved, jobs |-> jobs[r]]
                           /\ after = S!J!RunJob(before)
  OBVIOUS
<1>6. /\ before \in [resolved : Responses \cup {None}, jobs : Seq(Pending)]
      /\ before.jobs = jobs[r] /\ before.resolved = contexts[r][c].resolved
  BY <1>1, <1>4, <1>5 DEF Context
<1>7. /\ after.resolved \in Responses \cup {None} /\ after.jobs \in Seq(Pending)
      /\ Distinct(after.jobs) /\ Makers(after.jobs) \subseteq Makers(jobs[r])
      /\ \/ after.resolved = contexts[r][c].resolved
         \/ after.resolved.request = m /\ m \notin Makers(after.jobs)
  <2>1. before.jobs # <<>> /\ Distinct(before.jobs)
    BY <1>1, <1>2, <1>6
  <2>2. Settled(before, after)
    BY <1>5, <1>6, <2>1, JobRun
  <2>3. Head(before.jobs).response.request = m
    BY <1>6
  <2> QED
    BY <1>6, <2>2, <2>3 DEF Settled
<1>8. PICK g : g = [contexts[r][c] EXCEPT !.resolved = after.resolved]
  OBVIOUS
<1>9. g \in Context /\ g.resolved = after.resolved /\ g.deferred = contexts[r][c].deferred
  BY <1>4, <1>7, <1>8 DEF Context
<1>10. contexts' = [contexts EXCEPT ![r][c] = g] /\ jobs' = [jobs EXCEPT ![r] = after.jobs]
  BY <1>5, <1>8 DEF S!RunJob, S!ContextOfJob
<1>11. /\ contexts' \in [Runtimes -> Seq(Context)] /\ contexts'[r][c] = g
       /\ \A s \in Runtimes : DOMAIN contexts'[s] = DOMAIN contexts[s]
       /\ \A s \in Runtimes : \A d \in DOMAIN contexts[s] :
            s # r \/ d # c => contexts'[s][d] = contexts[s][d]
  BY <1>1, <1>3, <1>9, <1>10, ContextReplaced DEF HostInv
<1>12. /\ jobs' \in [Runtimes -> Seq(Pending)] /\ jobs'[r] = after.jobs
       /\ \A s \in Runtimes : s # r => jobs'[s] = jobs[s]
  BY <1>1, <1>7, <1>10 DEF HostInv, HostTypes
<1>13. \A s \in Runtimes : \A d \in DOMAIN contexts[s] : Deferred(s, d)' = Deferred(s, d)
  BY <1>9, <1>11 DEF Deferred
<1> QED
  BY <1>1, <1>2, <1>3, <1>7, <1>9, <1>11, <1>12, <1>13 DEF Ran

-----------------------------------------------------------------------------
(* The call of a handler takes the lock, on the context the thread has.    *)
LEMMA CallFetchKeeps ==
  ASSUME HostInv, ReplyInv, NEW t \in Handling, S!CallFetch(t), UNCHANGED made
  PROVE  HostInv'
<1> USE PoolAssumption
<1>1. PICK r, c, m : r = S!Runtime(t) /\ c = S!ContextOf(t) /\ m = request[t]
  OBVIOUS
<1>2. /\ at[t] = "acquired" /\ locked[r] = None /\ locked' = [locked EXCEPT ![r] = t]
      /\ at' = [at EXCEPT ![t] = IF S!Handler(t).returns = "exception" THEN "failed" ELSE "draining"]
      /\ UNCHANGED <<idle, request, requests>> /\ t \in Threads /\ t \in InUse
  BY <1>1 DEF S!CallFetch, Handling, InUse
<1>3. /\ r \in Runtimes /\ contexts' \in [Runtimes -> Seq(Context)]
      /\ jobs' \in [Runtimes -> Seq(Pending)]
      /\ \A s \in Runtimes : DOMAIN contexts'[s] = DOMAIN contexts[s]
  BY <1>1, CallFetchChanges
<1>4. /\ at' \in [Threads -> Steps] /\ at'[t] \in {"failed", "draining"}
      /\ \A u \in Threads : u # t => at'[u] = at[u]
      /\ locked' \in [Runtimes -> Threads \cup {None}] /\ locked'[r] = t
      /\ \A s \in Runtimes : s # r => locked'[s] = locked[s]
  BY <1>2, <1>3 DEF HostInv, HostTypes, Steps
<1>5. HostTypes'
  BY <1>2, <1>3, <1>4 DEF HostInv, HostTypes
<1>6. \A u \in Inside : u # t => locked'[S!Runtime(u)] = locked[S!Runtime(u)]
  <2>1. \A u \in Inside : locked[S!Runtime(u)] = u /\ S!Runtime(u) \in Runtimes /\ u \in Threads
    BY WorksOn DEF HostInv, OwnRequests, Inside, Handling
  <2> QED
    BY <1>2, <1>4, <2>1
<1> QED
  BY <1>1, <1>2, <1>3, <1>4, <1>5, <1>6, StepKeeps

(* A job changes no thread's place.                                        *)
LEMMA RunJobKeeps ==
  ASSUME HostInv, ReplyInv, NEW t \in Handling, S!RunJob(t), UNCHANGED made
  PROVE  HostInv'
<1>1. /\ contexts' \in [Runtimes -> Seq(Context)] /\ jobs' \in [Runtimes -> Seq(Pending)]
      /\ \A s \in Runtimes : DOMAIN contexts'[s] = DOMAIN contexts[s]
  BY RunJobChanges DEF Ran
<1>2. at[t] = "draining" /\ UNCHANGED <<idle, locked, at, request, requests>> /\ t \in InUse /\ t \in Inside
  BY DEF S!RunJob, Handling, InUse, Inside
<1>3. HostTypes'
  BY <1>1, <1>2 DEF HostInv, HostTypes
<1> QED
  BY <1>1, <1>2, <1>3, StepKeeps DEF HostInv, OwnRequests

-----------------------------------------------------------------------------
(* What was made in a context stays so, while requests whose handler is    *)
(* called get no other context and no other thread takes them.             *)
LEMMA MadeStays ==
  ASSUME DOMAIN requests \subseteq DOMAIN requests',
         \A q \in DOMAIN requests : (\A t \in Early : request[t] # q) =>
           /\ requests'[q].runtime = requests[q].runtime
           /\ requests'[q].context = requests[q].context,
         \A t \in Early' : \/ t \in Early /\ request'[t] = request[t]
                           \/ request'[t] \notin DOMAIN requests
  PROVE  \A m, r, c : MadeIn(m, r, c) => MadeIn(m, r, c)'
BY DEF MadeIn

(* A step that runs no JavaScript and gives no reply.                      *)
LEMMA RepliesKept ==
  ASSUME HostInv, ReplyInv, jobs' = jobs,
         \A r \in Runtimes : \A c \in DOMAIN contexts'[r] :
           \/ c \in DOMAIN contexts[r] /\ contexts'[r][c] = contexts[r][c]
           \/ contexts'[r][c] = S!Globals,
         \A r \in Runtimes : \A m \in Makers(jobs[r]) : requests[m].context \in DOMAIN contexts'[r],
         DOMAIN requests \subseteq DOMAIN requests',
         \A q \in DOMAIN requests : (\A t \in Early : request[t] # q) =>
           /\ requests'[q].runtime = requests[q].runtime
           /\ requests'[q].context = requests[q].context,
         \A t \in Early' : \/ t \in Early /\ request'[t] = request[t]
                           \/ request'[t] \notin DOMAIN requests,
         \A t \in Draining' :
           /\ t \in Draining
           /\ S!Runtime(t)' = S!Runtime(t) /\ S!ContextOf(t)' = S!ContextOf(t)
           /\ contexts'[S!Runtime(t)][S!ContextOf(t)] = contexts[S!Runtime(t)][S!ContextOf(t)],
         \A q \in DOMAIN requests' : Replied(q)' =>
           q \in DOMAIN requests /\ requests'[q].reply = requests[q].reply
  PROVE  ReplyInv'
<1>1. \A m, r, c : MadeIn(m, r, c) => MadeIn(m, r, c)'
  BY MadeStays
<1>2. \A r \in Runtimes : \A c \in DOMAIN contexts'[r] :
        \/ /\ c \in DOMAIN contexts[r] /\ Deferred(r, c)' = Deferred(r, c)
           /\ contexts'[r][c].resolved = contexts[r][c].resolved
        \/ /\ Deferred(r, c)' = <<>> /\ contexts'[r][c].resolved = None
  BY DEF Deferred, S!Globals
<1>3. CarriedWhereMade'
  <2>1. ASSUME NEW r \in Runtimes, NEW m \in Makers(jobs[r])
        PROVE  /\ MadeIn(m, r, requests[m].context)'
               /\ requests'[m].context \in DOMAIN contexts'[r]
    <3>1. MadeIn(m, r, requests[m].context)
      BY DEF ReplyInv, CarriedWhereMade
    <3>2. PICK c : c = requests[m].context
      OBVIOUS
    <3>3. MadeIn(m, r, c)'
      BY <1>1, <3>1, <3>2
    <3>4. requests'[m].context = c
      BY <3>3 DEF MadeIn
    <3> QED
      BY <3>2, <3>3, <3>4 DEF MadeIn
  <2>2. ASSUME NEW r \in Runtimes, NEW c \in DOMAIN contexts'[r]
        PROVE  /\ \A m \in Makers(Deferred(r, c)') : MadeIn(m, r, c)'
               /\ contexts'[r][c].resolved # None => MadeIn(contexts[r][c].resolved.request, r, c)'
    <3>1. CASE /\ c \in DOMAIN contexts[r] /\ Deferred(r, c)' = Deferred(r, c)
               /\ contexts'[r][c].resolved = contexts[r][c].resolved
      <4>1. PICK x : x = contexts[r][c].resolved
        OBVIOUS
      <4>2. x # None => MadeIn(x.request, r, c)
        BY <3>1, <4>1 DEF ReplyInv, CarriedWhereMade
      <4>3. x # None => MadeIn(x.request, r, c)'
        BY <1>1, <4>2
      <4>4. \A m \in Makers(Deferred(r, c)) : MadeIn(m, r, c)
        BY <3>1 DEF ReplyInv, CarriedWhereMade
      <4> QED
        BY <1>1, <3>1, <4>1, <4>3, <4>4 DEF MadeIn
    <3>2. CASE Deferred(r, c)' = <<>> /\ contexts'[r][c].resolved = None
      BY <3>2, MakersOfNone
    <3> QED
      BY <1>2, <3>1, <3>2
  <2> QED
    BY <2>1, <2>2 DEF CarriedWhereMade, Runtimes, MadeIn
<1>4. CarriedOnce'
  <2>1. ASSUME NEW r \in Runtimes
        PROVE  /\ Distinct(jobs[r])
               /\ \A c \in DOMAIN contexts'[r] :
                    /\ Distinct(Deferred(r, c)')
                    /\ Makers(jobs[r]) \cap Makers(Deferred(r, c)') = {}
    BY <1>2, MakersOfNone DEF ReplyInv, CarriedOnce
  <2>2. \A t \in Draining' : /\ t \in Draining /\ Resolved(t)' = Resolved(t)
                             /\ Deferred(S!Runtime(t), S!ContextOf(t))' = Deferred(S!Runtime(t), S!ContextOf(t))
    BY DEF Resolved, Deferred
  <2>3. \A t \in Draining' : \A m \in Nat : Live(t, m)' => t \in Draining /\ Live(t, m)
    BY <2>2 DEF Live
  <2>4. \A t \in Draining' : \A m \in Nat : Live(t, m)' =>
          m \notin Makers(jobs[S!Runtime(t)']) \cup Makers(Deferred(S!Runtime(t), S!ContextOf(t))')
    BY <2>2, <2>3 DEF ReplyInv, CarriedOnce
  <2>5. ASSUME NEW q \in DOMAIN requests', NEW m \in Nat, Given(q, m)'
        PROVE  /\ q \in DOMAIN requests /\ Given(q, m)
               /\ requests'[q].runtime = requests[q].runtime
               /\ requests'[q].context = requests[q].context
    <3>1. q \in DOMAIN requests /\ requests'[q].reply = requests[q].reply
      BY <2>5 DEF Given
    <3>2. Given(q, m) /\ requests[q].reply # None
      BY <2>5, <3>1 DEF Given, Replied
    <3>3. \A t \in Early : request[t] # q
      BY <3>2 DEF HostInv, OwnRequests
    <3> QED
      BY <3>1, <3>2, <3>3
  <2>6. ASSUME NEW q \in DOMAIN requests', NEW m \in Nat, Given(q, m)'
        PROVE  /\ MadeIn(m, requests[q].runtime, requests[q].context)'
               /\ \A r \in Runtimes :
                    /\ m \notin Makers(jobs[r])
                    /\ \A c \in DOMAIN contexts'[r] : m \notin Makers(Deferred(r, c)')
               /\ \A t \in Draining' : ~Live(t, m)'
               /\ \A p \in DOMAIN requests' : Given(p, m)' => p = q
    <3>1. q \in DOMAIN requests /\ Given(q, m)
      BY <2>5, <2>6
    <3>2. /\ MadeIn(m, requests[q].runtime, requests[q].context)
          /\ \A r \in Runtimes :
               /\ m \notin Makers(jobs[r])
               /\ \A c \in DOMAIN contexts[r] : m \notin Makers(Deferred(r, c))
          /\ \A t \in Draining : ~Live(t, m)
          /\ \A p \in DOMAIN requests : Given(p, m) => p = q
      BY <3>1 DEF ReplyInv, CarriedOnce, Requests
    <3>3. PICK r, c : r = requests[q].runtime /\ c = requests[q].context
      OBVIOUS
    <3>4. MadeIn(m, r, c)'
      BY <1>1, <3>2, <3>3
    <3>5. MadeIn(m, requests[q].runtime, requests[q].context)'
      BY <2>5, <2>6, <3>3, <3>4 DEF MadeIn
    <3>6. \A s \in Runtimes : \A d \in DOMAIN contexts'[s] : m \notin Makers(Deferred(s, d)')
      BY <1>2, <3>2, MakersOfNone
    <3>7. \A p \in DOMAIN requests' : Given(p, m)' => p = q
      BY <2>5, <3>2
    <3> QED
      BY <2>3, <3>2, <3>5, <3>6, <3>7
  <2> QED
    BY <2>1, <2>4, <2>6 DEF CarriedOnce, Requests, Runtimes
<1> QED
  BY <1>3, <1>4 DEF ReplyInv

(* Threads that drain jobs work on a context that exists.                  *)
LEMMA DrainingWorks ==
  ASSUME HostInv, NEW t \in Draining
  PROVE  /\ t \in Handling /\ t \in Inside /\ t \in InUse /\ S!Runtime(t) \in Runtimes
         /\ S!ContextOf(t) \in DOMAIN contexts[S!Runtime(t)]
         /\ request[t] \in DOMAIN requests /\ S!Runtime(t) <= Len(made)
<1>1. t \in Handling /\ t \in Inside /\ t \in InUse
  BY DEF Draining, Handling, Inside, InUse
<1> QED
  BY <1>1, WorksOn DEF HostInv, ContextsApart, OwnRequests, S!Runtime

(* Neither do the steps of the registry, the arrivals and refusals.        *)
LEMMA OutsideReplies ==
  ASSUME HostInv, ReplyInv, NEW t \in Threads, at[t] \in {"away", "asking"},
         \A u \in Threads : u # t => at'[u] = at[u],
         at'[t] \in {"away", "asking"},
         UNCHANGED <<contexts, jobs, request, requests>>
  PROVE  ReplyInv'
<1>1. Early' = Early /\ Draining' = Draining
  BY DEF Early, Draining
<1>2. \A r \in Runtimes : \A m \in Makers(jobs[r]) : requests[m].context \in DOMAIN contexts[r]
  BY DEF ReplyInv, CarriedWhereMade
<1> QED
  BY <1>1, <1>2, RepliesKept DEF S!Runtime, S!ContextOf, Replied

(* The steps of the registry that make no runtime.                         *)
LEMMA SameReplies ==
  ASSUME HostInv, ReplyInv, UNCHANGED sharedVars
  PROVE  ReplyInv'
<1>1. UNCHANGED <<contexts, jobs, at, request, requests>>
  BY DEF sharedVars
<1>2. Early' = Early /\ Draining' = Draining
  BY <1>1 DEF Early, Draining
<1>3. \A r \in Runtimes : \A m \in Makers(jobs[r]) : requests[m].context \in DOMAIN contexts[r]
  BY DEF ReplyInv, CarriedWhereMade
<1> QED
  BY <1>1, <1>2, <1>3, RepliesKept DEF S!Runtime, S!ContextOf, Replied

(* No promise is queued on a runtime that is not made.                     *)
LEMMA NewReplies ==
  ASSUME HostInv, ReplyInv, RegistryInv, CallsCover, NEW t \in Threads, Create(t),
         S!New(Len(made) + 1)
  PROVE  ReplyInv'
<1>1. PICK n : n = Len(made) + 1
  OBVIOUS
<1>2. n \in Runtimes /\ Len(made) \in Nat
  BY <1>1, MadeNumbered
<1>3. /\ contexts' = [contexts EXCEPT ![n] = [k \in 1 .. MaxPool |-> S!Globals]]
      /\ UNCHANGED <<jobs, locked, at, request, requests>>
  BY <1>1 DEF S!New
<1>4. /\ \A r \in Runtimes : r # n => contexts'[r] = contexts[r]
      /\ \A c \in DOMAIN contexts'[n] : contexts'[n][c] = S!Globals
  BY <1>2, <1>3 DEF HostInv, HostTypes
<1>5. Early' = Early /\ Draining' = Draining
  BY <1>3 DEF Early, Draining
<1>6. ASSUME NEW r \in Runtimes, NEW m \in Makers(jobs[r])
      PROVE  requests[m].context \in DOMAIN contexts'[r]
  <2>1. MadeIn(m, r, requests[m].context) /\ requests[m].context \in DOMAIN contexts[r]
    BY DEF ReplyInv, CarriedWhereMade
  <2>2. r <= Len(made) /\ r \in Int
    BY <2>1 DEF MadeIn, HostInv, OwnRequests, Runtimes
  <2>3. r # n
    BY <1>1, <1>2, <2>2
  <2> QED
    BY <1>4, <2>1, <2>3
<1>7. \A u \in Draining : S!Runtime(u) # n /\ S!Runtime(u) \in Runtimes
  <2> SUFFICES ASSUME NEW u \in Draining PROVE S!Runtime(u) # n /\ S!Runtime(u) \in Runtimes
    OBVIOUS
  <2>1. S!Runtime(u) <= Len(made) /\ S!Runtime(u) \in Runtimes
    BY DrainingWorks
  <2> QED
    BY <1>1, <1>2, <2>1 DEF Runtimes
<1> QED
  BY <1>3, <1>4, <1>5, <1>6, <1>7, RepliesKept DEF S!Runtime, S!ContextOf, Replied

(* A request begins: it made nothing yet.                                  *)
LEMMA BeginReplies ==
  ASSUME HostInv, ReplyInv, NEW t \in Threads, NEW h \in Handlers, Handle(t, h)
  PROVE  ReplyInv'
<1>1. PICK n, rec : /\ n = Len(requests) + 1
                    /\ rec = [runtime |-> answer[t], context |-> 0, handler |-> h, reply |-> None]
  OBVIOUS
<1>2. /\ requests' = Append(requests, rec) /\ request' = [request EXCEPT ![t] = n]
      /\ at' = [at EXCEPT ![t] = "acquiring"] /\ at[t] = "asking"
      /\ UNCHANGED <<contexts, jobs>>
  BY <1>1 DEF Handle, S!Begin
<1>3. /\ n \notin DOMAIN requests /\ DOMAIN requests' = DOMAIN requests \cup {n}
      /\ requests'[n] = rec /\ \A q \in DOMAIN requests : requests'[q] = requests[q]
  BY <1>1, <1>2 DEF HostInv, HostTypes
<1>4. /\ \A u \in Threads : u # t => at'[u] = at[u] /\ request'[u] = request[u]
      /\ at'[t] = "acquiring" /\ request'[t] = n
  BY <1>2 DEF HostInv, HostTypes
<1>5. /\ \A u \in Early' : u = t \/ (u \in Early /\ request'[u] = request[u])
      /\ \A u \in Draining' : u \in Draining /\ request'[u] = request[u]
  BY <1>4 DEF Early, Draining
<1>6. \A u \in Draining' : S!Runtime(u)' = S!Runtime(u) /\ S!ContextOf(u)' = S!ContextOf(u)
  BY <1>3, <1>5, DrainingWorks DEF S!Runtime, S!ContextOf
<1>7. \A q \in DOMAIN requests' : Replied(q)' => q \in DOMAIN requests /\ requests'[q].reply = requests[q].reply
  BY <1>1, <1>3 DEF Replied
<1>8. \A r \in Runtimes : \A m \in Makers(jobs[r]) : requests[m].context \in DOMAIN contexts[r]
  BY DEF ReplyInv, CarriedWhereMade
<1> QED
  BY <1>2, <1>3, <1>4, <1>5, <1>6, <1>7, <1>8, RepliesKept

(* A thread whose handler was not called gets a context, an old or a new   *)
(* one, or gives up, or takes one more step to one; or it is done.         *)
LEMMA EarlyReplies ==
  ASSUME HostInv, ReplyInv, NEW t \in Handling, t \notin Draining,
         jobs' = jobs, DOMAIN requests' = DOMAIN requests,
         \A u \in Threads : u # t => at'[u] = at[u] /\ request'[u] = request[u],
         at'[t] # "draining",
         at'[t] \in {"acquiring", "creating", "acquired"} => t \in Early /\ request'[t] = request[t],
         \A r \in Runtimes : \A c \in DOMAIN contexts'[r] :
           \/ c \in DOMAIN contexts[r] /\ contexts'[r][c] = contexts[r][c]
           \/ c \notin DOMAIN contexts[r] /\ contexts'[r][c] = S!Globals,
         \A r \in Runtimes : DOMAIN contexts[r] \subseteq DOMAIN contexts'[r],
         \A q \in DOMAIN requests : q # request[t] => requests'[q] = requests[q],
         requests'[request[t]].runtime = requests[request[t]].runtime,
         t \notin Early => requests'[request[t]].context = requests[request[t]].context,
         \A q \in DOMAIN requests :
           q = request[t] /\ Replied(q)' => requests'[q].reply = requests[q].reply
  PROVE  ReplyInv'
<1>1. /\ \A u \in Early' : u \in Early /\ request'[u] = request[u]
      /\ \A u \in Draining' : u \in Draining /\ u # t /\ request'[u] = request[u]
  BY DEF Early, Draining, Handling
<1>2. \A u \in Draining' : request[u] # request[t] /\ request[u] \in DOMAIN requests
  BY <1>1, DrainingWorks DEF HostInv, OwnRequests
<1>3. \A u \in Draining' : S!Runtime(u)' = S!Runtime(u) /\ S!ContextOf(u)' = S!ContextOf(u)
  BY <1>1, <1>2 DEF S!Runtime, S!ContextOf
<1>4. \A u \in Draining' : contexts'[S!Runtime(u)][S!ContextOf(u)] = contexts[S!Runtime(u)][S!ContextOf(u)]
  BY <1>1, DrainingWorks
<1>5. \A r \in Runtimes : \A m \in Makers(jobs[r]) : requests[m].context \in DOMAIN contexts'[r]
  BY DEF ReplyInv, CarriedWhereMade
<1>6. \A q \in DOMAIN requests : (\A u \in Early : request[u] # q) =>
        requests'[q].runtime = requests[q].runtime /\ requests'[q].context = requests[q].context
  OBVIOUS
<1>7. \A q \in DOMAIN requests' : Replied(q)' =>
        q \in DOMAIN requests /\ requests'[q].reply = requests[q].reply
  OBVIOUS
<1> QED
  BY <1>1, <1>3, <1>4, <1>5, <1>6, <1>7, RepliesKept

(* The steps to a context, which may be a new one.                         *)
LEMMA AcquireReplies ==
  ASSUME HostInv, ReplyInv, NEW t \in Handling,
         S!AcquireIdle(t) \/ S!AcquireNone(t) \/ S!CreateContext(t)
  PROVE  ReplyInv'
<1>1. /\ at[t] \in {"acquiring", "creating"} /\ at'[t] \in {"acquired", "creating"}
      /\ \A u \in Threads : u # t => at'[u] = at[u]
      /\ UNCHANGED <<jobs, request>> /\ t \in Early /\ t \notin Draining
  BY DEF S!AcquireIdle, S!AcquireNone, S!CreateContext, S!Take, HostInv, HostTypes,
         Early, Draining, Handling
<1>2. request[t] \in DOMAIN requests /\ requests \in Seq(RequestRecords)
  BY WorksOn DEF HostInv, HostTypes
<1>3. \/ requests' = requests
      \/ \E ctx : requests' = [requests EXCEPT ![request[t]].context = ctx]
  BY DEF S!AcquireIdle, S!AcquireNone, S!CreateContext, S!Take
<1>4. /\ DOMAIN requests' = DOMAIN requests
      /\ \A q \in DOMAIN requests : q # request[t] => requests'[q] = requests[q]
      /\ requests'[request[t]].runtime = requests[request[t]].runtime
      /\ requests'[request[t]].reply = requests[request[t]].reply
  <2>1. requests[request[t]] \in RequestRecords
    BY <1>2
  <2>2. CASE requests' = requests
    BY <2>2
  <2>3. ASSUME NEW ctx, requests' = [requests EXCEPT ![request[t]].context = ctx]
        PROVE  /\ DOMAIN requests' = DOMAIN requests
               /\ \A q \in DOMAIN requests : q # request[t] => requests'[q] = requests[q]
               /\ requests'[request[t]] = [requests[request[t]] EXCEPT !.context = ctx]
    BY <1>2, <2>3
  <2>4. ASSUME NEW ctx
        PROVE  /\ [requests[request[t]] EXCEPT !.context = ctx].runtime
                    = requests[request[t]].runtime
               /\ [requests[request[t]] EXCEPT !.context = ctx].reply = requests[request[t]].reply
    BY <2>1 DEF RequestRecords
  <2> QED
    BY <1>3, <2>2, <2>3, <2>4
<1>5. /\ \A r \in Runtimes : \A c \in DOMAIN contexts'[r] :
           \/ c \in DOMAIN contexts[r] /\ contexts'[r][c] = contexts[r][c]
           \/ c \notin DOMAIN contexts[r] /\ contexts'[r][c] = S!Globals
      /\ \A r \in Runtimes : DOMAIN contexts[r] \subseteq DOMAIN contexts'[r]
  <2>1. CASE contexts' = contexts
    BY <2>1
  <2>2. CASE S!CreateContext(t)
    <3>1. PICK r, old, new : r = S!Runtime(t) /\ old = contexts[r] /\ new = Append(old, S!Globals)
      OBVIOUS
    <3>2. r \in Runtimes /\ old \in Seq(Context)
      BY <3>1, WorksOn DEF HostInv
    <3>3. \A c \in DOMAIN new : \/ c \in DOMAIN old /\ new[c] = old[c]
                                \/ c \notin DOMAIN old /\ new[c] = S!Globals
      BY <3>1, <3>2
    <3>4. DOMAIN old \subseteq DOMAIN new
      BY <3>1, <3>2
    <3>5. contexts' = [contexts EXCEPT ![r] = new]
      BY <2>2, <3>1 DEF S!CreateContext
    <3>6. contexts'[r] = new /\ \A s \in Runtimes : s # r => contexts'[s] = contexts[s]
      BY <3>2, <3>5 DEF HostInv, HostTypes
    <3> QED
      BY <3>1, <3>3, <3>4, <3>6
  <2> QED
    BY <2>1, <2>2 DEF S!AcquireIdle, S!AcquireNone
<1> QED
  BY <1>1, <1>4, <1>5, EarlyReplies

(* The steps after which the thread is away.                               *)
LEMMA LeaveReplies ==
  ASSUME HostInv, ReplyInv, NEW t \in Handling, S!CreateContextFails(t) \/ S!Release(t)
  PROVE  ReplyInv'
<1>1. /\ at[t] \in {"creating", "releasing"} /\ at'[t] = "away" /\ t \notin Draining
      /\ \A u \in Threads : u # t => at'[u] = at[u] /\ request'[u] = request[u]
      /\ UNCHANGED <<jobs, contexts>>
  BY DEF S!CreateContextFails, S!Release, HostInv, HostTypes, Draining, Handling
<1>2. request[t] \in DOMAIN requests
  BY WorksOn DEF HostInv
<1>3. CASE S!Release(t)
  <2>1. requests' = requests
    BY <1>3 DEF S!Release
  <2> QED
    BY <1>1, <2>1, EarlyReplies
<1>4. CASE S!CreateContextFails(t)
  <2>1. requests' = [requests EXCEPT ![request[t]].reply = S!J!Fresh] /\ t \in Early
    BY <1>4 DEF S!CreateContextFails, Early, Handling
  <2>2. PICK q \in DOMAIN requests : q = request[t]
    BY <1>2
  <2>3. /\ DOMAIN requests' = DOMAIN requests /\ requests'[q].reply = S!J!Fresh
        /\ requests'[q].runtime = requests[q].runtime
        /\ \A p \in DOMAIN requests : p # q => requests'[p] = requests[p]
    <3>1. requests \in Seq(RequestRecords) /\ requests[q] \in RequestRecords
      BY DEF HostInv, HostTypes
    <3> QED
      BY <2>1, <2>2, <3>1 DEF RequestRecords
  <2>4. "request" \notin DOMAIN S!J!Fresh
    BY DEF S!J!Fresh
  <2>5. ~Replied(q)'
    BY <2>3, <2>4 DEF Replied
  <2> QED
    BY <1>1, <2>1, <2>2, <2>3, <2>5, EarlyReplies
<1> QED
  BY <1>3, <1>4

(* Only the thread that has the lock of a runtime drains its jobs.         *)
LEMMA DrainsAlone ==
  ASSUME HostInv
  PROVE  \A t, u \in Draining : S!Runtime(t) = S!Runtime(u) => t = u
BY DrainingWorks DEF HostInv, OwnRequests

(* The call of a handler: its response is a new one.                       *)
LEMMA CallFetchReplies ==
  ASSUME HostInv, ReplyInv, NEW t \in Handling, S!CallFetch(t)
  PROVE  ReplyInv'
<1> USE PoolAssumption
<1>1. PICK r, c, m : r = S!Runtime(t) /\ c = S!ContextOf(t) /\ m = request[t]
  OBVIOUS
<1>2. /\ r \in Runtimes /\ c \in DOMAIN contexts[r] /\ m \in DOMAIN requests /\ m \in Nat
      /\ \A s \in Runtimes : DOMAIN contexts'[s] = DOMAIN contexts[s]
      /\ \A s \in Runtimes : \A d \in DOMAIN contexts[s] :
           s # r \/ d # c => contexts'[s][d] = contexts[s][d]
      /\ \A s \in Runtimes : s # r => jobs'[s] = jobs[s]
  BY <1>1, CallFetchChanges
<1>3. /\ Distinct(jobs'[r]) /\ Distinct(Deferred(r, c)')
      /\ Makers(jobs'[r]) \cap Makers(Deferred(r, c)') = {}
      /\ Makers(jobs'[r]) \subseteq Makers(jobs[r]) \cup Makers(Deferred(r, c)) \cup {m}
      /\ Makers(Deferred(r, c)') \subseteq Makers(Deferred(r, c)) \cup {m}
      /\ contexts'[r][c].resolved # None =>
           /\ contexts'[r][c].resolved.request = m
           /\ m \notin Makers(jobs'[r]) \cup Makers(Deferred(r, c)')
  BY <1>1, CallFetchChanges
<1>4. /\ at[t] = "acquired" /\ locked[r] = None /\ t \in Threads /\ t \in Early
      /\ at'[t] \in {"failed", "draining"}
      /\ \A u \in Threads : u # t => at'[u] = at[u]
      /\ UNCHANGED <<request, requests>>
  BY <1>1 DEF S!CallFetch, Handling, Early, HostInv, HostTypes
<1>5. /\ Early' = Early \ {t}
      /\ \A u \in Draining' : u = t \/ (u \in Draining /\ u # t)
      /\ \A u \in Threads : S!Runtime(u)' = S!Runtime(u) /\ S!ContextOf(u)' = S!ContextOf(u)
  BY <1>4 DEF Early, Draining, S!Runtime, S!ContextOf
<1>6. \A x, s, d : MadeIn(x, s, d) => MadeIn(x, s, d)' /\ x # m
  BY <1>1, <1>4, <1>5 DEF MadeIn
<1>7. MadeIn(m, r, c)'
  <2>1. \A u \in Early' : request[u] # m
    BY <1>1, <1>5 DEF Early, Handling, HostInv, OwnRequests
  <2> QED
    BY <1>1, <1>2, <1>4, <2>1 DEF MadeIn, S!Runtime, S!ContextOf
<1>8. \A s \in Runtimes : \A x \in Makers(jobs[s]) :
        MadeIn(x, s, requests[x].context) /\ requests[x].context \in DOMAIN contexts[s]
  BY DEF ReplyInv, CarriedWhereMade
<1>9. \A s \in Runtimes : \A d \in DOMAIN contexts[s] :
        /\ \A x \in Makers(Deferred(s, d)) : MadeIn(x, s, d)
        /\ contexts[s][d].resolved # None => MadeIn(contexts[s][d].resolved.request, s, d)
  BY DEF ReplyInv, CarriedWhereMade
<1>10. \A s \in Runtimes : \A d \in DOMAIN contexts[s] : s # r \/ d # c =>
         /\ Deferred(s, d)' = Deferred(s, d) /\ contexts'[s][d].resolved = contexts[s][d].resolved
  BY <1>2 DEF Deferred
<1>11. CarriedWhereMade'
  <2>1. ASSUME NEW s \in Runtimes, NEW x \in Makers(jobs'[s])
        PROVE  MadeIn(x, s, requests[x].context)' /\ requests'[x].context \in DOMAIN contexts'[s]
    <3>1. CASE x \in Makers(jobs[s])
      <4>1. PICK d : d = requests[x].context
        OBVIOUS
      <4>2. MadeIn(x, s, d)' /\ d \in DOMAIN contexts[s]
        BY <1>6, <1>8, <3>1, <4>1
      <4> QED
        BY <1>2, <1>4, <4>1, <4>2
    <3>2. CASE x \notin Makers(jobs[s])
      <4>1. s = r /\ (x \in Makers(Deferred(r, c)) \/ x = m)
        BY <1>2, <1>3, <3>2
      <4>2. MadeIn(x, r, c)'
        BY <1>2, <1>6, <1>7, <1>9, <4>1
      <4>3. requests[x].context = c
        BY <1>4, <4>2 DEF MadeIn
      <4> QED
        BY <1>2, <1>4, <4>1, <4>2, <4>3
    <3> QED
      BY <3>1, <3>2
  <2>2. ASSUME NEW s \in Runtimes, NEW d \in DOMAIN contexts[s]
        PROVE  /\ \A x \in Makers(Deferred(s, d)') : MadeIn(x, s, d)'
               /\ \A y : y = contexts'[s][d].resolved /\ y # None => MadeIn(y.request, s, d)'
    <3>1. CASE s # r \/ d # c
      BY <1>6, <1>9, <1>10, <3>1
    <3>2. CASE s = r /\ d = c
      BY <1>2, <1>3, <1>6, <1>7, <1>9, <3>2
    <3> QED
      BY <3>1, <3>2
  <2> QED
    BY <1>2, <2>1, <2>2 DEF CarriedWhereMade, Runtimes
<1>12. \A x \in Makers(jobs'[r]) \cup Makers(Deferred(r, c)') :
         x = m \/ x \in Makers(jobs[r]) \/ x \in Makers(Deferred(r, c))
  BY <1>3
<1>13. CarriedOnce'
  <2>1. \A s \in Runtimes : \A d \in DOMAIN contexts[s] :
          /\ Distinct(jobs[s]) /\ Distinct(Deferred(s, d))
          /\ Makers(jobs[s]) \cap Makers(Deferred(s, d)) = {}
    BY DEF ReplyInv, CarriedOnce
  <2>2. \A s \in Runtimes : Distinct(jobs'[s])
    BY <1>2, <1>3 DEF ReplyInv, CarriedOnce
  <2>3. ASSUME NEW s \in Runtimes, NEW d \in DOMAIN contexts[s]
        PROVE  Distinct(Deferred(s, d)') /\ Makers(jobs'[s]) \cap Makers(Deferred(s, d)') = {}
    <3>1. CASE s # r
      BY <1>2, <1>10, <2>1, <3>1
    <3>2. CASE s = r /\ d = c
      BY <1>3, <3>2
    <3>3. CASE s = r /\ d # c
      <4>1. Deferred(r, d)' = Deferred(r, d)
        BY <1>2, <1>10, <3>3
      <4>2. ASSUME NEW x \in Makers(jobs'[r]), x \in Makers(Deferred(r, d)) PROVE FALSE
        <5>1. MadeIn(x, r, d) /\ x # m
          BY <1>6, <1>9, <3>3, <4>2
        <5>2. x \notin Makers(jobs[r])
          BY <2>1, <3>3, <4>2
        <5>3. MadeIn(x, r, c)
          BY <1>2, <1>9, <1>12, <5>1, <5>2
        <5> QED
          BY <3>3, <5>1, <5>3 DEF MadeIn
      <4> QED
        BY <2>1, <3>3, <4>1, <4>2
    <3> QED
      BY <3>1, <3>2, <3>3
  <2>4. ASSUME NEW u \in Draining', u # t
        PROVE  /\ u \in Draining /\ S!Runtime(u) # r /\ S!Runtime(u) \in Runtimes
               /\ S!Runtime(u)' = S!Runtime(u) /\ S!ContextOf(u)' = S!ContextOf(u)
               /\ Resolved(u)' = Resolved(u) /\ jobs'[S!Runtime(u)] = jobs[S!Runtime(u)]
               /\ Deferred(S!Runtime(u), S!ContextOf(u))' = Deferred(S!Runtime(u), S!ContextOf(u))
    <3>1. u \in Draining /\ u \in Threads
      BY <1>5, <2>4 DEF Draining
    <3>2. locked[S!Runtime(u)] = u /\ S!Runtime(u) \in Runtimes /\ S!ContextOf(u) \in DOMAIN contexts[S!Runtime(u)]
      BY <3>1, DrainingWorks DEF HostInv, OwnRequests
    <3>3. S!Runtime(u) # r
      BY <1>4, <3>1, <3>2
    <3>4. contexts'[S!Runtime(u)][S!ContextOf(u)] = contexts[S!Runtime(u)][S!ContextOf(u)]
      BY <1>2, <3>2, <3>3
    <3> QED
      BY <1>2, <1>5, <3>1, <3>2, <3>3, <3>4 DEF Resolved, Deferred
  <2>5. S!Runtime(t)' = r /\ S!ContextOf(t)' = c /\ Resolved(t)' = contexts'[r][c].resolved
    BY <1>1, <1>4, <1>5 DEF Resolved
  <2>6. ASSUME NEW u \in Draining', NEW x \in Nat, Live(u, x)'
        PROVE  /\ x \notin Makers(jobs'[S!Runtime(u)'])
               /\ x \notin Makers(Deferred(S!Runtime(u), S!ContextOf(u))')
               /\ x = m \/ (u \in Draining /\ Live(u, x))
    <3>1. CASE u = t
      <4>1. Resolved(t)' # None /\ x = m
        BY <1>3, <2>5, <2>6, <3>1 DEF Live
      <4>2. Deferred(S!Runtime(t), S!ContextOf(t))' = Deferred(r, c)'
        BY <2>5 DEF Deferred
      <4> QED
        BY <1>3, <2>5, <3>1, <4>1, <4>2
    <3>2. CASE u # t
      <4>1. Live(u, x)
        BY <2>4, <2>6, <3>2 DEF Live
      <4>2. /\ x \notin Makers(jobs[S!Runtime(u)])
            /\ x \notin Makers(Deferred(S!Runtime(u), S!ContextOf(u)))
        BY <2>4, <3>2, <4>1 DEF ReplyInv, CarriedOnce
      <4> QED
        BY <2>4, <3>2, <4>1, <4>2
    <3> QED
      BY <3>1, <3>2
  <2>7. ASSUME NEW q \in DOMAIN requests', NEW x \in Nat, Given(q, x)'
        PROVE  /\ MadeIn(x, requests[q].runtime, requests[q].context)'
               /\ \A s \in Runtimes :
                    /\ x \notin Makers(jobs'[s])
                    /\ \A d \in DOMAIN contexts[s] : x \notin Makers(Deferred(s, d)')
               /\ \A u \in Draining' : ~Live(u, x)'
               /\ \A p \in DOMAIN requests' : Given(p, x)' => p = q
    <3>1. \A p : Given(p, x)' <=> Given(p, x)
      BY <1>4 DEF Given, Replied
    <3>2. q \in DOMAIN requests /\ Given(q, x)
      BY <1>4, <2>7, <3>1
    <3>3. /\ MadeIn(x, requests[q].runtime, requests[q].context)
          /\ \A s \in Runtimes :
               /\ x \notin Makers(jobs[s])
               /\ \A d \in DOMAIN contexts[s] : x \notin Makers(Deferred(s, d))
          /\ \A u \in Draining : ~Live(u, x)
          /\ \A p \in DOMAIN requests : Given(p, x) => p = q
      BY <3>2 DEF ReplyInv, CarriedOnce, Requests
    <3>4. PICK s, d : s = requests[q].runtime /\ d = requests[q].context
      OBVIOUS
    <3>5. MadeIn(x, s, d)' /\ x # m
      BY <1>6, <3>3, <3>4
    <3>6. MadeIn(x, requests[q].runtime, requests[q].context)'
      BY <1>4, <3>4, <3>5 DEF MadeIn
    <3>7. \A v \in Runtimes : x \notin Makers(jobs'[v])
      BY <1>2, <1>12, <3>3, <3>5
    <3>8. \A v \in Runtimes : \A w \in DOMAIN contexts[v] : x \notin Makers(Deferred(v, w)')
      BY <1>2, <1>10, <1>12, <3>3, <3>5
    <3>9. \A u \in Draining' : ~Live(u, x)'
      BY <2>6, <3>3, <3>5
    <3> QED
      BY <1>4, <3>1, <3>3, <3>6, <3>7, <3>8, <3>9
  <2> QED
    BY <1>2, <2>2, <2>3, <2>6, <2>7 DEF CarriedOnce, Requests, Runtimes
<1> QED
  BY <1>11, <1>13 DEF ReplyInv
(* A job runs: its response is in the queue still, or in the global of the *)
(* context where its request made it.                                      *)
LEMMA RunJobReplies ==
  ASSUME HostInv, ReplyInv, NEW t \in Handling, S!RunJob(t)
  PROVE  ReplyInv'
<1>1. PICK r : r = S!Runtime(t)
  OBVIOUS
<1>2. PICK m : m = Head(jobs[r]).response.request
  OBVIOUS
<1>0. PICK c : c = requests[m].context
  OBVIOUS
<1>3. /\ r \in Runtimes /\ m \in Makers(jobs[r]) /\ c \in DOMAIN contexts[r]
      /\ contexts' \in [Runtimes -> Seq(Context)]
      /\ \A s \in Runtimes : DOMAIN contexts'[s] = DOMAIN contexts[s]
      /\ \A s \in Runtimes : \A d \in DOMAIN contexts[s] :
           /\ Deferred(s, d)' = Deferred(s, d)
           /\ s # r \/ d # c => contexts'[s][d] = contexts[s][d]
      /\ jobs' \in [Runtimes -> Seq(Pending)]
      /\ \A s \in Runtimes : s # r => jobs'[s] = jobs[s]
      /\ Distinct(jobs'[r]) /\ Makers(jobs'[r]) \subseteq Makers(jobs[r])
      /\ \/ contexts'[r][c].resolved = contexts[r][c].resolved
         \/ contexts'[r][c].resolved.request = m /\ m \notin Makers(jobs'[r])
  <2>1. Ran(r, m, c)
    BY <1>0, <1>1, <1>2, RunJobChanges
  <2> QED
    BY <2>1 DEF Ran
<1>4. at[t] = "draining" /\ t \in Draining /\ UNCHANGED <<at, request, requests>>
  BY DEF S!RunJob, Draining, Handling
<1>5. /\ Early' = Early /\ Draining' = Draining
      /\ \A u \in Threads : S!Runtime(u)' = S!Runtime(u) /\ S!ContextOf(u)' = S!ContextOf(u)
      /\ \A q, x : Given(q, x)' <=> Given(q, x)
  BY <1>4 DEF Early, Draining, S!Runtime, S!ContextOf, Given, Replied
<1>6. \A x, s, d : MadeIn(x, s, d)' <=> MadeIn(x, s, d)
  BY <1>4, <1>5 DEF MadeIn
<1>7. \A s \in Runtimes : \A x \in Makers(jobs[s]) :
        MadeIn(x, s, requests[x].context) /\ requests[x].context \in DOMAIN contexts[s]
  BY DEF ReplyInv, CarriedWhereMade
<1>8. \A s \in Runtimes : \A d \in DOMAIN contexts[s] :
        /\ \A x \in Makers(Deferred(s, d)) : MadeIn(x, s, d)
        /\ contexts[s][d].resolved # None => MadeIn(contexts[s][d].resolved.request, s, d)
  BY DEF ReplyInv, CarriedWhereMade
<1>9. \A s \in Runtimes : Makers(jobs'[s]) \subseteq Makers(jobs[s])
  BY <1>3
<1>10. MadeIn(m, r, c)
  BY <1>0, <1>3, <1>7
<1>11. CarriedWhereMade'
  <2>1. ASSUME NEW s \in Runtimes, NEW x \in Makers(jobs'[s])
        PROVE  MadeIn(x, s, requests[x].context)' /\ requests'[x].context \in DOMAIN contexts'[s]
    <3>1. PICK d : d = requests[x].context
      OBVIOUS
    <3>2. MadeIn(x, s, d)' /\ d \in DOMAIN contexts[s]
      BY <1>6, <1>7, <1>9, <3>1
    <3> QED
      BY <1>3, <1>4, <3>1, <3>2
  <2>2. ASSUME NEW s \in Runtimes, NEW d \in DOMAIN contexts[s]
        PROVE  /\ \A x \in Makers(Deferred(s, d)') : MadeIn(x, s, d)'
               /\ \A y : y = contexts'[s][d].resolved /\ y # None => MadeIn(y.request, s, d)'
    <3>1. \A x \in Makers(Deferred(s, d)') : MadeIn(x, s, d)'
      BY <1>3, <1>6, <1>8
    <3>2. CASE contexts'[s][d].resolved = contexts[s][d].resolved
      BY <1>6, <1>8, <3>1, <3>2
    <3>3. CASE contexts'[s][d].resolved # contexts[s][d].resolved
      <4>1. s = r /\ d = c /\ contexts'[s][d].resolved.request = m
        BY <1>3, <3>3
      <4> QED
        BY <1>6, <1>10, <3>1, <4>1
    <3> QED
      BY <3>2, <3>3
  <2> QED
    BY <1>3, <2>1, <2>2 DEF CarriedWhereMade, Runtimes
<1>12. CarriedOnce'
  <2>1. \A s \in Runtimes : \A d \in DOMAIN contexts[s] :
          /\ Distinct(jobs[s]) /\ Distinct(Deferred(s, d))
          /\ Makers(jobs[s]) \cap Makers(Deferred(s, d)) = {}
    BY DEF ReplyInv, CarriedOnce
  <2>2. \A s \in Runtimes : Distinct(jobs'[s])
    BY <1>3 DEF ReplyInv, CarriedOnce
  <2>3. \A s \in Runtimes : \A d \in DOMAIN contexts[s] :
          /\ Distinct(Deferred(s, d)')
          /\ Makers(jobs'[s]) \cap Makers(Deferred(s, d)') = {}
    BY <1>3, <1>9, <2>1
  <2>4. \A u \in Draining : /\ S!Runtime(u) \in Runtimes /\ u \in Threads
                            /\ S!ContextOf(u) \in DOMAIN contexts[S!Runtime(u)]
    BY DrainingWorks DEF Draining
  <2>5. ASSUME NEW u \in Draining, NEW x \in Nat, Live(u, x)'
        PROVE  \/ Live(u, x)
               \/ S!Runtime(u) = r /\ S!ContextOf(u) = c /\ x = m /\ m \notin Makers(jobs'[r])
    <3>1. Resolved(u)' = contexts'[S!Runtime(u)][S!ContextOf(u)].resolved
      BY <1>5, <2>4 DEF Resolved
    <3>2. CASE S!Runtime(u) = r /\ S!ContextOf(u) = c
      BY <1>3, <2>5, <3>1, <3>2 DEF Live, Resolved
    <3>3. CASE S!Runtime(u) # r \/ S!ContextOf(u) # c
      BY <1>3, <2>4, <2>5, <3>1, <3>3 DEF Live, Resolved
    <3> QED
      BY <3>2, <3>3
  <2>6. ASSUME NEW u \in Draining, NEW x \in Nat, Live(u, x)'
        PROVE  /\ x \notin Makers(jobs'[S!Runtime(u)])
               /\ x \notin Makers(Deferred(S!Runtime(u), S!ContextOf(u))')
    <3>1. Deferred(S!Runtime(u), S!ContextOf(u))' = Deferred(S!Runtime(u), S!ContextOf(u))
      <4>1. PICK s, d : s = S!Runtime(u) /\ d = S!ContextOf(u)
        OBVIOUS
      <4> QED
        BY <1>3, <1>5, <2>4, <4>1 DEF Deferred
    <3>2. CASE Live(u, x)
      <4>1. x \notin Makers(jobs[S!Runtime(u)]) \cup Makers(Deferred(S!Runtime(u), S!ContextOf(u)))
        BY <3>2 DEF ReplyInv, CarriedOnce
      <4> QED
        BY <1>9, <2>4, <3>1, <4>1
    <3>3. CASE S!Runtime(u) = r /\ S!ContextOf(u) = c /\ x = m /\ m \notin Makers(jobs'[r])
      BY <1>3, <2>1, <3>1, <3>3
    <3> QED
      BY <2>5, <2>6, <3>2, <3>3
  <2>7. ASSUME NEW q \in DOMAIN requests', NEW x \in Nat, Given(q, x)'
        PROVE  /\ MadeIn(x, requests[q].runtime, requests[q].context)'
               /\ \A s \in Runtimes :
                    /\ x \notin Makers(jobs'[s])
                    /\ \A d \in DOMAIN contexts[s] : x \notin Makers(Deferred(s, d)')
               /\ \A u \in Draining : ~Live(u, x)'
               /\ \A p \in DOMAIN requests' : Given(p, x)' => p = q
    <3>1. q \in DOMAIN requests /\ Given(q, x)
      BY <1>4, <1>5, <2>7
    <3>2. /\ MadeIn(x, requests[q].runtime, requests[q].context)
          /\ \A s \in Runtimes :
               /\ x \notin Makers(jobs[s])
               /\ \A d \in DOMAIN contexts[s] : x \notin Makers(Deferred(s, d))
          /\ \A u \in Draining : ~Live(u, x)
          /\ \A p \in DOMAIN requests : Given(p, x) => p = q
      BY <3>1 DEF ReplyInv, CarriedOnce, Requests
    <3>3. x # m
      BY <1>3, <3>2
    <3>4. PICK s, d : s = requests[q].runtime /\ d = requests[q].context
      OBVIOUS
    <3>5. MadeIn(x, s, d)'
      BY <1>6, <3>2, <3>4
    <3>6. MadeIn(x, requests[q].runtime, requests[q].context)'
      BY <1>4, <3>4, <3>5 DEF MadeIn
    <3>7. \A u \in Draining : ~Live(u, x)'
      BY <2>5, <3>2, <3>3
    <3>8. \A v \in Runtimes :
            /\ x \notin Makers(jobs'[v])
            /\ \A w \in DOMAIN contexts[v] : x \notin Makers(Deferred(v, w)')
      BY <1>3, <1>9, <3>2
    <3> QED
      BY <1>4, <1>5, <3>2, <3>6, <3>7, <3>8
  <2>8. \A u \in Draining : S!Runtime(u)' = S!Runtime(u) /\ S!ContextOf(u)' = S!ContextOf(u)
    BY <1>5, <2>4
  <2> QED
    BY <1>3, <1>5, <2>2, <2>3, <2>6, <2>7, <2>8 DEF CarriedOnce, Requests, Runtimes
<1> QED
  BY <1>11, <1>12 DEF ReplyInv

(* The end of ctx.with: what the global holds becomes the reply, and the   *)
(* thread no longer reads it.                                              *)
LEMMA EndFetchGives ==
  ASSUME HostInv, ReplyInv, NEW t \in Handling, S!EndFetch(t)
  PROVE  ReplyInv'
<1>1. PICK v \in Responses \cup {None, S!J!Fresh} :
        /\ requests' = [requests EXCEPT ![request[t]].reply = v]
        /\ v = S!J!Fresh \/ (/\ at[t] = "draining" /\ Resolved(t) # None
                             /\ v \in Responses /\ v.request = Resolved(t).request)
  BY EndFetchReplies
<1>2. PICK n \in DOMAIN requests : n = request[t]
  BY WorksOn DEF HostInv
<1>3. /\ requests' \in Seq(RequestRecords) /\ DOMAIN requests' = DOMAIN requests
      /\ \A p \in DOMAIN requests : /\ requests'[p].runtime = requests[p].runtime
                                    /\ requests'[p].context = requests[p].context
                                    /\ p # n => requests'[p].reply = requests[p].reply
      /\ requests'[n].reply = v
  BY <1>1, <1>2, ReplyNoted DEF HostInv
<1>4. /\ at[t] \in {"failed", "draining"} /\ at' = [at EXCEPT ![t] = "releasing"]
      /\ t \in Threads /\ UNCHANGED <<contexts, jobs, request>>
  BY DEF S!EndFetch, Handling
<1>5. Early' = Early /\ Draining' = Draining \ {t}
  BY <1>4 DEF Early, Draining, HostInv, HostTypes
<1>6. \A x, s, d : MadeIn(x, s, d)' <=> MadeIn(x, s, d)
  BY <1>3, <1>4, <1>5 DEF MadeIn
<1>7. \A s, d : Deferred(s, d)' = Deferred(s, d)
  BY <1>4 DEF Deferred
<1>8. \A u \in Draining : /\ S!Runtime(u)' = S!Runtime(u) /\ S!ContextOf(u)' = S!ContextOf(u)
                          /\ Resolved(u)' = Resolved(u)
  <2> SUFFICES ASSUME NEW u \in Draining
               PROVE  /\ S!Runtime(u)' = S!Runtime(u) /\ S!ContextOf(u)' = S!ContextOf(u)
                      /\ Resolved(u)' = Resolved(u)
    OBVIOUS
  <2>1. request[u] \in DOMAIN requests /\ request'[u] = request[u]
    BY <1>4, DrainingWorks
  <2>2. S!Runtime(u)' = S!Runtime(u) /\ S!ContextOf(u)' = S!ContextOf(u)
    BY <1>3, <2>1 DEF S!Runtime, S!ContextOf
  <2> QED
    BY <1>4, <2>2 DEF Resolved
<1>9. CarriedWhereMade'
  <2>1. \A s \in Runtimes : \A x \in Makers(jobs[s]) :
          x \in DOMAIN requests /\ requests'[x].context = requests[x].context
    BY <1>3 DEF ReplyInv, CarriedWhereMade, MadeIn
  <2>2. ASSUME NEW s \in Runtimes, NEW x \in Makers(jobs[s])
        PROVE  MadeIn(x, s, requests[x].context)' /\ requests'[x].context \in DOMAIN contexts[s]
    <3>1. PICK d : d = requests[x].context
      OBVIOUS
    <3>2. MadeIn(x, s, d)' /\ d \in DOMAIN contexts[s]
      BY <1>6, <3>1 DEF ReplyInv, CarriedWhereMade
    <3>3. requests'[x].context = d
      BY <2>1, <3>1
    <3> QED
      BY <3>2, <3>3
  <2>3. ASSUME NEW s \in Runtimes, NEW d \in DOMAIN contexts[s]
        PROVE  /\ \A x \in Makers(Deferred(s, d)') : MadeIn(x, s, d)'
               /\ \A y : y = contexts[s][d].resolved /\ y # None => MadeIn(y.request, s, d)'
    BY <1>6, <1>7 DEF ReplyInv, CarriedWhereMade
  <2> QED
    BY <1>4, <2>2, <2>3 DEF CarriedWhereMade, Runtimes
<1>10. \A p \in DOMAIN requests : p # n => \A x : Given(p, x)' <=> Given(p, x)
  BY <1>3 DEF Given, Replied
<1>11. ASSUME NEW x \in Nat, Given(n, x)'
       PROVE  t \in Draining /\ Live(t, x)
  <2>1. v # S!J!Fresh
    <3>1. "request" \notin DOMAIN S!J!Fresh
      BY DEF S!J!Fresh
    <3>2. "request" \in DOMAIN v
      BY <1>3, <1>11 DEF Given, Replied
    <3> QED
      BY <3>1, <3>2
  <2>2. x = v.request
    BY <1>3, <1>11 DEF Given
  <2> QED
    BY <1>1, <1>4, <2>1, <2>2 DEF Live, Draining
<1>12. ASSUME NEW x \in Nat, t \in Draining, Live(t, x)
       PROVE  /\ MadeIn(x, S!Runtime(t), S!ContextOf(t))
              /\ \A s \in Runtimes :
                   /\ x \notin Makers(jobs[s])
                   /\ \A d \in DOMAIN contexts[s] : x \notin Makers(Deferred(s, d))
              /\ \A u \in Draining \ {t} : ~Live(u, x)
              /\ \A p \in DOMAIN requests : ~Given(p, x)
  <2>1. PICK r, c : r = S!Runtime(t) /\ c = S!ContextOf(t)
    OBVIOUS
  <2>2. r \in Runtimes /\ c \in DOMAIN contexts[r]
    BY <1>12, <2>1, DrainingWorks
  <2>3. MadeIn(x, r, c)
    <3>1. PICK y : y = contexts[r][c].resolved
      OBVIOUS
    <3>2. y # None /\ y.request = x
      BY <1>12, <2>1, <3>1 DEF Live, Resolved
    <3>3. y # None => MadeIn(y.request, r, c)
      BY <2>2, <3>1 DEF ReplyInv, CarriedWhereMade
    <3> QED
      BY <3>2, <3>3
  <2>4. x \notin Makers(jobs[r]) /\ x \notin Makers(Deferred(r, c))
    BY <1>12, <2>1 DEF ReplyInv, CarriedOnce
  <2>5. ASSUME NEW s \in Runtimes, x \in Makers(jobs[s]) PROVE FALSE
    <3>1. \E d : MadeIn(x, s, d)
      BY <2>5 DEF ReplyInv, CarriedWhereMade
    <3>2. s = r
      BY <2>3, <3>1 DEF MadeIn
    <3> QED
      BY <2>4, <2>5, <3>2
  <2>6. ASSUME NEW s \in Runtimes, NEW d \in DOMAIN contexts[s], x \in Makers(Deferred(s, d)) PROVE FALSE
    <3>1. MadeIn(x, s, d)
      BY <2>6 DEF ReplyInv, CarriedWhereMade
    <3>2. s = r /\ d = c
      BY <2>3, <3>1 DEF MadeIn
    <3> QED
      BY <2>4, <2>6, <3>2
  <2>7. ASSUME NEW u \in Draining, u # t, Live(u, x) PROVE FALSE
    <3>1. S!Runtime(u) \in Runtimes /\ S!ContextOf(u) \in DOMAIN contexts[S!Runtime(u)]
      BY DrainingWorks
    <3>2. PICK s, d : s = S!Runtime(u) /\ d = S!ContextOf(u)
      OBVIOUS
    <3>3. PICK y : y = contexts[s][d].resolved
      OBVIOUS
    <3>4. y # None /\ y.request = x
      BY <2>7, <3>2, <3>3 DEF Live, Resolved
    <3>5. y # None => MadeIn(y.request, s, d)
      BY <3>1, <3>2, <3>3 DEF ReplyInv, CarriedWhereMade
    <3>6. s = r
      BY <2>3, <3>4, <3>5 DEF MadeIn
    <3> QED
      BY <1>12, <2>1, <2>7, <3>2, <3>6, DrainsAlone
  <2>8. \A p \in DOMAIN requests : ~Given(p, x)
    BY <1>12 DEF ReplyInv, CarriedOnce, Requests
  <2> QED
    BY <2>1, <2>3, <2>5, <2>6, <2>7, <2>8
<1>13. ASSUME NEW q \in DOMAIN requests', NEW x \in Nat, Given(q, x)'
       PROVE  /\ MadeIn(x, requests[q].runtime, requests[q].context)'
              /\ \A s \in Runtimes :
                   /\ x \notin Makers(jobs[s])
                   /\ \A d \in DOMAIN contexts[s] : x \notin Makers(Deferred(s, d))
              /\ \A u \in Draining \ {t} : ~Live(u, x)
              /\ \A p \in DOMAIN requests' : Given(p, x)' => p = q
  <2>1. PICK r, c : r = requests[q].runtime /\ c = requests[q].context
    OBVIOUS
  <2>2. q \in DOMAIN requests /\ requests'[q].runtime = r /\ requests'[q].context = c
    BY <1>3, <1>13, <2>1
  <2>3. MadeIn(x, r, c)' =>  MadeIn(x, requests[q].runtime, requests[q].context)'
    BY <2>1, <2>2 DEF MadeIn
  <2>4. CASE q = n
    <3>1. t \in Draining /\ Live(t, x)
      BY <1>11, <1>13, <2>4
    <3>2. r = S!Runtime(t) /\ c = S!ContextOf(t)
      BY <1>2, <2>1, <2>4 DEF S!Runtime, S!ContextOf
    <3>3. /\ MadeIn(x, r, c)
          /\ \A s \in Runtimes :
               /\ x \notin Makers(jobs[s])
               /\ \A d \in DOMAIN contexts[s] : x \notin Makers(Deferred(s, d))
          /\ \A u \in Draining \ {t} : ~Live(u, x)
          /\ \A p \in DOMAIN requests : ~Given(p, x)
      BY <1>12, <3>1, <3>2
    <3>4. MadeIn(x, requests[q].runtime, requests[q].context)'
      BY <1>6, <2>3, <3>3
    <3>5. \A p \in DOMAIN requests' : Given(p, x)' => p = q
      BY <1>3, <1>10, <2>4, <3>3
    <3> QED
      BY <3>3, <3>4, <3>5
  <2>5. CASE q # n
    <3>1. Given(q, x)
      BY <1>10, <1>13, <2>2, <2>5
    <3>2. /\ MadeIn(x, r, c)
          /\ \A s \in Runtimes :
               /\ x \notin Makers(jobs[s])
               /\ \A d \in DOMAIN contexts[s] : x \notin Makers(Deferred(s, d))
          /\ \A u \in Draining : ~Live(u, x)
          /\ \A p \in DOMAIN requests : Given(p, x) => p = q
      BY <2>1, <2>2, <3>1 DEF ReplyInv, CarriedOnce, Requests
    <3>3. MadeIn(x, requests[q].runtime, requests[q].context)'
      BY <1>6, <2>3, <3>2
    <3>4. ~Given(n, x)'
      BY <1>11, <3>2
    <3>5. \A p \in DOMAIN requests' : Given(p, x)' => p = q
      BY <1>3, <1>10, <3>2, <3>4
    <3> QED
      BY <3>2, <3>3, <3>5
  <2> QED
    BY <2>4, <2>5
<1>14. CarriedOnce'
  <2>1. \A s \in Runtimes :
          /\ Distinct(jobs'[s])
          /\ \A d \in DOMAIN contexts'[s] :
               /\ Distinct(Deferred(s, d)')
               /\ Makers(jobs'[s]) \cap Makers(Deferred(s, d)') = {}
    BY <1>4, <1>7 DEF ReplyInv, CarriedOnce
  <2>2. \A u \in Draining' : \A x : Live(u, x)' <=> u \in Draining \ {t} /\ Live(u, x)
    BY <1>5, <1>8 DEF Live
  <2>3. ASSUME NEW u \in Draining', NEW x \in Nat, Live(u, x)'
        PROVE  /\ x \notin Makers(jobs'[S!Runtime(u)'])
               /\ x \notin Makers(Deferred(S!Runtime(u), S!ContextOf(u))')
    <3>1. u \in Draining /\ Live(u, x)
      BY <2>2, <2>3
    <3>2. Deferred(S!Runtime(u), S!ContextOf(u))' = Deferred(S!Runtime(u), S!ContextOf(u))
      BY <1>4, <1>8, <3>1 DEF Deferred
    <3>3. x \notin Makers(jobs[S!Runtime(u)]) \cup Makers(Deferred(S!Runtime(u), S!ContextOf(u)))
      BY <3>1 DEF ReplyInv, CarriedOnce
    <3> QED
      BY <1>4, <1>8, <3>1, <3>2, <3>3
  <2> QED
    BY <1>4, <1>7, <1>13, <2>1, <2>2, <2>3 DEF CarriedOnce, Requests, Runtimes
<1> QED
  BY <1>9, <1>14 DEF ReplyInv
-----------------------------------------------------------------------------
(* The host runs the registry as specified, and nothing of it besides.     *)
LEMMA HostStepsOfRegistry == [HostNext]_hostVars => [Next]_vars
<1>1. ASSUME NEW t \in Threads, GetOrCreate(t) PROVE [Next]_vars
  BY <1>1 DEF GetOrCreate, Next, Work
<1>2. ASSUME NEW t \in Threads, NEW s \in Scripts, Arrive(t, s) PROVE [Next]_vars
  BY <1>2 DEF Arrive, Next
<1>3. ASSUME NEW t \in Threads, Serve(t) \/ Refuse(t) PROVE [Next]_vars
  BY <1>3 DEF Serve, Refuse, vars
<1>4. ASSUME NEW t \in Threads, NEW h \in Handlers, Handle(t, h) PROVE [Next]_vars
  BY <1>4 DEF Handle
<1>5. UNCHANGED hostVars => [Next]_vars
  BY DEF hostVars
<1> QED
  BY <1>1, <1>2, <1>3, <1>4, <1>5 DEF HostNext, HostDone

(* No request was handled yet.                                             *)
LEMMA HostStarts == HostInit => HostInv /\ ReplyInv
<1> SUFFICES ASSUME HostInit PROVE HostInv /\ ReplyInv
  OBVIOUS
<1>1. /\ contexts = [r \in Runtimes |-> <<>>] /\ idle = [r \in Runtimes |-> <<>>]
      /\ jobs = [r \in Runtimes |-> <<>>] /\ locked = [r \in Runtimes |-> None]
      /\ at = [t \in Threads |-> "away"] /\ request = [t \in Threads |-> 0]
      /\ requests = <<>>
  BY DEF HostInit, S!SharedInit
<1>2. HostTypes
  BY <1>1 DEF HostTypes, Steps
<1>3. Handling = {} /\ Inside = {} /\ Early = {} /\ InUse = {} /\ Draining = {}
  BY <1>1 DEF Handling, Inside, Early, InUse, Draining
<1>4. OwnRequests
  BY <1>1, <1>3 DEF OwnRequests
<1>5. ContextsApart
  BY <1>1, <1>3 DEF ContextsApart, ContextExclusive
<1>6. CarriedWhereMade
  BY <1>1, MakersOfNone DEF CarriedWhereMade
<1>7. CarriedOnce
  BY <1>1, <1>3, MakersOfNone DEF CarriedOnce, Requests
<1> QED
  BY <1>2, <1>4, <1>5, <1>6, <1>7 DEF HostInv, ReplyInv

(* The steps of a thread that handles a request keep the invariant.        *)
LEMMA ServeKeeps ==
  ASSUME HostInv, ReplyInv, NEW t \in Threads, Serve(t)
  PROVE  HostInv' /\ ReplyInv'
<1>1. UNCHANGED made
  BY DEF Serve, vars
<1>2. t \in Handling
  BY DEF Serve, Handling, S!Serve, S!AcquireIdle, S!AcquireNone, S!CreateContext,
         S!CreateContextFails, S!CallFetch, S!RunJob, S!EndFetch, S!Release
<1>3. CASE S!AcquireIdle(t)
  BY <1>1, <1>2, <1>3, AcquireIdleKeeps, AcquireReplies
<1>4. CASE S!AcquireNone(t)
  BY <1>1, <1>2, <1>4, AcquireNoneKeeps, AcquireReplies
<1>5. CASE S!CreateContext(t)
  BY <1>1, <1>2, <1>5, CreateContextKeeps, AcquireReplies
<1>6. CASE S!CreateContextFails(t)
  BY <1>1, <1>2, <1>6, CreateContextFailsKeeps, LeaveReplies
<1>7. CASE S!CallFetch(t)
  BY <1>1, <1>2, <1>7, CallFetchKeeps, CallFetchReplies
<1>8. CASE S!RunJob(t)
  BY <1>1, <1>2, <1>8, RunJobKeeps, RunJobReplies
<1>9. CASE S!EndFetch(t)
  BY <1>1, <1>2, <1>9, EndFetchKeeps, EndFetchGives
<1>10. CASE S!Release(t)
  BY <1>1, <1>2, <1>10, ReleaseKeeps, LeaveReplies
<1> QED
  BY <1>3, <1>4, <1>5, <1>6, <1>7, <1>8, <1>9, <1>10 DEF Serve, S!Serve

(* So does every step of the host, on a registry that keeps its own.       *)
LEMMA HostSteps ==
  ASSUME HostInv, ReplyInv, RegistryInv, CallsCover, [HostNext]_hostVars
  PROVE  HostInv' /\ ReplyInv'
<1>1. ASSUME UNCHANGED sharedVars, made' = made PROVE HostInv' /\ ReplyInv'
  BY <1>1, RegistrySteps, SameReplies
<1>2. ASSUME NEW t \in Threads, GetOrCreate(t) PROVE HostInv' /\ ReplyInv'
  <2>1. CASE Create(t) /\ S!New(Len(made) + 1)
    BY <2>1, NewRuntime, NewReplies
  <2>2. CASE /\ LookupHit(t) \/ LookupMiss(t) \/ CreateFails(t) \/ Publish(t)
             /\ UNCHANGED sharedVars
    BY <1>1, <2>2 DEF LookupHit, LookupMiss, CreateFails, Publish
  <2> QED
    BY <1>2, <2>1, <2>2 DEF GetOrCreate
<1>3. ASSUME NEW t \in Threads, NEW a \in {"away", "asking"},
             at[t] \in {"away", "asking"}, at' = [at EXCEPT ![t] = a],
             UNCHANGED <<made, contexts, idle, jobs, locked, request, requests>>
      PROVE  HostInv' /\ ReplyInv'
  <2>1. at'[t] = a /\ \A u \in Threads : u # t => at'[u] = at[u]
    BY <1>3 DEF HostInv, HostTypes
  <2>2. ReplyInv'
    BY <1>3, <2>1, OutsideReplies
  <2> QED
    BY <1>3, <2>2, AwayOrAsking
<1>4. ASSUME NEW t \in Threads, NEW s \in Scripts, Arrive(t, s) PROVE HostInv' /\ ReplyInv'
  BY <1>3, <1>4 DEF Arrive, Call
<1>5. ASSUME NEW t \in Threads, Refuse(t) PROVE HostInv' /\ ReplyInv'
  BY <1>3, <1>5 DEF Refuse, vars
<1>6. ASSUME NEW t \in Threads, NEW h \in Handlers, Handle(t, h) PROVE HostInv' /\ ReplyInv'
  BY <1>6, BeginKeeps, BeginReplies
<1>7. ASSUME NEW t \in Threads, Serve(t) PROVE HostInv' /\ ReplyInv'
  BY <1>7, ServeKeeps
<1>8. CASE UNCHANGED hostVars
  BY <1>1, <1>8 DEF hostVars, vars
<1> QED
  BY <1>2, <1>4, <1>5, <1>6, <1>7, <1>8 DEF HostNext, HostDone

(* The registry of the host is the registry of its own specification.      *)
THEOREM HostRunsRegistry == HostSpec => Spec
<1>1. HostInit => Init
  BY DEF HostInit
<1> QED
  BY <1>1, HostStepsOfRegistry, PTL DEF HostSpec, Spec

(* The types of the host, the requests and contexts that its threads have, *)
(* and where the responses are: one inductive invariant, for any number of *)
(* threads, requests and contexts.                                         *)
THEOREM HostInvariant == HostSpec => [](HostInv /\ ReplyInv)
<1>1. HostInit => HostInv /\ ReplyInv
  BY HostStarts
<1>2. HostInv /\ ReplyInv /\ RegistryInv /\ CallsCover /\ [HostNext]_hostVars => (HostInv /\ ReplyInv)'
  BY HostSteps
<1> QED
  BY <1>1, <1>2, HostRunsRegistry, RegistryInvariant, CallsAlwaysCover, PTL DEF HostSpec

(* A context of a SharedRuntime handles one request at a time, and is not  *)
(* idle meanwhile (acquire and release of shared_runtime.rs).              *)
THEOREM ContextAlwaysExclusive == HostSpec => []ContextExclusive
<1>1. HostInv => ContextExclusive
  BY DEF HostInv, ContextsApart
<1> QED
  BY <1>1, HostInvariant, PTL

(* A reply was made in the context of the request it answers, and no       *)
(* response is the reply of two: handle of shared_runtime.rs, whichever    *)
(* thread runs the jobs that settle its promise.                           *)
THEOREM RepliesAlwaysIsolated == HostSpec => []RepliesIsolated
<1>1. HostInv /\ ReplyInv => RepliesIsolated
  <2> SUFFICES ASSUME HostInv, ReplyInv, NEW q \in Requests, Replied(q),
                      NEW m, m = requests[q].reply.request
               PROVE  /\ requests[m].runtime = requests[q].runtime
                      /\ requests[m].context = requests[q].context
                      /\ \A p \in Requests : p # q /\ Replied(p) => requests[p].reply.request # m
    BY DEF RepliesIsolated
  <2>1. requests[q] \in RequestRecords
    BY DEF HostInv, HostTypes, Requests
  <2>2. requests[q].reply # S!J!Fresh
    BY DEF Replied, S!J!Fresh
  <2>3. requests[q].reply \in Responses
    BY <2>1, <2>2 DEF RequestRecords, Replied
  <2>4. m \in Nat
    BY <2>3 DEF Responses
  <2>5. Given(q, m)
    BY DEF Given
  <2>6. /\ MadeIn(m, requests[q].runtime, requests[q].context)
        /\ \A p \in Requests : Given(p, m) => p = q
    BY <2>4, <2>5 DEF ReplyInv, CarriedOnce
  <2> QED
    BY <2>6 DEF MadeIn, Given
<1> QED
  BY <1>1, HostInvariant, PTL

(* In the host too a call returns a runtime of its own script.             *)
THEOREM HostReturnsOwnRuntime == HostSpec => []ReturnsOwnRuntime
BY HostRunsRegistry, AlwaysOwnRuntime, PTL

-----------------------------------------------------------------------------
(* The threads that have a context of runtime r.                           *)
Users(r) == {t \in InUse : S!Runtime(t) = r}

(* They can be counted, now and after a step.                              *)
LEMMA UsersCount ==
  ASSUME NEW r
  PROVE  /\ IsFiniteSet(Users(r)) /\ Cardinality(Users(r)) \in Nat
         /\ IsFiniteSet(Users(r)') /\ Cardinality(Users(r)') \in Nat
<1>1. Users(r) \subseteq Threads /\ Users(r)' \subseteq Threads
  BY DEF Users, InUse
<1> QED
  BY <1>1, RegistryAssumption, FS_Subset, FS_CardinalityType

(* What PoolKept says of one runtime.                                      *)
Kept(r) == Len(idle[r]) <= MaxPool /\ MaxPool <= Len(idle[r]) + Cardinality(Users(r))

LEMMA PoolKeptMeans == PoolKept <=> \A r \in 1 .. Len(made) : Kept(r)
  BY DEF PoolKept, Kept, Users

(* A step that leaves the idle contexts of r and takes none in use away.   *)
LEMMA KeptByMore ==
  ASSUME NEW r, Kept(r), Len(idle[r]) \in Nat, idle'[r] = idle[r], Users(r) \subseteq Users(r)'
  PROVE  Kept(r)'
<1>1. PICK c \in Nat, d \in Nat, n \in Nat :
        c = Cardinality(Users(r)) /\ d = Cardinality(Users(r)') /\ n = Len(idle[r])
  BY UsersCount
<1>2. c <= d
  BY <1>1, UsersCount, FS_Subset
<1>3. n <= MaxPool /\ MaxPool <= n + c
  BY <1>1 DEF Kept
<1>4. n <= MaxPool /\ MaxPool <= n + d
  BY <1>2, <1>3, PoolAssumption
<1> QED
  BY <1>1, <1>4 DEF Kept

(* The request of a thread that keeps its context stays on its runtime.    *)
LEMMA UsersStay ==
  ASSUME HostInv, NEW t \in Threads, Serve(t), NEW u \in InUse, u \in InUse'
  PROVE  S!Runtime(u)' = S!Runtime(u)
<1>1. /\ u \in Handling /\ request[u] \in DOMAIN requests /\ u \in Threads
      /\ requests \in Seq(RequestRecords) /\ request \in [Threads -> Nat]
      /\ at \in [Threads -> Steps] /\ at'[u] # "away"
  BY WorksOn DEF HostInv, HostTypes, InUse, Handling
<1>2. request'[u] = request[u]
  BY <1>1 DEF Serve, S!Serve, S!AcquireIdle, S!AcquireNone, S!CreateContext, S!Take,
              S!CreateContextFails, S!CallFetch, S!RunJob, S!EndFetch, S!Release
<1>3. requests'[request[u]].runtime = requests[request[u]].runtime
  <2>1. \/ requests' = requests
        \/ \E v : requests' = [requests EXCEPT ![request[t]].context = v]
        \/ \E v : requests' = [requests EXCEPT ![request[t]].reply = v]
    BY DEF Serve, S!Serve, S!AcquireIdle, S!AcquireNone, S!CreateContext, S!Take,
           S!CreateContextFails, S!CallFetch, S!RunJob, S!EndFetch, S!Release
  <2>2. PICK e \in RequestRecords : e = requests[request[u]]
    BY <1>1
  <2>3. CASE request[u] = request[t]
    <3>1. \A v : [e EXCEPT !.context = v].runtime = e.runtime /\ [e EXCEPT !.reply = v].runtime = e.runtime
      BY DEF RequestRecords
    <3>2. \A n : requests' = [requests EXCEPT ![request[t]] = n] => requests'[request[u]] = n
      BY <1>1, <2>3
    <3>3. \/ requests'[request[u]] = e
          \/ \E v : requests'[request[u]] = [e EXCEPT !.context = v]
          \/ \E v : requests'[request[u]] = [e EXCEPT !.reply = v]
      BY <2>1, <2>2, <2>3, <3>2, Zenon
    <3>4. requests'[request[u]].runtime = e.runtime
      BY <3>1, <3>3, Zenon
    <3> QED
      BY <2>2, <3>4
  <2>4. CASE request[u] # request[t]
    BY <1>1, <2>1, <2>4
  <2> QED
    BY <2>3, <2>4
<1> QED
  BY <1>2, <1>3 DEF S!Runtime

(* acquire of an idle context: one idle less, one more in use.             *)
LEMMA AcquireKeepsPool ==
  ASSUME HostInv, NEW t \in Threads, Serve(t), S!AcquireIdle(t), NEW r, r = S!Runtime(t),
         Kept(r), Users(r) \subseteq Users(r)'
  PROVE  Kept(r)'
<1>1. /\ at[t] = "acquiring" /\ at' = [at EXCEPT ![t] = "acquired"] /\ idle[r] # <<>>
      /\ idle' = [idle EXCEPT ![r] = S!Pop(idle[r])] /\ request' = request
      /\ requests' = [requests EXCEPT ![request[t]].context = idle[r][Len(idle[r])]]
  BY DEF S!AcquireIdle, S!Take
<1>2. /\ t \in Handling /\ r \in Runtimes /\ idle[r] \in Seq(Nat)
      /\ request[t] \in DOMAIN requests
  BY <1>1, WorksOn DEF HostInv, Handling
<1>3. at'[t] = "acquired" /\ t \notin InUse
  BY <1>1 DEF InUse, HostInv, HostTypes
<1>4. t \in Users(r)' /\ t \notin Users(r)
  <2>1. requests[request[t]] \in RequestRecords
    BY <1>2 DEF HostInv, HostTypes
  <2>2. S!Runtime(t)' = r
    BY <1>1, <1>2, <2>1 DEF S!Runtime, HostInv, HostTypes, RequestRecords
  <2> QED
    BY <1>3, <2>2 DEF Users, InUse
<1>5. PICK s \in Seq(Nat) : s = idle[r]
  BY <1>2
<1>6. Len(s) \in Nat \ {0} /\ Len(SubSeq(s, 1, Len(s) - 1)) = Len(s) - 1
  BY <1>1, <1>5
<1>7. idle'[r] = SubSeq(s, 1, Len(s) - 1)
  BY <1>1, <1>2, <1>5 DEF HostInv, HostTypes, S!Pop
<1>8. PICK c \in Nat, d \in Nat, n \in Nat \ {0} :
        c = Cardinality(Users(r)) /\ d = Cardinality(Users(r)') /\ n = Len(s)
  BY <1>6, UsersCount
<1>9. c + 1 <= d
  <2>1. Users(r) \cup {t} \subseteq Users(r)'
    BY <1>4
  <2>2. Cardinality(Users(r) \cup {t}) = c + 1
    BY <1>4, <1>8, UsersCount, FS_AddElement
  <2>3. Cardinality(Users(r) \cup {t}) <= Cardinality(Users(r)')
    BY <2>1, UsersCount, FS_Subset
  <2> QED
    BY <1>8, <2>2, <2>3
<1>10. n <= MaxPool /\ MaxPool <= n + c
  BY <1>5, <1>8 DEF Kept
<1>11. n - 1 <= MaxPool /\ MaxPool <= (n - 1) + d
  BY <1>9, <1>10, PoolAssumption
<1>12. Len(idle'[r]) = n - 1
  BY <1>6, <1>7, <1>8
<1> QED
  BY <1>8, <1>11, <1>12 DEF Kept

(* release: it is idle again, unless max_pool others are.                  *)
LEMMA ReleaseKeepsPool ==
  ASSUME HostInv, NEW t \in Threads, S!Release(t), NEW r, r = S!Runtime(t),
         Kept(r), Users(r) \ {t} \subseteq Users(r)'
  PROVE  Kept(r)'
<1>1. /\ at[t] = "releasing" /\ t \in Handling /\ t \in InUse
      /\ idle' = [idle EXCEPT ![r] = IF S!HasRoom(r) THEN Append(@, S!ContextOf(t)) ELSE @]
  BY DEF S!Release, Handling, InUse
<1>2. r \in Runtimes /\ idle[r] \in Seq(Nat) /\ S!ContextOf(t) \in Nat
  BY <1>1, WorksOn DEF HostInv
<1>3. PICK s \in Seq(Nat) : s = idle[r]
  BY <1>2
<1>4. Len(s) \in Nat /\ Len(Append(s, S!ContextOf(t))) = Len(s) + 1
  BY <1>2
<1>5. idle'[r] = IF Len(s) < MaxPool THEN Append(s, S!ContextOf(t)) ELSE s
  BY <1>1, <1>2, <1>3 DEF HostInv, HostTypes, S!HasRoom
<1>6. PICK c \in Nat, d \in Nat, n \in Nat :
        c = Cardinality(Users(r)) /\ d = Cardinality(Users(r)') /\ n = Len(s)
  BY <1>4, UsersCount
<1>7. c - 1 <= d
  <2>1. Cardinality(Users(r) \ {t}) = c - 1
    <3>1. t \in Users(r)
      BY <1>1 DEF Users
    <3> QED
      BY <1>6, <3>1, UsersCount, FS_RemoveElement
  <2>2. Cardinality(Users(r) \ {t}) <= Cardinality(Users(r)')
    BY UsersCount, FS_Subset
  <2> QED
    BY <1>6, <2>1, <2>2
<1>8. n <= MaxPool /\ MaxPool <= n + c
  BY <1>3, <1>6 DEF Kept
<1>9. PICK m \in Nat : m = Len(idle'[r]) /\ m = IF n < MaxPool THEN n + 1 ELSE n
  BY <1>4, <1>5, <1>6
<1>10. m <= MaxPool /\ MaxPool <= m + d
  BY <1>7, <1>8, <1>9, PoolAssumption
<1> QED
  BY <1>6, <1>9, <1>10 DEF Kept

(* Every step of a thread that handles a request.                          *)
LEMMA ServeKeepsPool ==
  ASSUME HostInv, NEW t \in Threads, Serve(t), PoolKept
  PROVE  PoolKept'
<1>1. made' = made
  BY DEF Serve, vars
<1>2. made \in Seq(Scripts) => Len(made) \in Nat
  OBVIOUS
<1> SUFFICES ASSUME NEW r \in 1 .. Len(made) PROVE Kept(r)'
  BY <1>1, PoolKeptMeans DEF PoolKept, Kept, Users
<1>3. Kept(r)
  BY PoolKeptMeans
<1>4. at \in [Threads -> Steps]
  BY DEF HostInv, HostTypes
<1>5. ASSUME NEW u \in Users(r), u # t PROVE u \in Users(r)'
  <2>1. u \in Threads /\ u \in InUse /\ at[u] = at'[u]
    BY <1>4, <1>5 DEF Users, InUse, Serve, S!Serve, S!AcquireIdle, S!AcquireNone, S!CreateContext,
                 S!Take, S!CreateContextFails, S!CallFetch, S!RunJob, S!EndFetch, S!Release
  <2>2. u \in InUse'
    BY <2>1 DEF InUse
  <2> QED
    BY <2>1, <2>2, UsersStay DEF Users
<1>6. ASSUME ~S!Release(t), t \in Users(r) PROVE t \in Users(r)'
  <2>1. t \in InUse /\ t \in InUse'
    BY <1>4, <1>6 DEF Users, InUse, Serve, S!Serve, S!AcquireIdle, S!AcquireNone, S!CreateContext,
                 S!Take, S!CreateContextFails, S!CallFetch, S!RunJob, S!EndFetch
  <2> QED
    BY <1>6, <2>1, UsersStay DEF Users
<1>7. CASE idle'[r] = idle[r] /\ ~S!Release(t) /\ Len(idle[r]) \in Nat
  <2>1. Users(r) \subseteq Users(r)'
    BY <1>5, <1>6, <1>7
  <2> QED
    BY <1>3, <1>7, <2>1, KeptByMore
<1>8. CASE S!AcquireIdle(t) /\ r = S!Runtime(t)
  <2>1. ~S!Release(t)
    BY <1>8 DEF S!AcquireIdle, S!Release
  <2>2. Users(r) \subseteq Users(r)'
    BY <1>5, <1>6, <2>1
  <2> QED
    BY <1>3, <1>8, <2>2, AcquireKeepsPool
<1>9. CASE S!Release(t) /\ r = S!Runtime(t)
  <2>1. Users(r) \ {t} \subseteq Users(r)'
    BY <1>5
  <2> QED
    BY <1>3, <1>9, <2>1, ReleaseKeepsPool
<1>10. CASE S!Release(t) /\ r # S!Runtime(t) /\ idle'[r] = idle[r] /\ Len(idle[r]) \in Nat
  <2>1. Users(r) \subseteq Users(r)'
    BY <1>5, <1>10 DEF Users
  <2> QED
    BY <1>3, <1>10, <2>1, KeptByMore
<1>11. Len(idle[r]) \in Nat
  <2>1. CASE r \in DOMAIN idle
    BY <2>1 DEF HostInv, HostTypes
  <2>2. CASE r \notin DOMAIN idle
    BY <2>2 DEF HostInv, HostTypes
  <2> QED
    BY <2>1, <2>2
<1>12. idle'[r] = idle[r] \/ (r = S!Runtime(t) /\ (S!AcquireIdle(t) \/ S!Release(t)))
  <2>1. CASE idle' = idle
    BY <2>1
  <2>2. ASSUME S!AcquireIdle(t) \/ S!Release(t), r # S!Runtime(t) PROVE idle'[r] = idle[r]
    <3>1. PICK v : idle' = [idle EXCEPT ![S!Runtime(t)] = v]
      BY <2>2 DEF S!AcquireIdle, S!Release
    <3> QED
      BY <2>2, <3>1 DEF HostInv, HostTypes
  <2>3. idle' = idle \/ S!AcquireIdle(t) \/ S!Release(t)
    BY DEF Serve, S!Serve, S!AcquireNone, S!CreateContext, S!CreateContextFails, S!CallFetch,
           S!RunJob, S!EndFetch
  <2> QED
    BY <2>1, <2>2, <2>3
<1> QED
  BY <1>7, <1>8, <1>9, <1>10, <1>11, <1>12

(* A step outside acquire and release.                                     *)
LEMMA OthersKeepPool ==
  ASSUME HostInv, PoolKept, Len(made) \in Nat, \A r \in 1 .. Len(made) : Len(idle[r]) \in Nat,
         UNCHANGED <<made, idle>>, InUse \subseteq InUse',
         \A u \in InUse : S!Runtime(u)' = S!Runtime(u)
  PROVE  PoolKept'
<1> SUFFICES ASSUME NEW r \in 1 .. Len(made) PROVE Kept(r)'
  BY DEF PoolKept, Kept, Users
<1>1. Users(r) \subseteq Users(r)'
  BY DEF Users
<1> QED
  BY <1>1, PoolKeptMeans, KeptByMore

(* A runtime is made with its pool filled.                                 *)
LEMMA NewKeepsPool ==
  ASSUME HostInv, RegistryInv, CallsCover, PoolKept, NEW t \in Threads, Create(t),
         S!New(Len(made) + 1)
  PROVE  PoolKept'
<1> USE PoolAssumption
<1>1. Len(made) + 1 \in Runtimes /\ Len(made') = Len(made) + 1 /\ Len(made) \in Nat
  BY MadeNumbered
<1>2. PICK n : n = Len(made) + 1
  OBVIOUS
<1>3. PICK stack : stack = [k \in 1 .. MaxPool |-> k]
  OBVIOUS
<1>4. stack \in Seq(Nat) /\ Len(stack) = MaxPool
  BY <1>3
<1>5. idle' = [idle EXCEPT ![n] = stack] /\ UNCHANGED <<at, request, requests>>
  BY <1>2, <1>3 DEF S!New
<1> SUFFICES ASSUME NEW r \in 1 .. Len(made') PROVE Kept(r)'
  BY DEF PoolKept, Kept, Users
<1>6. CASE r = n
  <2>1. idle'[r] = stack
    BY <1>1, <1>2, <1>5, <1>6 DEF HostInv, HostTypes
  <2>2. Cardinality(Users(r)') \in Nat
    BY UsersCount
  <2> QED
    BY <1>4, <2>1, <2>2 DEF Kept
<1>7. CASE r # n
  <2>1. r \in 1 .. Len(made) /\ r \in Runtimes
    BY <1>1, <1>2, <1>7, MadeNumbered
  <2>2. idle'[r] = idle[r] /\ Len(idle[r]) \in Nat
    BY <1>5, <1>7, <2>1 DEF HostInv, HostTypes
  <2>3. Users(r) \subseteq Users(r)'
    BY <1>5 DEF Users, InUse, S!Runtime
  <2> QED
    BY <2>1, <2>2, <2>3, PoolKeptMeans, KeptByMore
<1> QED
  BY <1>6, <1>7

(* handle begins with a thread that has no context.                        *)
LEMMA BeginKeepsPool ==
  ASSUME HostInv, RegistryInv, CallsCover, PoolKept, NEW t \in Threads, NEW h \in Handlers,
         Handle(t, h), Len(made) \in Nat, \A r \in 1 .. Len(made) : Len(idle[r]) \in Nat
  PROVE  PoolKept'
<1>1. /\ at[t] = "asking" /\ at' = [at EXCEPT ![t] = "acquiring"]
      /\ request' = [request EXCEPT ![t] = Len(requests) + 1]
      /\ \E e : requests' = Append(requests, e)
      /\ UNCHANGED <<made, idle>>
  BY DEF Handle, S!Begin, vars
<1>2. ASSUME NEW u \in InUse PROVE u \in InUse' /\ S!Runtime(u)' = S!Runtime(u)
  <2>1. u \in Threads /\ u # t /\ u \in Handling
    BY <1>1, <1>2 DEF InUse, Handling
  <2>2. request[u] \in DOMAIN requests /\ requests \in Seq(RequestRecords)
    BY <2>1, WorksOn DEF HostInv, HostTypes
  <2>3. at'[u] = at[u] /\ request'[u] = request[u]
    BY <1>1, <2>1 DEF HostInv, HostTypes
  <2>4. requests'[request[u]] = requests[request[u]]
    BY <1>1, <2>2
  <2> QED
    BY <2>1, <2>3, <2>4 DEF InUse, S!Runtime
<1> QED
  BY <1>1, <1>2, OthersKeepPool

(* Every step of the host.                                                 *)
LEMMA HostKeepsPool ==
  ASSUME HostInv, RegistryInv, CallsCover, PoolKept, [HostNext]_hostVars
  PROVE  PoolKept'
<1>1. Len(made) \in Nat /\ \A r \in 1 .. Len(made) : Len(idle[r]) \in Nat
  BY MadeNumbered DEF HostInv, HostTypes
<1>2. ASSUME UNCHANGED <<made, idle, request, requests>>,
             \A u \in InUse : at'[u] = at[u]
      PROVE PoolKept'
  BY <1>1, <1>2, OthersKeepPool DEF InUse, S!Runtime
<1>3. ASSUME NEW t \in Threads, GetOrCreate(t) PROVE PoolKept'
  <2>1. CASE Create(t) /\ S!New(Len(made) + 1)
    BY <2>1, NewKeepsPool
  <2>2. CASE /\ LookupHit(t) \/ LookupMiss(t) \/ CreateFails(t) \/ Publish(t)
             /\ UNCHANGED sharedVars
    BY <1>2, <2>2 DEF LookupHit, LookupMiss, CreateFails, Publish, sharedVars
  <2> QED
    BY <1>3, <2>1, <2>2 DEF GetOrCreate
<1>4. ASSUME NEW t \in Threads, at[t] \in {"away", "asking"}
      PROVE \A a, u : u \in InUse => [at EXCEPT ![t] = a][u] = at[u]
  BY <1>4 DEF InUse, HostInv, HostTypes
<1>5. ASSUME NEW t \in Threads, NEW s \in Scripts, Arrive(t, s) PROVE PoolKept'
  BY <1>2, <1>4, <1>5 DEF Arrive, Call
<1>6. ASSUME NEW t \in Threads, Refuse(t) PROVE PoolKept'
  BY <1>2, <1>4, <1>6 DEF Refuse, vars
<1>7. ASSUME NEW t \in Threads, NEW h \in Handlers, Handle(t, h) PROVE PoolKept'
  BY <1>1, <1>7, BeginKeepsPool
<1>8. ASSUME NEW t \in Threads, Serve(t) PROVE PoolKept'
  BY <1>8, ServeKeepsPool
<1>9. CASE UNCHANGED hostVars
  BY <1>2, <1>9 DEF hostVars, vars, sharedVars
<1> QED
  BY <1>3, <1>5, <1>6, <1>7, <1>8, <1>9 DEF HostNext, HostDone

(* The warm contexts of a runtime are never lost, whatever handlers throw  *)
(* and however many contexts were made beside the pool: each is idle, or   *)
(* with a thread that gives it or another back (acquire, call_fetch and    *)
(* release of shared_runtime.rs).                                          *)
THEOREM PoolAlwaysKept == HostSpec => []PoolKept
<1>1. HostInit => PoolKept
  BY DEF HostInit, Init, PoolKept
<1>2. HostInv /\ RegistryInv /\ CallsCover /\ PoolKept /\ [HostNext]_hostVars => PoolKept'
  BY HostKeepsPool
<1> QED
  BY <1>1, <1>2, HostInvariant, HostRunsRegistry, RegistryInvariant, CallsAlwaysCover, PTL
  DEF HostSpec
=============================================================================
