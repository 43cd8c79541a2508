-------------------------- MODULE EnginePoolProofs --------------------------
(***************************************************************************)
(* Proofs about EnginePool, for any connections, handlers and methods, any *)
(* size of the pool and any number of requests, in each of the servers:    *)
(* whose response a request is answered with, and how often its handler    *)
(* was called.                                                             *)
(***************************************************************************)
EXTENDS EnginePool, SequenceTheorems, TLAPS

Responses == [request : Nat, status : Nat]
Pending == [response : Responses, hops : Nat]
Context == [resolved : Responses \cup {None}, jobs : Seq(Pending), deferred : Seq(Pending)]
Running == [method : STRING, calls : BOOLEAN, settles : BOOLEAN, hops : Nat, status : Nat,
            returns : {"response", "object", "string", "nothing", "exception", "promise",
                       "deferred", "rejected", "loops"}]
Answers == [kind : {"pending", "error", "dropped"}]
             \cup [kind : {"response"}, request : Nat, status : Nat]

(* The requests whose responses the promises of a sequence carry; each     *)
(* carries another's.                                                      *)
Makers(promises) == {promises[i].response.request : i \in DOMAIN promises}
Distinct(promises) ==
  \A i, j \in DOMAIN promises :
    promises[i].response.request = promises[j].response.request => i = j

(* The same of a context: the queue of its jobs and what is deferred.      *)
Bag(ctx) == Makers(ctx.jobs) \cup Makers(ctx.deferred)
Apart(ctx) ==
  /\ Distinct(ctx.jobs) /\ Distinct(ctx.deferred)
  /\ Makers(ctx.jobs) \cap Makers(ctx.deferred) = {}

-----------------------------------------------------------------------------
(* The steps of a request: Early before its handler returned, Locked while *)
(* the connection has the mutex, Busy while there is no answer.            *)
Early == {"locking", "calling", "fetching", "fetched"}
Locked == {"calling", "fetching", "fetched", "draining", "failed", "looping"}
Busy == Early \cup Locked
Steps == Busy \cup {"reading", "replying", "closed"}

EngineTypes ==
  /\ server \in Servers
  /\ pool \in Seq(Context)
  /\ round \in {1, 2}
  /\ pc \in [Conns -> [at : Steps, request : Nat]]
  /\ handler \in Seq(Running) /\ calls \in Seq(Nat) /\ answer \in Seq(Answers)
  /\ Len(calls) = Len(handler) /\ Len(answer) = Len(handler)

(* One connection at a time is past the lock, with a context; each request *)
(* has its own, and no answer before the reply.                            *)
Turns ==
  /\ \A c \in Conns : pc[c].at \in Locked => mutex = c /\ context \in Context
  /\ \A c \in Conns :
       /\ pc[c].at \in Busy \cup {"replying"} => pc[c].request \in Received
       /\ pc[c].at \in {"reading", "closed"} => pc[c].request = 0
       /\ pc[c].at \in Busy => answer[pc[c].request] = Is("pending")
       /\ pc[c].at = "draining" => Current(c).returns \notin {"exception", "loops"}
  /\ \A c, d \in Conns : pc[c].request = pc[d].request /\ pc[c].request # 0 => c = d

EngineInv == EngineTypes /\ Turns

-----------------------------------------------------------------------------
(* Where a response can be.  The contexts by their place: the idle ones by *)
(* their position, and 0 for the one in use.                               *)
InUse == \E c \in Conns : pc[c].at \in Locked
Places == DOMAIN pool \cup (IF InUse THEN {0} ELSE {})
Store(k) == IF k = 0 THEN context ELSE pool[k]

(* It is carried by a promise, it is in the global that will be read when  *)
(* the jobs are done, or it was given as an answer; or it is still to be   *)
(* made, or to be returned directly.                                       *)
Carried(m) == \E k \in Places : m \in Bag(Store(k))

First == server = "engine" /\ round = 1
Direct(c) == Current(c).returns \in {"response", "string"}
Reads(c) == At(c, "draining") /\ ~First /\ ~Direct(c)
Live(m) ==
  \E c \in Conns : Reads(c) /\ context.resolved # None /\ context.resolved.request = m

Given(r, m) == r \in Received /\ IsResponse(answer[r]) /\ answer[r].request = m

Waits(c) == pc[c].at \in Early \/ (At(c, "draining") /\ (First \/ Direct(c)))
Unsent(m) == \E c \in Conns : pc[c].request = m /\ Waits(c)

(* No two contexts and no two promises carry the same response.            *)
CarriedApart ==
  /\ \A k \in Places : Apart(Store(k))
  /\ \A j, k \in Places : j # k => Bag(Store(j)) \cap Bag(Store(k)) = {}

(* And a response is in one of these states only, given once.              *)
OnceEach ==
  /\ \A m : Carried(m) => m \in Received /\ ~Unsent(m)
  /\ \A m : Live(m) => m \in Received /\ ~Unsent(m) /\ ~Carried(m)
  /\ \A r, m : Given(r, m) => m \in Received /\ ~Unsent(m) /\ ~Carried(m) /\ ~Live(m)
  /\ \A q, r, m : Given(q, m) /\ Given(r, m) => q = r

DeliveryInv == EngineInv /\ CarriedApart /\ OnceEach

(* How often the handler was called at each step.                          *)
CountedAt(c) ==
  /\ At(c, "locking") => calls[pc[c].request] = 0
  /\ pc[c].at \in {"calling", "fetching", "fetched"} => calls[pc[c].request] = round - 1
  /\ At(c, "draining") => calls[pc[c].request] = round
  /\ pc[c].at \in Locked => (server = "engine" \/ round = 1)

(* execute_worker calls it at most twice.                                  *)
AtMost == IF server = "engine" THEN 2 ELSE 1

CallsCounted == (\A c \in Conns : CountedAt(c)) /\ \A r \in Received : calls[r] <= AtMost

-----------------------------------------------------------------------------
(* No promise carries nothing.                                             *)
LEMMA MakersOfNone == Makers(<<>>) = {} /\ Distinct(<<>>) /\ <<>> \in Seq(Pending)
BY DEF Makers, Distinct

(* One queue behind another: promises of different requests stay so.       *)
LEMMA MakersOfJoined ==
  ASSUME NEW a \in Seq(Pending), NEW b \in Seq(Pending)
  PROVE  /\ a \o b \in Seq(Pending) /\ Makers(a \o b) = Makers(a) \cup Makers(b)
         /\ Distinct(a) /\ Distinct(b) /\ Makers(a) \cap Makers(b) = {} => Distinct(a \o b)
<1>1. PICK l, n, c : l = Len(a) /\ n = Len(b) /\ c = a \o b
  OBVIOUS
<1>2. /\ c \in Seq(Pending) /\ l \in Nat /\ n \in Nat
      /\ DOMAIN a = 1 .. l /\ DOMAIN b = 1 .. n /\ DOMAIN c = 1 .. l + n
  BY <1>1
<1>3. \A i \in 1 .. l : c[i] = a[i]
  BY <1>1
<1>4. \A i \in 1 .. n : c[l + i] = b[i]
  BY <1>1
<1>5. /\ \A i \in DOMAIN a : i \in DOMAIN c /\ c[i] = a[i]
      /\ \A i \in DOMAIN b : l + i \in DOMAIN c /\ c[l + i] = b[i]
  BY <1>2, <1>3, <1>4
<1>6. ASSUME NEW i \in DOMAIN c, i \notin DOMAIN a PROVE i - l \in DOMAIN b /\ i = l + (i - l)
  BY <1>2, <1>6
<1>7. Makers(c) = Makers(a) \cup Makers(b)
  BY <1>5, <1>6 DEF Makers
<1>8. ASSUME Distinct(a), Distinct(b), Makers(a) \cap Makers(b) = {},
             NEW i \in DOMAIN c, NEW j \in DOMAIN c,
             c[i].response.request = c[j].response.request
      PROVE  i = j
  <2>1. \/ i \in DOMAIN a /\ c[i] = a[i]
        \/ i - l \in DOMAIN b /\ i = l + (i - l) /\ c[i] = b[i - l]
    BY <1>5, <1>6
  <2>2. \/ j \in DOMAIN a /\ c[j] = a[j]
        \/ j - l \in DOMAIN b /\ j = l + (j - l) /\ c[j] = b[j - l]
    BY <1>5, <1>6
  <2>3. /\ \A k \in DOMAIN a : a[k].response.request \in Makers(a)
        /\ \A k \in DOMAIN b : b[k].response.request \in Makers(b)
    BY DEF Makers
  <2>4. /\ \A k, q \in DOMAIN a : a[k].response.request = a[q].response.request => k = q
        /\ \A k, q \in DOMAIN b : b[k].response.request = b[q].response.request => k = q
    BY <1>8 DEF Distinct
  <2>5. ~(i \in DOMAIN a /\ c[i] = a[i] /\ j - l \in DOMAIN b /\ c[j] = b[j - l])
    BY <1>8, <2>3
  <2>6. ~(j \in DOMAIN a /\ c[j] = a[j] /\ i - l \in DOMAIN b /\ c[i] = b[i - l])
    BY <1>8, <2>3
  <2> QED
    BY <1>8, <2>1, <2>2, <2>4, <2>5, <2>6
<1> QED
  BY <1>1, <1>2, <1>7, <1>8 DEF Distinct

(* A promise more, at the end.                                             *)
LEMMA MakersOfAppended ==
  ASSUME NEW a \in Seq(Pending), NEW p \in Pending
  PROVE  /\ Append(a, p) \in Seq(Pending)
         /\ Makers(Append(a, p)) = Makers(a) \cup {p.response.request}
         /\ Distinct(a) /\ p.response.request \notin Makers(a) => Distinct(Append(a, p))
<1>0. <<p>> \in Seq(Pending)
  OBVIOUS
<1>1. PICK b \in Seq(Pending) : b = <<p>>
  BY <1>0
<1>2. Makers(b) = {p.response.request} /\ Distinct(b)
  BY <1>1 DEF Makers, Distinct
<1>3. Append(a, p) = a \o b
  BY <1>1, AppendIsConcat
<1> QED
  BY <1>2, <1>3, MakersOfJoined

(* The first promise and the others.                                       *)
LEMMA MakersOfTail ==
  ASSUME NEW a \in Seq(Pending), a # <<>>
  PROVE  /\ Head(a) \in Pending /\ Tail(a) \in Seq(Pending)
         /\ Makers(a) = {Head(a).response.request} \cup Makers(Tail(a))
         /\ Distinct(a) => Distinct(Tail(a)) /\ Head(a).response.request \notin Makers(Tail(a))
<1>1. PICK h, b : h = Head(a) /\ b = Tail(a)
  OBVIOUS
<1>2. /\ h \in Pending /\ b \in Seq(Pending) /\ Len(a) \in Nat /\ Len(a) > 0
      /\ h = a[1] /\ Len(b) = Len(a) - 1 /\ DOMAIN b = 1 .. Len(b)
      /\ DOMAIN a = 1 .. Len(a) /\ \A i \in 1 .. Len(b) : b[i] = a[i + 1]
  BY <1>1
<1>3. /\ 1 \in DOMAIN a /\ \A i \in DOMAIN b : i + 1 \in DOMAIN a /\ i + 1 # 1 /\ b[i] = a[i + 1]
      /\ \A i \in DOMAIN a : i = 1 \/ \E j \in DOMAIN b : i = j + 1
  <2>1. \A i \in DOMAIN a : i = 1 \/ (i - 1 \in DOMAIN b /\ i = (i - 1) + 1)
    BY <1>2
  <2> QED
    BY <1>2, <2>1
<1>4. Makers(a) = {h.response.request} \cup Makers(b)
  <2>1. \A i \in DOMAIN a : a[i].response.request \in {h.response.request} \cup Makers(b)
    BY <1>2, <1>3 DEF Makers
  <2>2. h.response.request \in Makers(a) /\ Makers(b) \subseteq Makers(a)
    BY <1>2, <1>3 DEF Makers
  <2>3. Makers(a) \subseteq {h.response.request} \cup Makers(b)
    BY <2>1 DEF Makers
  <2> QED
    BY <2>2, <2>3
<1>5. ASSUME Distinct(a) PROVE Distinct(b) /\ h.response.request \notin Makers(b)
  <2>1. \A i, j \in DOMAIN a : a[i].response.request = a[j].response.request => i = j
    BY <1>5 DEF Distinct
  <2>2. ASSUME NEW i \in DOMAIN b PROVE b[i].response.request # h.response.request
    BY <1>2, <1>3, <2>1, <2>2
  <2>3. ASSUME NEW i \in DOMAIN b, NEW j \in DOMAIN b,
               b[i].response.request = b[j].response.request
        PROVE  i = j
    <3>1. i + 1 = j + 1
      BY <1>3, <2>1, <2>3
    <3> QED
      BY <1>2, <2>3, <3>1
  <2> QED
    BY <2>2, <2>3 DEF Makers, Distinct
<1> QED
  BY <1>1, <1>2, <1>4, <1>5

(* No promise is in a new context.                                         *)
LEMMA FreshIsEmpty == J!Fresh \in Context /\ Apart(J!Fresh) /\ Bag(J!Fresh) = {}
BY MakersOfNone DEF J!Fresh, Context, Apart, Bag

(* The call of the handler moves promises into the queue.                  *)
LEMMA CalledMoves ==
  ASSUME NEW before \in Context, NEW h \in Running, Apart(before),
         NEW after, after = J!Called(before, h)
  PROVE  /\ after \in Context /\ Apart(after)
         /\ Bag(after) \subseteq Bag(before) /\ after.resolved = before.resolved
<1>1. CASE h.settles
  <2>1. PICK q \in Seq(Pending), d \in Seq(Pending), v \in Responses \cup {None} :
          q = before.jobs /\ d = before.deferred /\ v = before.resolved
    BY DEF Context
  <2>2. after = [resolved |-> v, jobs |-> q \o d, deferred |-> <<>>]
    BY <1>1, <2>1 DEF J!Called, Context
  <2>3. /\ q \o d \in Seq(Pending) /\ Makers(q \o d) = Makers(q) \cup Makers(d)
        /\ Distinct(q \o d)
    BY <2>1, MakersOfJoined DEF Apart
  <2>4. PICK j \in Seq(Pending) : j = q \o d
    BY <2>3
  <2> QED
    BY <2>1, <2>2, <2>3, <2>4, MakersOfNone DEF Context, Apart, Bag
<1>2. CASE ~h.settles
  BY <1>2 DEF J!Called
<1> QED
  BY <1>1, <1>2

(* What a dispatch for request m leaves in the context: m has a promise    *)
(* only if the handler returned one, and what is in the global was put     *)
(* there by this call, unless the handler threw.                           *)
Moved(before, m, h, after) ==
  /\ after \in Context /\ Apart(after)
  /\ Bag(after) \subseteq Bag(before) \cup {m}
  /\ ~J!IsPromise(h) => Bag(after) \subseteq Bag(before)
  /\ h.returns \notin {"response", "exception"} => after.resolved = None

(* __workex_dispatch__ for a request that made nothing yet.                *)
LEMMA DispatchMoves ==
  ASSUME NEW before \in Context, NEW m \in Nat, NEW h \in Running,
         Apart(before), m \notin Bag(before),
         NEW after, after = J!Dispatch(before, m, h)
  PROVE  Moved(before, m, h, after)
<1> USE DEF Moved
<1>1. PICK r : r = J!ResponseOf(m, h)
  OBVIOUS
<1>2. r \in Responses /\ r.request = m
  BY <1>1 DEF J!ResponseOf, J!PolyfillStatus, Responses, Running
<1>3. CASE h.returns = "exception"
  <2>1. after = J!Called(before, h)
    BY <1>3 DEF J!Dispatch
  <2> QED
    BY <1>3, <2>1, CalledMoves DEF J!IsPromise
<1>4. CASE J!IsPromise(h)
  <2>1. PICK called : called = J!Called(before, h)
    OBVIOUS
  <2>2. called \in Context /\ Apart(called) /\ Bag(called) \subseteq Bag(before)
    BY <2>1, CalledMoves
  <2>3. PICK q \in Seq(Pending), d \in Seq(Pending) : q = called.jobs /\ d = called.deferred
    BY <2>2 DEF Context
  <2>4. PICK p : p = J!Listening(m, h)
    OBVIOUS
  <2>5. p \in Pending /\ p.response.request = m
    BY <1>1, <1>2, <2>4 DEF J!Listening, Pending, Running
  <2>6. /\ Distinct(q) /\ Distinct(d) /\ Makers(q) \cap Makers(d) = {}
        /\ Makers(q) \cup Makers(d) \subseteq Bag(before) /\ m \notin Makers(q) \cup Makers(d)
    BY <2>2, <2>3 DEF Apart, Bag
  <2>7. CASE h.returns = "promise"
    <3>1. after = [resolved |-> None, jobs |-> Append(q, p), deferred |-> d]
      BY <1>4, <2>1, <2>2, <2>3, <2>4, <2>7 DEF J!Dispatch, J!IsPromise, J!Then, Context
    <3>2. PICK j : j = Append(q, p)
      OBVIOUS
    <3>3. j \in Seq(Pending) /\ Makers(j) = Makers(q) \cup {m} /\ Distinct(j)
      BY <2>5, <2>6, <3>2, MakersOfAppended
    <3>4. after = [resolved |-> None, jobs |-> j, deferred |-> d]
      BY <3>1, <3>2
    <3> QED
      BY <1>4, <2>6, <3>3, <3>4 DEF Context, Apart, Bag
  <2>8. CASE h.returns = "deferred"
    <3>1. after = [resolved |-> None, jobs |-> q, deferred |-> Append(d, p)]
      BY <1>4, <2>1, <2>2, <2>3, <2>4, <2>8 DEF J!Dispatch, J!IsPromise, J!Then, Context
    <3>2. PICK j : j = Append(d, p)
      OBVIOUS
    <3>3. j \in Seq(Pending) /\ Makers(j) = Makers(d) \cup {m} /\ Distinct(j)
      BY <2>5, <2>6, <3>2, MakersOfAppended
    <3>4. after = [resolved |-> None, jobs |-> q, deferred |-> j]
      BY <3>1, <3>2
    <3> QED
      BY <1>4, <2>6, <3>3, <3>4 DEF Context, Apart, Bag
  <2>9. CASE h.returns = "rejected"
    <3>1. after = [resolved |-> None, jobs |-> q, deferred |-> d]
      BY <1>4, <2>1, <2>2, <2>3, <2>9 DEF J!Dispatch, J!IsPromise, J!Then, Context
    <3> QED
      BY <1>4, <2>6, <3>1 DEF Context, Apart, Bag
  <2> QED
    BY <1>4, <2>7, <2>8, <2>9 DEF J!IsPromise
<1>5. CASE ~J!IsPromise(h) /\ h.returns # "exception"
  <2>1. PICK called : called = J!Called(before, h)
    OBVIOUS
  <2>2. called \in Context /\ Apart(called) /\ Bag(called) \subseteq Bag(before)
    BY <2>1, CalledMoves
  <2>3. after = [called EXCEPT !.resolved = IF h.returns = "response" THEN r ELSE None]
    BY <1>1, <1>5, <2>1 DEF J!Dispatch
  <2>4. /\ after \in Context /\ after.jobs = called.jobs /\ after.deferred = called.deferred
        /\ h.returns # "response" => after.resolved = None
    BY <1>2, <2>2, <2>3 DEF Context
  <2>5. Apart(after) /\ Bag(after) \subseteq Bag(before)
    BY <2>2, <2>4 DEF Apart, Bag
  <2> QED
    BY <1>5, <2>4, <2>5 DEF J!IsPromise
<1> QED
  BY <1>3, <1>4, <1>5

(* The same after a reset of the global.                                   *)
LEMMA ResetMoves ==
  ASSUME NEW before \in Context, NEW m \in Nat, NEW h \in Running,
         Apart(before), m \notin Bag(before),
         NEW after, after = J!ResetAndDispatch(before, m, h)
  PROVE  Moved(before, m, h, after)
<1>1. PICK reset : reset = [before EXCEPT !.resolved = None]
  OBVIOUS
<1>2. /\ reset \in Context /\ reset.jobs = before.jobs /\ reset.deferred = before.deferred
  BY <1>1 DEF Context
<1>3. Apart(reset) /\ Bag(reset) = Bag(before)
  BY <1>2 DEF Apart, Bag
<1>4. Moved(reset, m, h, after)
  BY <1>1, <1>2, <1>3, DispatchMoves DEF J!ResetAndDispatch
<1> QED
  BY <1>3, <1>4 DEF Moved

(* A job runs: its promise settles, or goes to the end of the queue.       *)
Settled(before, after) ==
  /\ after \in Context /\ Apart(after) /\ Bag(after) \subseteq Bag(before)
  /\ \/ after.resolved = before.resolved
     \/ /\ after.resolved # None => after.resolved.request \in Bag(before)
        /\ after.resolved # None => after.resolved.request \notin Bag(after)

(* execute_pending_job on such a context.                                  *)
LEMMA JobSettles ==
  ASSUME NEW before \in Context, before.jobs # <<>>, Apart(before),
         NEW after, after = J!RunJob(before)
  PROVE  Settled(before, after)
<1> USE DEF Settled
<1>1. PICK q \in Seq(Pending), d \in Seq(Pending) : q = before.jobs /\ d = before.deferred
  BY DEF Context
<1>2. PICK job, rest : job = Head(q) /\ rest = Tail(q)
  OBVIOUS
<1>3. /\ job \in Pending /\ rest \in Seq(Pending) /\ Distinct(rest)
      /\ Makers(q) = {job.response.request} \cup Makers(rest)
      /\ job.response.request \notin Makers(rest)
  BY <1>1, <1>2, MakersOfTail DEF Apart
<1>4. Distinct(d) /\ Makers(q) \cap Makers(d) = {} /\ Bag(before) = Makers(q) \cup Makers(d)
  BY <1>1 DEF Apart, Bag
<1>5. CASE job.hops = 0
  <2>1. after = [resolved |-> job.response, jobs |-> rest, deferred |-> d]
    BY <1>1, <1>2, <1>5 DEF J!RunJob, Context
  <2>2. job.response \in Responses
    BY <1>3 DEF Pending
  <2>3. after \in Context /\ after.resolved = job.response
    BY <1>3, <2>1, <2>2 DEF Context
  <2>4. Apart(after) /\ Bag(after) = Makers(rest) \cup Makers(d)
    BY <1>3, <1>4, <2>1 DEF Apart, Bag
  <2> QED
    BY <1>3, <1>4, <2>3, <2>4
<1>6. CASE job.hops # 0
  <2>1. PICK again : again = [job EXCEPT !.hops = @ - 1]
    OBVIOUS
  <2>2. job.hops - 1 \in Nat
    BY <1>3, <1>6 DEF Pending
  <2>3. again \in Pending /\ again.response.request = job.response.request
    BY <1>3, <2>1, <2>2 DEF Pending
  <2>4. PICK j : j = Append(rest, again)
    OBVIOUS
  <2>5. j \in Seq(Pending) /\ Makers(j) = Makers(q) /\ Distinct(j)
    BY <1>3, <2>3, <2>4, MakersOfAppended
  <2>6. after = [before EXCEPT !.jobs = j]
    BY <1>1, <1>2, <1>6, <2>1, <2>4 DEF J!RunJob
  <2>7. after \in Context /\ after.resolved = before.resolved /\ after.jobs = j /\ after.deferred = d
    BY <1>1, <2>5, <2>6 DEF Context
  <2> QED
    BY <1>4, <2>5, <2>7 DEF Apart, Bag
<1> QED
  BY <1>5, <1>6

-----------------------------------------------------------------------------
(* Who holds the lock, and what he works on.                               *)
LEMMA Holder ==
  ASSUME EngineInv, NEW c \in Conns, pc[c].at \in Locked
  PROVE  /\ mutex = c /\ context \in Context /\ InUse
         /\ \A d \in Conns : pc[d].at \in Locked => d = c
         /\ Places = DOMAIN pool \cup {0} /\ Store(0) = context
         /\ \A k \in DOMAIN pool : k # 0 /\ Store(k) = pool[k]
<1>1. \A k \in DOMAIN pool : k # 0
  BY DEF EngineInv, EngineTypes
<1> QED
  BY <1>1 DEF EngineInv, Turns, InUse, Places, Store

(* The request of a connection.                                            *)
LEMMA OnRequest ==
  ASSUME EngineInv, NEW c \in Conns, pc[c].at \in Busy \cup {"replying"}
  PROVE  /\ pc[c].request \in Received /\ pc[c].request \in Nat \ {0}
         /\ Current(c) \in Running /\ answer[pc[c].request] \in Answers
         /\ calls[pc[c].request] \in Nat
         /\ \A d \in Conns : pc[d].request = pc[c].request => d = c
<1>1. pc[c].request \in DOMAIN handler /\ pc[c].request \in Nat \ {0}
  BY DEF EngineInv, EngineTypes, Turns, Received
<1>2. DOMAIN handler = 1 .. Len(handler) /\ DOMAIN answer = 1 .. Len(handler)
      /\ DOMAIN calls = 1 .. Len(handler)
  BY DEF EngineInv, EngineTypes
<1>3. Current(c) \in Running
  BY <1>1 DEF EngineInv, EngineTypes, Current
<1>4. answer[pc[c].request] \in Answers /\ calls[pc[c].request] \in Nat
  BY <1>1, <1>2 DEF EngineInv, EngineTypes
<1>5. \A d \in Conns : pc[d].request = pc[c].request => d = c
  BY <1>1 DEF EngineInv, Turns
<1> QED
  BY <1>1, <1>3, <1>4, <1>5 DEF Received

(* What a step does to pc.                                                 *)
LEMMA StepOfPc ==
  ASSUME EngineTypes, NEW c \in Conns, NEW step \in Steps, Goto(c, step)
  PROVE  /\ pc' \in [Conns -> [at : Steps, request : Nat]]
         /\ pc'[c].at = step /\ pc'[c].request = pc[c].request
         /\ \A d \in Conns : d # c => pc'[d] = pc[d]
         /\ \A d \in Conns : pc'[d].request = pc[d].request
BY DEF EngineTypes, Goto

(* A connection has no request any more.                                   *)
LEMMA EndOfPc ==
  ASSUME EngineTypes, NEW c \in Conns, NEW step \in Steps,
         pc' = [pc EXCEPT ![c] = [at |-> step, request |-> 0]]
  PROVE  /\ pc' \in [Conns -> [at : Steps, request : Nat]]
         /\ pc'[c].at = step /\ pc'[c].request = 0
         /\ \A d \in Conns : d # c => pc'[d] = pc[d]
BY DEF EngineTypes

(* An answer is noted.                                                     *)
LEMMA AnswerNoted ==
  ASSUME EngineTypes, NEW r \in Received, NEW a \in Answers, answer' = [answer EXCEPT ![r] = a]
  PROVE  /\ answer' \in Seq(Answers) /\ Len(answer') = Len(answer) /\ answer'[r] = a
         /\ \A q \in Received : q # r => answer'[q] = answer[q]
<1>1. PICK n \in Nat : n = Len(answer) /\ DOMAIN answer = 1 .. n /\ DOMAIN handler = 1 .. n
  BY DEF EngineTypes
<1>2. answer \in Seq(Answers) /\ r \in 1 .. Len(answer)
  BY <1>1 DEF EngineTypes, Received
<1>3. /\ answer' \in Seq(Answers) /\ Len(answer') = Len(answer)
      /\ answer'[r] = a /\ \A q \in 1 .. Len(answer) : q # r => answer'[q] = answer[q]
  BY <1>2, ExceptSeq
<1> QED
  BY <1>1, <1>3 DEF Received

(* The steps of one request: the others' are as they were, so it is enough *)
(* to look at the connection that moves.                                   *)
LEMMA TurnTaken ==
  ASSUME EngineInv, EngineTypes', NEW c \in Conns,
         Received \subseteq Received',
         \A d \in Conns : d # c => pc'[d] = pc[d],
         \A q \in Received : q # pc[c].request =>
           handler'[q].returns = handler[q].returns /\ answer'[q] = answer[q],
         pc'[c].at \in Locked => mutex' = c /\ context' \in Context,
         pc'[c].at \in Busy \cup {"replying"} => pc'[c].request \in Received',
         pc'[c].at \in {"reading", "closed"} => pc'[c].request = 0,
         pc'[c].at \in Busy => answer'[pc'[c].request] = Is("pending"),
         pc'[c].at = "draining" => handler'[pc'[c].request].returns \notin {"exception", "loops"},
         pc'[c].request \in {0, pc[c].request} \cup (Received' \ Received),
         \/ UNCHANGED <<mutex, context>>
         \/ \A d \in Conns : d # c => pc[d].at \notin Locked,
         pc[c].request = 0 \/ pc[c].request \in Received
  PROVE  EngineInv'
<1> USE DEF EngineInv, Turns
<1>1. ASSUME NEW d \in Conns, d # c PROVE
        /\ pc'[d].at \in Locked => mutex' = d /\ context' \in Context
        /\ pc'[d].at \in Busy \cup {"replying"} => pc'[d].request \in Received'
        /\ pc'[d].at \in {"reading", "closed"} => pc'[d].request = 0
        /\ pc'[d].at \in Busy => answer'[pc'[d].request] = Is("pending")
        /\ pc'[d].at = "draining" => handler'[pc'[d].request].returns \notin {"exception", "loops"}
  <2>1. pc'[d] = pc[d]
    BY <1>1
  <2>2. pc[d].at \in Busy \cup {"replying"} =>
          /\ pc[d].request \in Received /\ pc[d].request # pc[c].request
          /\ pc[d].request # 0
    BY <1>1, OnRequest
  <2>3. Locked \subseteq Busy /\ "draining" \in Busy
    BY DEF Locked, Busy
  <2> QED
    BY <1>1, <2>1, <2>2, <2>3 DEF Current
<1>2. ASSUME NEW d \in Conns, d # c, pc'[d].request = pc'[c].request PROVE pc'[c].request = 0
  <2>1. pc[d].request = 0 \/ pc[d].request \in Received
    <3>1. pc[d].at \in Steps
      BY DEF EngineTypes
    <3> QED
      BY <3>1 DEF Steps
  <2>2. 0 \notin Received'
    BY DEF EngineTypes, Received
  <2> QED
    BY <1>2, <2>1, <2>2
<1>3. \A d \in Conns, e \in Conns : pc'[d].request = pc'[e].request /\ pc'[d].request # 0 => d = e
  BY <1>2
<1> QED
  BY <1>1, <1>3 DEF Current

-----------------------------------------------------------------------------
(* A request arrives.                                                      *)
LEMMA ReceiveTurns ==
  ASSUME EngineInv, NEW c \in Conns, NEW h \in Handlers, Receive(c, h)
  PROVE  /\ EngineInv' /\ pc[c].request = 0
         /\ pc'[c] = [at |-> "locking", request |-> Len(handler) + 1]
         /\ Received' = Received \cup {Len(handler) + 1} /\ Len(handler) + 1 \notin Received
         /\ \A d \in Conns : d # c => pc'[d] = pc[d]
         /\ \A q \in Received : handler'[q] = handler[q] /\ answer'[q] = answer[q] /\ calls'[q] = calls[q]
         /\ answer'[Len(handler) + 1] = Is("pending") /\ calls'[Len(handler) + 1] = 0
<1> USE DEF EngineInv
<1>1. PICK n \in Nat : n = Len(handler) /\ n = Len(answer) /\ n = Len(calls)
  BY DEF EngineTypes
<1>2. Behaviour(h) \in Running /\ Is("pending") \in Answers /\ 0 \in Nat
  <2>1. h \in Running
    BY HandlersAssumption DEF Running
  <2> QED
    BY <2>1 DEF Behaviour, Running, Is, Answers
<1>3. /\ handler' \in Seq(Running) /\ Len(handler') = n + 1
      /\ \A q \in 1 .. n : handler'[q] = handler[q]
  BY <1>1, <1>2, AppendProperties DEF EngineTypes, Receive
<1>4. /\ answer' \in Seq(Answers) /\ Len(answer') = n + 1 /\ answer'[n + 1] = Is("pending")
      /\ \A q \in 1 .. n : answer'[q] = answer[q]
  BY <1>1, <1>2, AppendProperties DEF EngineTypes, Receive
<1>5. /\ calls' \in Seq(Nat) /\ Len(calls') = n + 1 /\ calls'[n + 1] = 0
      /\ \A q \in 1 .. n : calls'[q] = calls[q]
  BY <1>1, <1>2, AppendProperties DEF EngineTypes, Receive
<1>6. Received = 1 .. n /\ Received' = 1 .. n + 1
  BY <1>1, <1>3 DEF Received, EngineTypes
<1>7. /\ pc'[c] = [at |-> "locking", request |-> n + 1]
      /\ \A d \in Conns : d # c => pc'[d] = pc[d]
      /\ pc' \in [Conns -> [at : Steps, request : Nat]]
  BY <1>1 DEF Receive, EngineTypes, Steps, Busy, Early
<1>8. UNCHANGED <<server, pool, mutex, context, round>> /\ pc[c].at = "reading"
  BY DEF Receive, At
<1>9. EngineTypes'
  BY <1>3, <1>4, <1>5, <1>7, <1>8 DEF EngineTypes
<1>10. pc[c].request = 0
  BY <1>8 DEF Turns
<1>11. n + 1 \in Received' /\ n + 1 \notin Received /\ Received' = Received \cup {n + 1}
  BY <1>6
<1>12. EngineInv'
  BY <1>3, <1>4, <1>6, <1>7, <1>8, <1>9, <1>10, <1>11, TurnTaken DEF Locked
<1> QED
  BY <1>1, <1>3, <1>4, <1>5, <1>6, <1>7, <1>10, <1>11, <1>12

(* A step of a request that neither answers it nor releases the context.   *)
LEMMA StepTurns ==
  ASSUME EngineInv, NEW c \in Conns, pc[c].at \in Busy, NEW step \in Busy, Goto(c, step),
         UNCHANGED <<server, answer>>, handler' \in Seq(Running), Len(handler') = Len(handler),
         \A q \in Received : handler'[q].returns = handler[q].returns,
         pool' \in Seq(Context), round' \in {1, 2}, calls' \in Seq(Nat), Len(calls') = Len(calls),
         step \in Locked => mutex' = c /\ context' \in Context,
         \/ UNCHANGED <<mutex, context>>
         \/ \A d \in Conns : d # c => pc[d].at \notin Locked,
         step = "draining" => Current(c).returns \notin {"exception", "loops"}
  PROVE  EngineInv'
<1> USE DEF EngineInv
<1>1. Busy \subseteq Steps
  BY DEF Steps
<1>2. /\ pc' \in [Conns -> [at : Steps, request : Nat]]
      /\ pc'[c].at = step /\ pc'[c].request = pc[c].request
      /\ \A d \in Conns : d # c => pc'[d] = pc[d]
  BY <1>1, StepOfPc
<1>3. EngineTypes'
  BY <1>2 DEF EngineTypes
<1>4. pc[c].request \in Received /\ Received' = Received /\ answer[pc[c].request] = Is("pending")
  BY DEF Turns, Received, EngineTypes
<1>5. step \notin {"reading", "closed"}
  BY DEF Busy, Early, Locked
<1> QED
  BY <1>2, <1>3, <1>4, <1>5, TurnTaken DEF Current

(* The steps that end the request of a connection: dropped, answered.      *)
LEMMA DropTurns ==
  ASSUME EngineInv, NEW c \in Conns, pc[c].at \in Busy \cup {"replying"}, Drop(c),
         UNCHANGED <<server, pool, round, handler, calls>>,
         \/ UNCHANGED <<mutex, context>>
         \/ \A d \in Conns : d # c => pc[d].at \notin Locked
  PROVE  /\ EngineInv' /\ pc'[c].at = "closed" /\ pc'[c].request = 0
         /\ \A d \in Conns : d # c => pc'[d] = pc[d]
         /\ answer'[pc[c].request] = Is("dropped")
         /\ \A q \in Received : q # pc[c].request => answer'[q] = answer[q]
<1> USE DEF EngineInv
<1>1. pc[c].request \in Received
  BY OnRequest
<1>2. Is("dropped") \in Answers /\ "closed" \in Steps
  BY DEF Is, Answers, Steps
<1>3. /\ answer' \in Seq(Answers) /\ Len(answer') = Len(answer)
      /\ answer'[pc[c].request] = Is("dropped")
      /\ \A q \in Received : q # pc[c].request => answer'[q] = answer[q]
  BY <1>1, <1>2, AnswerNoted DEF Drop
<1>4. /\ pc' \in [Conns -> [at : Steps, request : Nat]]
      /\ pc'[c].at = "closed" /\ pc'[c].request = 0
      /\ \A d \in Conns : d # c => pc'[d] = pc[d]
  BY <1>2, EndOfPc DEF Drop
<1>5. EngineTypes'
  BY <1>3, <1>4 DEF EngineTypes
<1>6. Received' = Received /\ "closed" \notin Busy \cup {"replying"} /\ "closed" \notin Locked
  BY DEF Received, Busy, Early, Locked
<1>7. EngineInv'
  BY <1>1, <1>3, <1>4, <1>5, <1>6, TurnTaken
<1> QED
  BY <1>3, <1>4, <1>7

(* The answer is noted, context and lock are given back.                   *)
LEMMA ReleaseTurns ==
  ASSUME EngineInv, NEW c \in Conns, pc[c].at \in Locked, NEW result \in Answers,
         Release(c, result)
  PROVE  /\ EngineInv' /\ pc'[c].at = "replying" /\ pc'[c].request = pc[c].request
         /\ \A d \in Conns : d # c => pc'[d] = pc[d]
         /\ answer'[pc[c].request] = result
         /\ \A q \in Received : q # pc[c].request => answer'[q] = answer[q]
         /\ pool' = pool \/ pool' = Append(pool, context)
         /\ UNCHANGED <<server, round, handler, calls>>
<1> USE DEF EngineInv
<1>0. UNCHANGED <<server, round, handler, calls>>
  BY DEF Release
<1>1. pc[c].request \in Received /\ Locked \subseteq Busy
  BY OnRequest DEF Busy
<1>2. /\ context \in Context /\ \A d \in Conns : d # c => pc[d].at \notin Locked
  BY Holder
<1>3. /\ answer' \in Seq(Answers) /\ Len(answer') = Len(answer)
      /\ answer'[pc[c].request] = result
      /\ \A q \in Received : q # pc[c].request => answer'[q] = answer[q]
  BY <1>1, AnswerNoted DEF Release
<1>4. /\ pc' \in [Conns -> [at : Steps, request : Nat]]
      /\ pc'[c].at = "replying" /\ pc'[c].request = pc[c].request
      /\ \A d \in Conns : d # c => pc'[d] = pc[d]
  BY StepOfPc DEF Release, Steps
<1>5. pool' = pool \/ pool' = Append(pool, context)
  BY DEF Release, GiveBack
<1>6. pool' \in Seq(Context)
  <2>1. pool \in Seq(Context) /\ Append(pool, context) \in Seq(Context)
    BY <1>2, AppendProperties DEF EngineTypes
  <2> QED
    BY <1>5, <2>1
<1>7. EngineTypes'
  BY <1>0, <1>3, <1>4, <1>6 DEF EngineTypes
<1>8. Received' = Received /\ "replying" \notin Busy /\ "replying" \notin Locked
  BY <1>0 DEF Received, Busy, Early, Locked
<1>9. EngineInv'
  BY <1>0, <1>1, <1>2, <1>3, <1>4, <1>7, <1>8, TurnTaken
<1> QED
  BY <1>0, <1>3, <1>4, <1>5, <1>9

(* The reply was sent, or the client connects again.                       *)
LEMMA EndTurns ==
  ASSUME EngineInv, NEW c \in Conns, pc[c].at \notin Busy, NEW step \in {"reading"},
         pc' = [pc EXCEPT ![c] = [at |-> step, request |-> 0]],
         UNCHANGED <<server, pool, mutex, context, round, handler, calls, answer>>
  PROVE  /\ EngineInv' /\ pc'[c].at = "reading" /\ pc'[c].request = 0
         /\ \A d \in Conns : d # c => pc'[d] = pc[d]
<1> USE DEF EngineInv
<1>1. /\ pc' \in [Conns -> [at : Steps, request : Nat]]
      /\ pc'[c].at = "reading" /\ pc'[c].request = 0
      /\ \A d \in Conns : d # c => pc'[d] = pc[d]
  BY EndOfPc DEF Steps
<1>2. EngineTypes'
  BY <1>1 DEF EngineTypes
<1>3. /\ Received' = Received /\ "reading" \notin Busy \cup {"replying"} /\ "reading" \notin Locked
      /\ pc[c].request = 0 \/ pc[c].request \in Received
  BY DEF Received, Busy, Early, Locked, EngineTypes, Turns, Steps
<1>4. EngineInv'
  BY <1>1, <1>2, <1>3, TurnTaken
<1> QED
  BY <1>1, <1>4

-----------------------------------------------------------------------------
(* The contexts change places, and one of them may get promises for the    *)
(* requests N, which no other has: f says where a context was before.      *)
LEMMA StoresMove ==
  ASSUME CarriedApart, NEW f \in [Places' -> Places], NEW N,
         \A j, k \in Places' : f[j] = f[k] => j = k,
         \A m \in N : ~Carried(m),
         \A k \in Places' : Apart(Store(k))',
         \A k \in Places' : Bag(Store(k))' \subseteq Bag(Store(f[k])) \cup (IF k = 0 THEN N ELSE {})
  PROVE  CarriedApart' /\ \A m : Carried(m)' => Carried(m) \/ m \in N
<1>1. ASSUME NEW m, NEW k \in Places', m \in Bag(Store(k))'
      PROVE  f[k] \in Places /\ (m \in Bag(Store(f[k])) \/ (k = 0 /\ m \in N))
  BY <1>1
<1>2. \A m : Carried(m)' => Carried(m) \/ m \in N
  BY <1>1 DEF Carried
<1>3. ASSUME NEW j \in Places', NEW k \in Places', j # k,
             NEW m, m \in Bag(Store(j))', m \in Bag(Store(k))'
      PROVE  FALSE
  <2>1. f[j] \in Places /\ f[k] \in Places /\ f[j] # f[k]
    BY <1>3
  <2>2. Bag(Store(f[j])) \cap Bag(Store(f[k])) = {}
    BY <2>1 DEF CarriedApart
  <2>3. m \in N => m \notin Bag(Store(f[j])) /\ m \notin Bag(Store(f[k]))
    BY <2>1 DEF Carried
  <2>4. m \in Bag(Store(f[j])) \/ (j = 0 /\ m \in N)
    BY <1>1, <1>3
  <2>5. m \in Bag(Store(f[k])) \/ (k = 0 /\ m \in N)
    BY <1>1, <1>3
  <2> QED
    BY <1>3, <2>2, <2>3, <2>4, <2>5
<1> QED
  BY <1>2, <1>3 DEF CarriedApart

(* Only the context in use changes.                                        *)
LEMMA ContextChanges ==
  ASSUME EngineInv, CarriedApart, NEW c \in Conns, pc[c].at \in Locked,
         EngineInv', pc'[c].at \in Locked, pool' = pool,
         NEW N, \A m \in N : ~Carried(m),
         Apart(context)', Bag(context)' \subseteq Bag(context) \cup N
  PROVE  CarriedApart' /\ \A m : Carried(m)' => Carried(m) \/ m \in N
<1>1. /\ Places = DOMAIN pool \cup {0} /\ Store(0) = context
      /\ \A k \in DOMAIN pool : k # 0 /\ Store(k) = pool[k]
  BY Holder
<1>2. /\ Places' = DOMAIN pool \cup {0} /\ Store(0)' = context'
      /\ \A k \in DOMAIN pool : Store(k)' = pool[k]
  BY <1>1 DEF InUse, Places, Store
<1>3. \A k \in Places' : Apart(Store(k))'
  BY <1>1, <1>2 DEF CarriedApart
<1>4. PICK f \in [Places' -> Places] : \A k \in Places' : f[k] = k
  <2>1. [k \in Places' |-> k] \in [Places' -> Places]
    BY <1>1, <1>2
  <2> QED
    BY <2>1
<1>5. \A k \in Places' : Bag(Store(k))' \subseteq Bag(Store(f[k])) \cup (IF k = 0 THEN N ELSE {})
  BY <1>1, <1>2, <1>4
<1> QED
  BY <1>3, <1>4, <1>5, StoresMove

(* No context changes, though the one in use may go.                       *)
LEMMA StoresStay ==
  ASSUME EngineInv, CarriedApart, pool' = pool, InUse' => InUse /\ context' = context
  PROVE  CarriedApart' /\ \A m : Carried(m)' => Carried(m)
<1>1. \A k \in Places' : k \in Places /\ Store(k)' = Store(k)
  BY DEF Places, Store, EngineInv, EngineTypes
<1> QED
  BY <1>1 DEF CarriedApart, Carried

(* A response moves on: from unsent into a promise, from there into the    *)
(* global, and from one of these into the answer of request r.             *)
LEMMA MovesOn ==
  ASSUME OnceEach, NEW r, \A m : ~Given(r, m), Received \subseteq Received',
         \A m : Unsent(m)' => Unsent(m) \/ m \in Received' \ Received,
         \A m : Carried(m)' => Carried(m) \/ (Unsent(m) /\ m \in Received /\ ~Unsent(m)'),
         \A m : Live(m)' => Live(m) \/ (Carried(m) /\ ~Carried(m)'),
         \A q, m : Given(q, m)' =>
           \/ Given(q, m)
           \/ q = r /\ Live(m) /\ ~Live(m)'
           \/ q = r /\ Unsent(m) /\ m \in Received /\ ~Unsent(m)' /\ ~Carried(m)'
  PROVE  OnceEach'
<1>1. ASSUME NEW m, Carried(m)' PROVE m \in Received' /\ ~Unsent(m)'
  BY <1>1 DEF OnceEach
<1>2. ASSUME NEW m, Live(m)' PROVE m \in Received' /\ ~Unsent(m)' /\ ~Carried(m)'
  BY <1>2 DEF OnceEach
<1>3. ASSUME NEW q, NEW m, Given(q, m)'
      PROVE  m \in Received' /\ ~Unsent(m)' /\ ~Carried(m)' /\ ~Live(m)'
  BY <1>3 DEF OnceEach
<1>4. ASSUME NEW p, NEW q, NEW m, Given(p, m)', Given(q, m)' PROVE p = q
  BY <1>4 DEF OnceEach
<1> QED
  BY <1>1, <1>2, <1>3, <1>4 DEF OnceEach

(* A step of a request without an answer: none is given.                   *)
LEMMA NothingGiven ==
  ASSUME EngineInv, NEW c \in Conns, pc[c].at \in Busy
  PROVE  \A m : ~Given(pc[c].request, m)
BY DEF EngineInv, Turns, Given, IsResponse, Is

(* What the connections that do not move make of it.                       *)
LEMMA OthersSame ==
  ASSUME EngineInv, NEW c \in Conns, \A d \in Conns : d # c => pc'[d] = pc[d],
         server' = server,
         \A q \in Received : q # pc[c].request => handler'[q].returns = handler[q].returns,
         \/ UNCHANGED <<round, context>>
         \/ \A d \in Conns : d # c => pc[d].at \notin Locked
  PROVE  /\ \A m : Unsent(m)' => Unsent(m) \/ (Waits(c)' /\ m = pc'[c].request)
         /\ \A m : Live(m)' => Live(m) \/ (Reads(c)' /\ context'.resolved # None
                                             /\ context'.resolved.request = m)
         /\ \A m : m = pc[c].request /\ m # 0 /\ ~Waits(c)' => ~Unsent(m)'
         /\ (\A d \in Conns : d # c => pc[d].at \notin Locked) /\ ~Reads(c)' => \A m : ~Live(m)'
<1>1. ASSUME NEW d \in Conns, d # c
      PROVE  /\ Waits(d)' => Waits(d)
             /\ Reads(d)' => Reads(d) /\ context' = context /\ pc[d].at \in Locked
  <2>1. pc'[d] = pc[d]
    BY <1>1
  <2>2. CASE pc[d].at = "draining"
    <3>1. "draining" \in Locked /\ "draining" \in Busy
      BY DEF Locked, Busy
    <3>2. pc[d].request \in Received /\ pc[d].request # pc[c].request
      BY <1>1, <2>2, <3>1, OnRequest
    <3>3. handler'[pc[d].request].returns = handler[pc[d].request].returns
      BY <3>2
    <3>4. UNCHANGED <<round, context>>
      BY <1>1, <2>2, <3>1
    <3>5. First' = First /\ Direct(d)' = Direct(d)
      BY <2>1, <3>3, <3>4 DEF First, Direct, Current
    <3> QED
      BY <2>1, <2>2, <3>1, <3>4, <3>5 DEF Waits, Reads, At
  <2>3. CASE pc[d].at # "draining"
    BY <2>1, <2>3 DEF Waits, Reads, At
  <2> QED
    BY <2>2, <2>3
<1>2. ASSUME NEW m, Unsent(m)' PROVE Unsent(m) \/ (Waits(c)' /\ m = pc'[c].request)
  BY <1>1, <1>2 DEF Unsent
<1>3. ASSUME NEW m, Live(m)'
      PROVE  Live(m) \/ (Reads(c)' /\ context'.resolved # None /\ context'.resolved.request = m)
  BY <1>1, <1>3 DEF Live
<1>4. ASSUME NEW m, m = pc[c].request, m # 0, ~Waits(c)', Unsent(m)' PROVE FALSE
  <2>1. PICK d \in Conns : pc'[d].request = m /\ Waits(d)'
    BY <1>4 DEF Unsent
  <2>2. d # c /\ pc[d].request = pc[c].request
    BY <1>4, <2>1
  <2> QED
    BY <1>4, <2>2 DEF EngineInv, Turns
<1>5. ASSUME \A d \in Conns : d # c => pc[d].at \notin Locked, ~Reads(c)', NEW m, Live(m)' PROVE FALSE
  BY <1>1, <1>5 DEF Live
<1> QED
  BY <1>2, <1>3, <1>4, <1>5

(* The answers stay.                                                       *)
LEMMA GivenStays ==
  ASSUME answer' = answer, DOMAIN handler' = DOMAIN handler
  PROVE  Received' = Received /\ \A q, m : Given(q, m)' => Given(q, m)
BY DEF Given, Received, IsResponse

(* No answer more.                                                         *)
LEMMA GivenNoMore ==
  ASSUME EngineInv, NEW r \in Received, Received' = Received, ~IsResponse(answer'[r]),
         \A q \in Received : q # r => answer'[q] = answer[q]
  PROVE  \A q, m : Given(q, m)' => Given(q, m)
BY DEF Given, IsResponse

-----------------------------------------------------------------------------
(* Every step keeps the invariant.                                         *)
LEMMA ReceiveDelivers ==
  ASSUME DeliveryInv, NEW c \in Conns, NEW h \in Handlers, Receive(c, h)
  PROVE  DeliveryInv'
<1> USE DEF DeliveryInv
<1>1. PICK n : n = Len(handler) + 1
  OBVIOUS
<1>2. /\ EngineInv' /\ pc[c].request = 0
      /\ pc'[c] = [at |-> "locking", request |-> n]
      /\ Received' = Received \cup {n} /\ n \notin Received
      /\ \A d \in Conns : d # c => pc'[d] = pc[d]
      /\ \A q \in Received : handler'[q] = handler[q] /\ answer'[q] = answer[q]
      /\ answer'[n] = Is("pending")
  BY <1>1, ReceiveTurns
<1>3. UNCHANGED <<server, pool, context, round>> /\ pc[c].at = "reading"
  BY DEF Receive, At
<1>4. /\ \A m : Unsent(m)' => Unsent(m) \/ m = n
      /\ \A m : Live(m)' => Live(m)
  <2>1. ~Reads(c)' /\ pc'[c].request = n
    BY <1>2 DEF Reads, At
  <2> QED
    BY <1>2, <1>3, <2>1, OthersSame
<1>5. InUse' => InUse
  BY <1>2 DEF InUse, Locked
<1>6. CarriedApart' /\ \A m : Carried(m)' => Carried(m)
  BY <1>3, <1>5, StoresStay
<1>7. \A q, m : Given(q, m)' => Given(q, m)
  BY <1>2 DEF Given, IsResponse, Is
<1>8. \A m : ~Given(n, m)
  BY <1>2 DEF Given
<1>9. OnceEach'
  BY <1>2, <1>4, <1>6, <1>7, <1>8, MovesOn
<1> QED
  BY <1>2, <1>6, <1>9

(* Before the context in use changes: the lock was taken, the outbound     *)
(* fetch begins or returns, the second call begins.                        *)
LEMMA QuietDelivers ==
  ASSUME DeliveryInv, EngineInv', NEW c \in Conns, pc[c].at \in Locked, pc'[c].at \in Locked,
         pc'[c].request = pc[c].request, \A d \in Conns : d # c => pc'[d] = pc[d],
         UNCHANGED <<server, pool, context, answer>>, DOMAIN handler' = DOMAIN handler,
         \A q \in Received : handler'[q].returns = handler[q].returns,
         Waits(c)' => Waits(c), ~Reads(c)'
  PROVE  DeliveryInv'
<1> USE DEF DeliveryInv
<1>1. \A d \in Conns : d # c => pc[d].at \notin Locked
  BY Holder
<1>2. /\ \A m : Unsent(m)' => Unsent(m) \/ (Waits(c)' /\ m = pc'[c].request)
      /\ \A m : ~Live(m)'
  BY <1>1, OthersSame
<1>3. \A m : Unsent(m)' => Unsent(m)
  BY <1>2 DEF Unsent
<1>4. InUse
  BY DEF InUse
<1>5. CarriedApart' /\ \A m : Carried(m)' => Carried(m)
  BY <1>4, StoresStay
<1>6. Received' = Received /\ \A q, m : Given(q, m)' => Given(q, m)
  BY GivenStays
<1>7. \A m : ~Given(pc[c].request, m)
  BY NothingGiven DEF Busy
<1>8. OnceEach'
  BY <1>2, <1>3, <1>5, <1>6, <1>7, MovesOn
<1> QED
  BY <1>5, <1>8

(* The outbound fetch begins.                                              *)
LEMMA FetchOutDelivers ==
  ASSUME DeliveryInv, NEW c \in Conns, FetchOut(c)
  PROVE  DeliveryInv'
<1> USE DEF DeliveryInv
<1>1. /\ pc[c].at = "calling" /\ Goto(c, "fetching")
      /\ UNCHANGED <<server, pool, mutex, context, round, handler, calls, answer>>
  BY DEF FetchOut, At
<1>2. /\ {"calling", "fetching"} \subseteq Locked \cap Busy \cap Early \cap Steps
      /\ "fetching" # "draining"
  BY DEF Locked, Busy, Early, Steps
<1>3. EngineTypes
  BY DEF EngineInv
<1>4. EngineInv'
  BY <1>1, <1>2, <1>3, StepTurns, Holder DEF EngineTypes
<1>5. /\ pc'[c].at = "fetching" /\ pc'[c].request = pc[c].request
      /\ \A d \in Conns : d # c => pc'[d] = pc[d]
  BY <1>1, <1>2, <1>3, StepOfPc
<1>6. Waits(c) /\ ~Reads(c)'
  BY <1>1, <1>2, <1>5 DEF Waits, Reads, At
<1> QED
  BY <1>1, <1>2, <1>4, <1>5, <1>6, QuietDelivers

(* It returns: the handler will give its response another status.          *)
LEMMA FetchReturnsDelivers ==
  ASSUME DeliveryInv, NEW c \in Conns, NEW status \in Upstream, FetchReturns(c, status)
  PROVE  /\ DeliveryInv' /\ Received' = Received
         /\ \A q \in Received : handler'[q].returns = handler[q].returns
<1> USE DEF DeliveryInv
<1>1. /\ pc[c].at = "fetching" /\ Goto(c, "fetched")
      /\ handler' = [handler EXCEPT ![pc[c].request].status = status]
      /\ UNCHANGED <<server, pool, mutex, context, round, calls, answer>>
  BY DEF FetchReturns, At
<1>2. /\ {"fetched", "fetching"} \subseteq Locked \cap Busy \cap Early \cap Steps
      /\ "fetched" # "draining"
  BY DEF Locked, Busy, Early, Steps
<1>3. EngineTypes
  BY DEF EngineInv
<1>4. /\ handler' \in Seq(Running) /\ Len(handler') = Len(handler)
      /\ DOMAIN handler' = DOMAIN handler
      /\ \A q \in Received : handler'[q].returns = handler[q].returns
  <2>1. pc[c].request \in 1 .. Len(handler) /\ handler \in Seq(Running)
    BY <1>1, <1>2, <1>3, OnRequest DEF EngineTypes, Received
  <2>2. PICK h : h = [handler[pc[c].request] EXCEPT !.status = status]
    OBVIOUS
  <2>3. handler[pc[c].request] \in Running /\ status \in Nat
    BY <2>1, HandlersAssumption
  <2>4. h \in Running /\ h.returns = handler[pc[c].request].returns
    BY <2>2, <2>3 DEF Running
  <2>5. handler' = [handler EXCEPT ![pc[c].request] = h]
    BY <1>1, <2>2
  <2>6. /\ handler' \in Seq(Running) /\ Len(handler') = Len(handler)
        /\ \A q \in 1 .. Len(handler) : handler'[q] = IF q = pc[c].request THEN h ELSE handler[q]
    BY <2>1, <2>4, <2>5, ExceptSeq
  <2>7. DOMAIN handler' = 1 .. Len(handler) /\ Received = 1 .. Len(handler)
    BY <2>1, <2>6 DEF Received
  <2> QED
    BY <2>1, <2>4, <2>6, <2>7
<1>5. EngineInv'
  BY <1>1, <1>2, <1>3, <1>4, StepTurns, Holder DEF EngineTypes
<1>6. /\ pc'[c].at = "fetched" /\ pc'[c].request = pc[c].request
      /\ \A d \in Conns : d # c => pc'[d] = pc[d]
  BY <1>1, <1>2, <1>3, StepOfPc
<1>7. Waits(c) /\ ~Reads(c)'
  BY <1>1, <1>2, <1>6 DEF Waits, Reads, At
<1>8. DeliveryInv'
  BY <1>1, <1>2, <1>4, <1>5, <1>6, <1>7, QuietDelivers
<1> QED
  BY <1>4, <1>8 DEF Received

(* execute_worker calls the handler again.                                 *)
LEMMA SecondRoundDelivers ==
  ASSUME DeliveryInv, NEW c \in Conns, SecondRound(c)
  PROVE  DeliveryInv'
<1> USE DEF DeliveryInv
<1>1. /\ pc[c].at = "draining" /\ Goto(c, "calling") /\ server = "engine" /\ round = 1 /\ round' = 2
      /\ UNCHANGED <<server, pool, mutex, context, handler, calls, answer>>
  BY DEF SecondRound, Drained, At
<1>2. /\ {"draining", "calling"} \subseteq Locked \cap Busy \cap Steps
      /\ "calling" # "draining"
  BY DEF Locked, Busy, Early, Steps
<1>3. EngineTypes
  BY DEF EngineInv
<1>4. EngineInv'
  BY <1>1, <1>2, <1>3, StepTurns, Holder DEF EngineTypes
<1>5. /\ pc'[c].at = "calling" /\ pc'[c].request = pc[c].request
      /\ \A d \in Conns : d # c => pc'[d] = pc[d]
  BY <1>1, <1>2, <1>3, StepOfPc
<1>6. Waits(c) /\ ~Reads(c)'
  BY <1>1, <1>2, <1>5 DEF Waits, Reads, At, First
<1> QED
  BY <1>1, <1>2, <1>4, <1>5, <1>6, QuietDelivers

(* The step of a connection that is not past the lock and does not take it *)
(* leaves the context in use alone: a request is dropped, a reply sent, a  *)
(* connection opened again.                                                *)
LEMMA OutsideDelivers ==
  ASSUME DeliveryInv, EngineInv', NEW c \in Conns, pc[c].at \notin Locked,
         pc'[c].at \in {"reading", "closed"},
         \A d \in Conns : d # c => pc'[d] = pc[d],
         UNCHANGED <<server, pool, context, round, handler>>,
         \A q, m : Given(q, m)' => Given(q, m)
  PROVE  DeliveryInv'
<1> USE DEF DeliveryInv
<1>1. ~Waits(c)' /\ ~Reads(c)' /\ pc'[c].at \notin Locked
  BY DEF Waits, Reads, At, Early, Locked
<1>2. Received' = Received
  BY DEF Received
<1>3. /\ \A m : Unsent(m)' => Unsent(m)
      /\ \A m : Live(m)' => Live(m)
  BY <1>1, OthersSame
<1>4. InUse' => InUse
  BY <1>1 DEF InUse
<1>5. CarriedApart' /\ \A m : Carried(m)' => Carried(m)
  BY <1>4, StoresStay
<1>6. \A m : ~Given(0, m)
  BY DEF Given, Received, EngineInv, EngineTypes
<1>7. OnceEach'
  BY <1>2, <1>3, <1>5, <1>6, MovesOn
<1> QED
  BY <1>5, <1>7

(* lock().unwrap() panics: the request is dropped.                         *)
LEMMA LockPoisonedDelivers ==
  ASSUME DeliveryInv, NEW c \in Conns, LockPoisoned(c)
  PROVE  DeliveryInv'
<1> USE DEF DeliveryInv
<1>1. /\ pc[c].at = "locking" /\ Drop(c)
      /\ UNCHANGED <<server, pool, mutex, context, round, handler, calls>>
  BY DEF LockPoisoned, At
<1>2. "locking" \in Busy /\ "locking" \notin Locked
  BY DEF Busy, Early, Locked
<1>3. /\ EngineInv' /\ pc'[c].at = "closed"
      /\ \A d \in Conns : d # c => pc'[d] = pc[d]
      /\ answer'[pc[c].request] = Is("dropped")
      /\ \A q \in Received : q # pc[c].request => answer'[q] = answer[q]
  BY <1>1, <1>2, DropTurns
<1>4. pc[c].request \in Received /\ Received' = Received
  BY <1>1, <1>2, OnRequest DEF Received
<1>5. \A q, m : Given(q, m)' => Given(q, m)
  BY <1>3, <1>4, GivenNoMore DEF IsResponse, Is
<1> QED
  BY <1>1, <1>2, <1>3, <1>5, OutsideDelivers

(* The reply is sent, or encoding it panics.                               *)
LEMMA ReplyDelivers ==
  ASSUME DeliveryInv, NEW c \in Conns, Reply(c)
  PROVE  DeliveryInv'
<1> USE DEF DeliveryInv
<1>1. /\ pc[c].at = "replying"
      /\ UNCHANGED <<server, pool, mutex, context, round, handler, calls>>
  BY DEF Reply, At
<1>2. "replying" \notin Busy /\ "replying" \notin Locked
  BY DEF Busy, Early, Locked
<1>3. pc[c].request \in Received /\ Received' = Received
  BY <1>1, <1>2, OnRequest DEF Received
<1>4. CASE pc' = [pc EXCEPT ![c] = [at |-> "reading", request |-> 0]] /\ UNCHANGED answer
  <2>1. /\ EngineInv' /\ pc'[c].at = "reading"
        /\ \A d \in Conns : d # c => pc'[d] = pc[d]
    BY <1>1, <1>2, <1>4, EndTurns
  <2>2. \A q, m : Given(q, m)' => Given(q, m)
    BY <1>1, <1>4, GivenStays
  <2> QED
    BY <1>1, <1>2, <2>1, <2>2, OutsideDelivers
<1>5. CASE Drop(c)
  <2>1. /\ EngineInv' /\ pc'[c].at = "closed"
        /\ \A d \in Conns : d # c => pc'[d] = pc[d]
        /\ answer'[pc[c].request] = Is("dropped")
        /\ \A q \in Received : q # pc[c].request => answer'[q] = answer[q]
    BY <1>1, <1>5, DropTurns
  <2>2. \A q, m : Given(q, m)' => Given(q, m)
    BY <1>3, <2>1, GivenNoMore DEF IsResponse, Is
  <2> QED
    BY <1>1, <1>2, <2>1, <2>2, OutsideDelivers
<1> QED
  BY <1>4, <1>5 DEF Reply

(* The client connects again.                                              *)
LEMMA AcceptDelivers ==
  ASSUME DeliveryInv, NEW c \in Conns, Accept(c)
  PROVE  DeliveryInv'
<1> USE DEF DeliveryInv
<1>1. /\ pc[c].at = "closed"
      /\ UNCHANGED <<server, pool, mutex, context, round, handler, calls, answer>>
  BY DEF Accept, At
<1>2. "closed" \notin Busy /\ "closed" \notin Locked
  BY DEF Busy, Early, Locked
<1>3. pc' = [pc EXCEPT ![c] = [at |-> "reading", request |-> 0]]
  <2>1. pc[c] = [at |-> "closed", request |-> 0]
    BY <1>1 DEF EngineInv, EngineTypes, Turns
  <2>2. [pc[c] EXCEPT !.at = "reading"] = [at |-> "reading", request |-> 0]
    BY <2>1
  <2>3. pc' = [pc EXCEPT ![c] = [pc[c] EXCEPT !.at = "reading"]]
    BY DEF Accept, Goto
  <2> QED
    BY <2>2, <2>3
<1>4. /\ EngineInv' /\ pc'[c].at = "reading"
      /\ \A d \in Conns : d # c => pc'[d] = pc[d]
  BY <1>1, <1>2, <1>3, EndTurns
<1>5. \A q, m : Given(q, m)' => Given(q, m)
  BY <1>1, GivenStays
<1> QED
  BY <1>1, <1>2, <1>4, <1>5, OutsideDelivers

(* The blocking client panics: the context in use is lost.                 *)
LEMMA FetchPanicsDelivers ==
  ASSUME DeliveryInv, NEW c \in Conns, FetchPanics(c)
  PROVE  DeliveryInv'
<1> USE DEF DeliveryInv
<1>1. /\ pc[c].at = "fetching" /\ Drop(c)
      /\ UNCHANGED <<server, pool, round, handler, calls>>
  BY DEF FetchPanics, At
<1>2. "fetching" \in Busy /\ "fetching" \in Locked
  BY DEF Busy, Early, Locked
<1>3. \A d \in Conns : d # c => pc[d].at \notin Locked
  BY <1>1, <1>2, Holder
<1>4. /\ EngineInv' /\ pc'[c].at = "closed"
      /\ \A d \in Conns : d # c => pc'[d] = pc[d]
      /\ answer'[pc[c].request] = Is("dropped")
      /\ \A q \in Received : q # pc[c].request => answer'[q] = answer[q]
  BY <1>1, <1>2, <1>3, DropTurns
<1>5. pc[c].request \in Received /\ Received' = Received
  BY <1>1, <1>2, OnRequest DEF Received
<1>6. \A q, m : Given(q, m)' => Given(q, m)
  BY <1>4, <1>5, GivenNoMore DEF IsResponse, Is
<1>7. ~Waits(c)' /\ ~Reads(c)' /\ pc'[c].at \notin Locked
  BY <1>4 DEF Waits, Reads, At, Early, Locked
<1>8. /\ \A m : Unsent(m)' => Unsent(m)
      /\ \A m : Live(m)' => Live(m)
  BY <1>1, <1>3, <1>4, <1>7, OthersSame
<1>9. ~InUse'
  BY <1>3, <1>4, <1>7 DEF InUse
<1>10. CarriedApart' /\ \A m : Carried(m)' => Carried(m)
  BY <1>1, <1>9, StoresStay
<1>11. \A m : ~Given(0, m)
  BY DEF Given, Received, EngineInv, EngineTypes
<1>12. OnceEach'
  BY <1>5, <1>6, <1>8, <1>10, <1>11, MovesOn
<1> QED
  BY <1>4, <1>10, <1>12

(* Who takes the lock takes the top context, or a new one.                 *)
LEMMA LockStores ==
  ASSUME DeliveryInv, NEW c \in Conns, Lock(c), InUse'
  PROVE  /\ pool' \in Seq(Context) /\ context' \in Context
         /\ \A d \in Conns : pc[d].at \notin Locked
         /\ CarriedApart' /\ \A m : Carried(m)' => Carried(m)
<1> USE DEF DeliveryInv
<1>1. \A d \in Conns : pc[d].at \notin Locked
  BY PoolAssumption DEF EngineInv, Turns, Lock
<1>2. PICK n \in Nat : n = Len(pool) /\ DOMAIN pool = 1 .. n
  BY DEF EngineInv, EngineTypes
<1>3. pool \in Seq(Context) /\ Places = 1 .. n /\ \A k \in 1 .. n : k # 0 /\ Store(k) = pool[k]
  BY <1>1, <1>2 DEF EngineInv, EngineTypes, Places, InUse, Store
<1>4. CASE pool = <<>>
  <2>1. pool' = <<>> /\ context' = J!Fresh
    BY <1>4 DEF Lock
  <2>2. Places' = {0} /\ Store(0)' = J!Fresh
    BY <2>1 DEF Places, Store
  <2>3. Apart(Store(0))' /\ Bag(Store(0))' = {}
    BY <2>2, FreshIsEmpty
  <2>4. CarriedApart' /\ \A m : ~Carried(m)'
    BY <2>2, <2>3 DEF CarriedApart, Carried
  <2> QED
    BY <1>1, <2>1, <2>4, FreshIsEmpty
<1>5. CASE pool # <<>>
  <2>1. n >= 1 /\ pool' = SubSeq(pool, 1, n - 1) /\ context' = pool[n]
    BY <1>2, <1>3, <1>5, EmptySeq DEF Lock, Pop
  <2>2. /\ pool' \in Seq(Context) /\ DOMAIN pool' = 1 .. n - 1
        /\ \A k \in 1 .. n - 1 : pool'[k] = pool[k]
    BY <1>2, <1>3, <2>1, SubSeqProperties
  <2>3. Places' = 0 .. n - 1 /\ Store(0)' = pool[n] /\ \A k \in 1 .. n - 1 : Store(k)' = pool[k]
    BY <2>1, <2>2 DEF Places, Store
  <2>4. PICK f : f = [k \in 0 .. n - 1 |-> IF k = 0 THEN n ELSE k]
    OBVIOUS
  <2>5. /\ f \in [Places' -> Places] /\ \A j, k \in Places' : f[j] = f[k] => j = k
        /\ \A k \in Places' : Store(k)' = Store(f[k])
    BY <1>3, <2>1, <2>3, <2>4
  <2>6. \A k \in Places' : Apart(Store(k))' /\ Bag(Store(k))' = Bag(Store(f[k]))
    BY <2>5 DEF CarriedApart
  <2>7. CarriedApart' /\ \A m : Carried(m)' => Carried(m)
    <3>1. PICK N : N = {}
      OBVIOUS
    <3>2. /\ \A k \in Places' : Apart(Store(k))'
          /\ \A k \in Places' :
               Bag(Store(k))' \subseteq Bag(Store(f[k])) \cup (IF k = 0 THEN N ELSE {})
      BY <2>6
    <3>3. CarriedApart' /\ \A m : Carried(m)' => Carried(m) \/ m \in N
      BY <2>5, <3>1, <3>2, StoresMove
    <3> QED
      BY <3>1, <3>3
  <2>8. pool[n] \in Context
    BY <1>2, <1>3, <2>1
  <2> QED
    BY <1>1, <2>1, <2>2, <2>7, <2>8
<1> QED
  BY <1>4, <1>5

(* The lock is taken.                                                      *)
LEMMA LockDelivers ==
  ASSUME DeliveryInv, NEW c \in Conns, Lock(c)
  PROVE  DeliveryInv'
<1> USE DEF DeliveryInv
<1>1. /\ pc[c].at = "locking" /\ Goto(c, "calling") /\ mutex' = c /\ round' = 1
      /\ UNCHANGED <<server, handler, calls, answer>>
  BY DEF Lock, At
<1>2. /\ {"locking", "calling"} \subseteq Early \cap Busy \cap Steps /\ "calling" \in Locked
      /\ "calling" # "draining"
  BY DEF Busy, Early, Locked, Steps
<1>3. EngineTypes
  BY DEF EngineInv
<1>4. /\ pc'[c].at = "calling" /\ pc'[c].request = pc[c].request
      /\ \A d \in Conns : d # c => pc'[d] = pc[d]
  BY <1>1, <1>2, <1>3, StepOfPc
<1>5. InUse'
  BY <1>2, <1>4 DEF InUse
<1>6. /\ pool' \in Seq(Context) /\ context' \in Context
      /\ \A d \in Conns : pc[d].at \notin Locked
      /\ CarriedApart' /\ \A m : Carried(m)' => Carried(m)
  BY <1>5, LockStores
<1>7. EngineInv'
  BY <1>1, <1>2, <1>3, <1>6, StepTurns DEF EngineTypes
<1>8. Waits(c) /\ ~Reads(c)'
  BY <1>1, <1>2, <1>4 DEF Waits, Reads, At
<1>9. /\ \A m : Unsent(m)' => Unsent(m) \/ m = pc[c].request
      /\ \A m : ~Live(m)'
  BY <1>1, <1>4, <1>6, <1>8, OthersSame
<1>10. \A m : Unsent(m)' => Unsent(m)
  BY <1>8, <1>9 DEF Unsent
<1>11. Received' = Received /\ \A q, m : Given(q, m)' => Given(q, m)
  BY <1>1, GivenStays
<1>12. \A m : ~Given(pc[c].request, m)
  BY <1>1, <1>2, NothingGiven
<1>13. OnceEach'
  BY <1>6, <1>9, <1>10, <1>11, <1>12, MovesOn
<1> QED
  BY <1>6, <1>7, <1>13

(* The handler is called: its request is given to at most one promise.     *)
LEMMA InvokeContext ==
  ASSUME DeliveryInv, NEW c \in Conns, Invoke(c), NEW r, r = pc[c].request
  PROVE  /\ context' \in Context /\ Apart(context')
         /\ Bag(context') \subseteq Bag(context) \cup {r}
         /\ First \/ ~J!IsPromise(Current(c)) => Bag(context') \subseteq Bag(context)
         /\ ~First /\ Current(c).returns \notin {"response", "exception"} =>
              context'.resolved = None
<1> USE DEF DeliveryInv
<1>1. pc[c].at \in Early /\ pc[c].at \in Locked /\ pc[c].at \in Busy
  BY DEF Invoke, Ready, At, Early, Locked, Busy
<1>2. context \in Context /\ Store(0) = context /\ 0 \in Places
  BY <1>1, Holder
<1>3. r \in Nat /\ Current(c) \in Running
  BY <1>1, OnRequest
<1>4. Unsent(r) /\ ~Carried(r)
  BY <1>1 DEF OnceEach, Unsent, Waits
<1>5. Apart(context) /\ r \notin Bag(context)
  BY <1>2, <1>4 DEF CarriedApart, Carried
<1>6. round \in {1, 2}
  BY DEF EngineInv, EngineTypes
<1>7. CASE server # "engine"
  <2>1. context' = J!Dispatch(context, r, Current(c))
    BY <1>7 DEF Invoke
  <2>2. Moved(context, r, Current(c), context')
    BY <1>2, <1>3, <1>5, <2>1, DispatchMoves
  <2> QED
    BY <1>7, <2>2 DEF Moved, First
<1>8. CASE server = "engine" /\ round = 1
  <2>1. context' = J!Called(context, Current(c))
    BY <1>8 DEF Invoke
  <2> QED
    BY <1>2, <1>3, <1>5, <1>8, <2>1, CalledMoves DEF First
<1>9. CASE server = "engine" /\ round = 2
  <2>1. context' = J!ResetAndDispatch(context, r, Current(c))
    BY <1>9 DEF Invoke
  <2>2. Moved(context, r, Current(c), context')
    BY <1>2, <1>3, <1>5, <2>1, ResetMoves
  <2> QED
    BY <1>9, <2>2 DEF Moved, First
<1> QED
  BY <1>6, <1>7, <1>8, <1>9

(* The handler returns, with a response, a promise or an exception.        *)
LEMMA InvokeDelivers ==
  ASSUME DeliveryInv, NEW c \in Conns, Invoke(c)
  PROVE  DeliveryInv'
<1> USE DEF DeliveryInv
<1>1. PICK r, step : r = pc[c].request
                     /\ step = IF Current(c).returns = "exception" THEN "failed" ELSE "draining"
  OBVIOUS
<1>2. /\ pc[c].at \in Early /\ pc[c].at \in Locked /\ pc[c].at \in Busy /\ Goto(c, step)
      /\ calls' = [calls EXCEPT ![r] = @ + 1]
      /\ UNCHANGED <<server, pool, mutex, round, handler, answer>>
  BY <1>1 DEF Invoke, Ready, At, Early, Locked, Busy
<1>3. step \in Busy /\ step \in Locked /\ step \in Steps /\ step \notin Early
  BY <1>1 DEF Busy, Early, Locked, Steps
<1>4. EngineTypes
  BY DEF EngineInv
<1>5. /\ pc'[c].at = step /\ pc'[c].request = r
      /\ \A d \in Conns : d # c => pc'[d] = pc[d]
  BY <1>1, <1>2, <1>3, <1>4, StepOfPc
<1>6. /\ context' \in Context /\ Apart(context')
      /\ Bag(context') \subseteq Bag(context) \cup {r}
      /\ First \/ ~J!IsPromise(Current(c)) => Bag(context') \subseteq Bag(context)
      /\ ~First /\ Current(c).returns \notin {"response", "exception"} =>
           context'.resolved = None
  BY <1>1, InvokeContext
<1>7. /\ r \in Received /\ r # 0 /\ Current(c) \in Running /\ r \in 1 .. Len(calls)
      /\ calls[r] \in Nat
  BY <1>1, <1>2, <1>4, OnRequest DEF EngineTypes, Received
<1>8. calls' \in Seq(Nat) /\ Len(calls') = Len(calls)
  <2>1. calls \in Seq(Nat) /\ calls[r] + 1 \in Nat
    BY <1>4, <1>7 DEF EngineTypes
  <2>2. calls' = [calls EXCEPT ![r] = calls[r] + 1]
    BY <1>2
  <2> QED
    BY <1>7, <2>1, <2>2, ExceptSeq
<1>9. mutex = c /\ \A d \in Conns : d # c => pc[d].at \notin Locked
  BY <1>2, Holder
<1>10. EngineInv'
  BY <1>1, <1>2, <1>3, <1>4, <1>6, <1>8, <1>9, StepTurns DEF EngineTypes, Invoke
<1>11. Unsent(r) /\ ~Carried(r)
  BY <1>1, <1>2 DEF OnceEach, Unsent, Waits
<1>12. /\ First' = First /\ Direct(c)' = Direct(c) /\ Current(c)' = Current(c)
  BY <1>1, <1>2, <1>5 DEF First, Direct, Current
<1>13. PICK N : N = IF First \/ ~J!IsPromise(Current(c)) THEN {} ELSE {r}
  OBVIOUS
<1>14. CarriedApart' /\ \A m : Carried(m)' => Carried(m) \/ m \in N
  <2>1. \A m \in N : ~Carried(m)
    BY <1>11, <1>13
  <2>2. Apart(context)' /\ Bag(context)' \subseteq Bag(context) \cup N
    BY <1>6, <1>13
  <2> QED
    BY <1>2, <1>3, <1>5, <1>10, <2>1, <2>2, ContextChanges
<1>15. /\ \A m : Unsent(m)' => Unsent(m) \/ (Waits(c)' /\ m = pc'[c].request)
       /\ \A m : Live(m)' => Live(m) \/ (Reads(c)' /\ context'.resolved # None
                                           /\ context'.resolved.request = m)
       /\ ~Waits(c)' => ~Unsent(r)'
  BY <1>1, <1>2, <1>5, <1>7, <1>9, OthersSame
<1>16. \A m : Unsent(m)' => Unsent(m)
  BY <1>5, <1>11, <1>15
<1>17. \A m \in N : ~Unsent(m)'
  <2>1. ASSUME N # {} PROVE ~Waits(c)'
    <3>1. ~First /\ J!IsPromise(Current(c)) /\ pc'[c].at \notin Early
      BY <1>3, <1>5, <1>13, <2>1
    <3>2. ~Direct(c)
      BY <3>1 DEF Direct, J!IsPromise
    <3> QED
      BY <1>12, <3>1, <3>2 DEF Waits
  <2> QED
    BY <1>13, <1>15, <2>1
<1>18. \A m : Live(m)' => Live(m)
  <2>1. ASSUME Reads(c)' PROVE context'.resolved = None
    <3>1. ~First /\ ~Direct(c) /\ step = "draining"
      BY <1>5, <1>12, <2>1 DEF Reads, At
    <3>2. Current(c).returns \notin {"response", "exception"}
      BY <1>1, <1>7, <3>1 DEF Direct, Running
    <3> QED
      BY <1>6, <3>1, <3>2
  <2> QED
    BY <1>15, <2>1
<1>19. Received' = Received /\ \A q, m : Given(q, m)' => Given(q, m)
  BY <1>2, GivenStays
<1>20. \A m : ~Given(r, m)
  BY <1>1, <1>2, NothingGiven
<1>21. \A m : Carried(m)' => Carried(m) \/ (Unsent(m) /\ m \in Received /\ ~Unsent(m)')
  BY <1>7, <1>11, <1>13, <1>14, <1>17
<1>22. OnceEach'
  BY <1>16, <1>18, <1>19, <1>20, <1>21, MovesOn
<1> QED
  BY <1>10, <1>14, <1>22

(* It never does: nothing changes but who waits.                           *)
LEMMA NeverReturnsDelivers ==
  ASSUME DeliveryInv, NEW c \in Conns, NeverReturns(c)
  PROVE  DeliveryInv'
<1> USE DEF DeliveryInv
<1>1. PICK r : r = pc[c].request
  OBVIOUS
<1>2. /\ pc[c].at \in Early /\ pc[c].at \in Locked /\ pc[c].at \in Busy /\ Goto(c, "looping")
      /\ calls' = [calls EXCEPT ![r] = @ + 1]
      /\ UNCHANGED <<server, pool, mutex, context, round, handler, answer>>
  BY <1>1 DEF NeverReturns, Ready, At, Early, Locked, Busy
<1>3. "looping" \in Busy \cap Locked \cap Steps /\ "looping" \notin Early /\ "looping" # "draining"
  BY DEF Busy, Early, Locked, Steps
<1>4. EngineTypes
  BY DEF EngineInv
<1>5. /\ r \in 1 .. Len(calls) /\ calls[r] \in Nat
  BY <1>1, <1>2, <1>4, OnRequest DEF EngineTypes, Received
<1>6. calls' \in Seq(Nat) /\ Len(calls') = Len(calls)
  <2>1. calls \in Seq(Nat) /\ calls[r] + 1 \in Nat
    BY <1>4, <1>5 DEF EngineTypes
  <2>2. calls' = [calls EXCEPT ![r] = calls[r] + 1]
    BY <1>2
  <2> QED
    BY <1>5, <2>1, <2>2, ExceptSeq
<1>7. EngineInv'
  BY <1>2, <1>3, <1>4, <1>6, StepTurns, Holder DEF EngineTypes
<1>8. /\ pc'[c].at = "looping" /\ pc'[c].request = pc[c].request
      /\ \A d \in Conns : d # c => pc'[d] = pc[d]
  BY <1>2, <1>3, <1>4, StepOfPc
<1>9. Waits(c) /\ ~Reads(c)'
  BY <1>2, <1>3, <1>8 DEF Waits, Reads, At
<1> QED
  BY <1>2, <1>3, <1>7, <1>8, <1>9, QuietDelivers

(* A job may put the response it carries into the global.                  *)
LEMMA RunJobDelivers ==
  ASSUME DeliveryInv, NEW c \in Conns, RunJob(c)
  PROVE  DeliveryInv'
<1> USE DEF DeliveryInv
<1>1. /\ pc[c].at = "draining" /\ context.jobs # <<>> /\ context' = J!RunJob(context)
      /\ UNCHANGED <<server, pool, mutex, round, pc, handler, calls, answer>>
  BY DEF RunJob, At
<1>2. "draining" \in Locked /\ "draining" \in Busy
  BY DEF Busy, Locked
<1>3. /\ context \in Context /\ Store(0) = context /\ 0 \in Places
      /\ \A d \in Conns : d # c => pc[d].at \notin Locked
      /\ mutex = c
  BY <1>1, <1>2, Holder
<1>4. Settled(context, context')
  BY <1>1, <1>3, JobSettles DEF CarriedApart
<1>5. Goto(c, "draining")
  BY <1>1 DEF Goto, EngineInv, EngineTypes
<1>6. Current(c).returns \notin {"exception", "loops"}
  BY <1>1 DEF EngineInv, Turns
<1>7. EngineInv'
  BY <1>1, <1>2, <1>3, <1>4, <1>5, <1>6, StepTurns DEF Settled, EngineInv, EngineTypes
<1>8. CarriedApart' /\ \A m : Carried(m)' => Carried(m)
  <2>1. PICK N : N = {}
    OBVIOUS
  <2>2. Apart(context)' /\ Bag(context)' \subseteq Bag(context) \cup N
    BY <1>4 DEF Settled
  <2>3. CarriedApart' /\ \A m : Carried(m)' => Carried(m) \/ m \in N
    <3>1. pc'[c].at \in Locked /\ pool' = pool /\ \A m \in N : ~Carried(m)
      BY <1>1, <1>2, <2>1
    <3> QED
      BY <1>1, <1>2, <1>7, <2>2, <3>1, ContextChanges
  <2> QED
    BY <2>1, <2>3
<1>9. ASSUME NEW m, m \in Bag(context), m \notin Bag(context') PROVE Carried(m) /\ ~Carried(m)'
  <2>1. Places' = Places /\ Store(0)' = context' /\ \A k \in Places : k # 0 => Store(k)' = Store(k)
    BY <1>1 DEF Places, InUse, Store
  <2>2. \A k \in Places : k # 0 => m \notin Bag(Store(k))
    BY <1>3, <1>9 DEF CarriedApart
  <2> QED
    BY <1>3, <1>9, <2>1, <2>2 DEF Carried
<1>10. /\ \A m : Unsent(m)' => Unsent(m)
       /\ \A m : Live(m)' => Live(m) \/ (Reads(c) /\ context'.resolved # None
                                           /\ context'.resolved.request = m)
  <2>1. \A d \in Conns : Waits(d)' = Waits(d) /\ Reads(d)' = Reads(d)
    BY <1>1 DEF Waits, Reads, First, Direct, Current, At
  <2>2. \A d \in Conns : Reads(d) => d = c
    BY <1>2, <1>3 DEF Reads, At
  <2> QED
    BY <1>1, <2>1, <2>2 DEF Unsent, Live
<1>11. \A m : Live(m)' => Live(m) \/ (Carried(m) /\ ~Carried(m)')
  <2> SUFFICES ASSUME NEW m, Reads(c), context'.resolved # None, context'.resolved.request = m
               PROVE  Live(m) \/ (m \in Bag(context) /\ m \notin Bag(context'))
    BY <1>9, <1>10
  <2> QED
    BY <1>4 DEF Settled, Live
<1>12. Received' = Received /\ \A q, m : Given(q, m)' => Given(q, m)
  BY <1>1, GivenStays
<1>13. \A m : ~Given(pc[c].request, m)
  BY <1>1, <1>2, NothingGiven
<1>14. OnceEach'
  BY <1>8, <1>10, <1>11, <1>12, <1>13, MovesOn
<1> QED
  BY <1>7, <1>8, <1>14

(* The context is given back or dropped.                                   *)
LEMMA ReleaseStores ==
  ASSUME DeliveryInv, EngineInv', NEW c \in Conns, pc[c].at \in Locked, pc'[c].at = "replying",
         \A d \in Conns : d # c => pc'[d] = pc[d],
         pool' = pool \/ pool' = Append(pool, context)
  PROVE  CarriedApart' /\ \A m : Carried(m)' => Carried(m)
<1> USE DEF DeliveryInv
<1>1. /\ context \in Context /\ Places = DOMAIN pool \cup {0} /\ Store(0) = context
      /\ \A k \in DOMAIN pool : k # 0 /\ Store(k) = pool[k]
      /\ \A d \in Conns : d # c => pc[d].at \notin Locked
  BY Holder
<1>2. ~InUse'
  BY <1>1 DEF InUse, Locked
<1>3. CASE pool' = pool
  BY <1>2, <1>3, StoresStay
<1>4. CASE pool' = Append(pool, context)
  <2>1. PICK n \in Nat : n = Len(pool) /\ DOMAIN pool = 1 .. n
    BY DEF EngineInv, EngineTypes
  <2>2. pool \in Seq(Context)
    BY DEF EngineInv, EngineTypes
  <2>3. /\ DOMAIN pool' = 1 .. n + 1 /\ pool'[n + 1] = context
        /\ \A k \in 1 .. n : pool'[k] = pool[k]
    <3>1. /\ Append(pool, context) \in Seq(Context) /\ Len(Append(pool, context)) = n + 1
          /\ Append(pool, context)[n + 1] = context
          /\ \A k \in 1 .. n : Append(pool, context)[k] = pool[k]
      BY <1>1, <2>1, <2>2, AppendProperties
    <3> QED
      BY <1>4, <3>1
  <2>4. Places' = 1 .. n + 1 /\ Places = 0 .. n
    BY <1>1, <1>2, <2>1, <2>3 DEF Places
  <2>5. Store(n + 1)' = context /\ \A k \in 1 .. n : Store(k)' = pool[k]
    BY <2>3 DEF Store
  <2>6. PICK f : f = [k \in 1 .. n + 1 |-> IF k = n + 1 THEN 0 ELSE k]
    OBVIOUS
  <2>7. /\ f \in [Places' -> Places] /\ \A j, k \in Places' : f[j] = f[k] => j = k
        /\ \A k \in Places' : Store(k)' = Store(f[k])
    BY <1>1, <2>1, <2>4, <2>5, <2>6
  <2>8. PICK N : N = {}
    OBVIOUS
  <2>9. /\ \A k \in Places' : Apart(Store(k))'
        /\ \A k \in Places' :
             Bag(Store(k))' \subseteq Bag(Store(f[k])) \cup (IF k = 0 THEN N ELSE {})
    BY <2>7 DEF CarriedApart
  <2>10. CarriedApart' /\ \A m : Carried(m)' => Carried(m) \/ m \in N
    <3>1. CarriedApart /\ \A m \in N : ~Carried(m)
      BY <2>8
    <3> QED
      BY <2>7, <2>9, <3>1, StoresMove
  <2> QED
    BY <2>8, <2>10
<1> QED
  BY <1>3, <1>4

(* The answer to a request: what its handler returned, or what is in the   *)
(* global.                                                                 *)
LEMMA ResultOf ==
  ASSUME DeliveryInv, NEW c \in Conns, Drained(c),
         ~(server = "engine" /\ round = 1 /\ IsObject(Current(c))),
         NEW r, r = pc[c].request, NEW result, result = Result(r, Current(c))
  PROVE  /\ result \in Answers
         /\ IsResponse(result) =>
              \/ Direct(c) /\ result.request = r
              \/ Reads(c) /\ context.resolved # None /\ result.request = context.resolved.request
<1> USE DEF DeliveryInv
<1>1. /\ pc[c].at = "draining" /\ pc[c].at \in Locked /\ pc[c].at \in Busy
  BY DEF Drained, At, Locked, Busy
<1>2. /\ r \in Nat /\ Current(c) \in Running /\ context \in Context
      /\ Current(c).returns \notin {"exception", "loops"}
  BY <1>1, OnRequest, Holder DEF EngineInv, Turns
<1>3. ASSUME NEW v \in Responses
      PROVE  /\ Answer(J!Extract(v)) \in Answers /\ IsResponse(Answer(J!Extract(v)))
             /\ Answer(J!Extract(v)).request = v.request
  <2>1. v.request \in Nat /\ v.status % 65536 \in Nat
    BY <1>3 DEF Responses
  <2>2. /\ J!Extract(v).request = v.request /\ J!Extract(v).status = v.status % 65536
    BY <1>3 DEF J!Extract, J!ExtractedStatus, Responses
  <2> QED
    BY <2>1, <2>2 DEF Answer, Answers, IsResponse
<1>4. Is("error") \in Answers /\ ~IsResponse(Is("error"))
  BY DEF Is, Answers, IsResponse
<1>5. CASE Current(c).returns = "response"
  <2>1. J!ResponseOf(r, Current(c)) \in Responses /\ J!ResponseOf(r, Current(c)).request = r
    BY <1>2 DEF J!ResponseOf, J!PolyfillStatus, Responses, Running
  <2> QED
    BY <1>3, <1>5, <2>1 DEF Result, Direct
<1>6. CASE Current(c).returns = "string"
  <2>1. PICK v : v = [request |-> r, status |-> 200]
    OBVIOUS
  <2>2. /\ Answer(v) \in Answers /\ Answer(v).request = r
    BY <1>2, <2>1 DEF Answer, Answers
  <2>3. result = Answer(v) \/ result = Is("error")
    BY <1>6, <2>1 DEF Result
  <2> QED
    BY <1>4, <1>6, <2>2, <2>3 DEF Direct
<1>7. CASE Current(c).returns \notin {"response", "string"}
  <2>1. ~Direct(c)
    BY <1>7 DEF Direct
  <2>2. CASE First
    <3>1. Current(c).returns = "nothing"
      BY <1>2, <1>7, <2>2 DEF First, IsObject, J!IsPromise, Running
    <3> QED
      BY <1>4, <2>2, <3>1 DEF Result, First
  <2>3. CASE ~First
    <3>1. Reads(c)
      BY <1>1, <2>1, <2>3 DEF Reads, At
    <3>2. result = Is("error") \/ (context.resolved # None /\ result = Answer(J!Extract(context.resolved)))
      BY <1>7 DEF Result
    <3>3. context.resolved # None => context.resolved \in Responses
      BY <1>2 DEF Context
    <3> QED
      BY <1>3, <1>4, <3>1, <3>2, <3>3
  <2> QED
    BY <2>2, <2>3
<1> QED
  BY <1>5, <1>6, <1>7

(* A request is answered with an error, with its own response, or with the *)
(* one in the global.                                                      *)
LEMMA ReleaseDelivers ==
  ASSUME DeliveryInv, NEW c \in Conns, pc[c].at \in Locked, NEW result \in Answers,
         Release(c, result),
         IsResponse(result) =>
           \/ Waits(c) /\ result.request = pc[c].request
           \/ Reads(c) /\ context.resolved # None /\ result.request = context.resolved.request
  PROVE  DeliveryInv'
<1> USE DEF DeliveryInv
<1>1. PICK r : r = pc[c].request
  OBVIOUS
<1>2. /\ EngineInv' /\ pc'[c].at = "replying" /\ pc'[c].request = r
      /\ \A d \in Conns : d # c => pc'[d] = pc[d]
      /\ answer'[r] = result
      /\ \A q \in Received : q # r => answer'[q] = answer[q]
      /\ pool' = pool \/ pool' = Append(pool, context)
      /\ UNCHANGED <<server, round, handler, calls>>
  BY <1>1, ReleaseTurns
<1>3. r \in Received /\ r # 0 /\ Received' = Received
  BY <1>1, <1>2, OnRequest DEF Received, Busy
<1>4. \A d \in Conns : d # c => pc[d].at \notin Locked
  BY Holder
<1>5. ~Waits(c)' /\ ~Reads(c)'
  BY <1>2 DEF Waits, Reads, At, Early
<1>6. /\ \A m : Unsent(m)' => Unsent(m)
      /\ \A m : ~Live(m)' /\ ~Unsent(r)'
  BY <1>1, <1>2, <1>3, <1>4, <1>5, OthersSame
<1>7. CarriedApart' /\ \A m : Carried(m)' => Carried(m)
  BY <1>2, ReleaseStores
<1>8. \A m : ~Given(r, m)
  BY <1>1, NothingGiven DEF Busy
<1>9. ASSUME NEW q, NEW m, Given(q, m)'
      PROVE  \/ Given(q, m)
             \/ q = r /\ Live(m) /\ ~Live(m)'
             \/ q = r /\ Unsent(m) /\ m \in Received /\ ~Unsent(m)' /\ ~Carried(m)'
  <2>1. CASE q # r
    BY <1>2, <1>3, <1>9, <2>1 DEF Given, IsResponse
  <2>2. CASE q = r
    <3>1. IsResponse(result) /\ result.request = m
      BY <1>2, <1>9, <2>2 DEF Given, IsResponse
    <3>2. CASE Waits(c) /\ m = r
      <4>1. Unsent(m)
        BY <1>1, <3>2 DEF Unsent
      <4>2. ~Carried(m)
        BY <4>1 DEF OnceEach
      <4> QED
        BY <1>3, <1>6, <1>7, <2>2, <3>2, <4>1, <4>2
    <3>3. CASE Reads(c) /\ context.resolved # None /\ m = context.resolved.request
      BY <1>6, <2>2, <3>3 DEF Live
    <3> QED
      BY <1>1, <3>1, <3>2, <3>3
  <2> QED
    BY <2>1, <2>2
<1>10. OnceEach'
  BY <1>3, <1>6, <1>7, <1>8, <1>9, MovesOn
<1> QED
  BY <1>2, <1>7, <1>10

(* The jobs are done and the result is read.                               *)
LEMMA FinishDelivers ==
  ASSUME DeliveryInv, NEW c \in Conns, Finish(c)
  PROVE  DeliveryInv'
<1>1. PICK r, result : r = pc[c].request /\ result = Result(r, Current(c))
  OBVIOUS
<1>2. /\ Drained(c) /\ Release(c, result)
      /\ ~(server = "engine" /\ round = 1 /\ IsObject(Current(c)))
  BY <1>1 DEF Finish
<1>3. pc[c].at = "draining" /\ pc[c].at \in Locked
  BY <1>2 DEF Drained, At, Locked
<1>4. /\ result \in Answers
      /\ IsResponse(result) =>
           \/ Direct(c) /\ result.request = r
           \/ Reads(c) /\ context.resolved # None /\ result.request = context.resolved.request
  BY <1>1, <1>2, ResultOf
<1>5. Direct(c) => Waits(c)
  BY <1>3 DEF Waits, At
<1> QED
  BY <1>1, <1>2, <1>3, <1>4, <1>5, ReleaseDelivers

(* An exception is answered by an error.                                   *)
LEMMA FailDelivers ==
  ASSUME DeliveryInv, NEW c \in Conns, Fail(c)
  PROVE  DeliveryInv'
<1>1. pc[c].at \in Locked /\ Release(c, Is("error"))
  BY DEF Fail, At, Locked
<1>2. Is("error") \in Answers /\ ~IsResponse(Is("error"))
  BY DEF Is, Answers, IsResponse
<1> QED
  BY <1>1, <1>2, ReleaseDelivers

(* No request was received, and all contexts are new.                      *)
LEMMA InitDelivers == Init => DeliveryInv /\ CallsCounted /\ DirectIsOwn
<1> SUFFICES ASSUME Init PROVE DeliveryInv /\ CallsCounted /\ DirectIsOwn
  OBVIOUS
<1>1. /\ handler = <<>> /\ calls = <<>> /\ answer = <<>> /\ Received = {}
      /\ handler \in Seq(Running) /\ calls \in Seq(Nat) /\ answer \in Seq(Answers)
      /\ Len(handler) = 0 /\ Len(calls) = 0 /\ Len(answer) = 0
  BY DEF Init, Received
<1>2. /\ pc \in [Conns -> [at : Steps, request : Nat]]
      /\ \A c \in Conns : pc[c].at = "reading" /\ pc[c].request = 0
  BY DEF Init, Steps
<1>3. pool \in Seq(Context) /\ \A k \in DOMAIN pool : k # 0 /\ pool[k] = J!Fresh
  <2>1. CASE server = "engine"
    <3>1. <<J!Fresh>> \in Seq(Context)
      BY FreshIsEmpty
    <3> QED
      BY <2>1, <3>1 DEF Init
  <2>2. CASE server # "engine"
    <3>1. PICK p : p = [k \in 1 .. PoolSize |-> J!Fresh]
      OBVIOUS
    <3>2. PICK f \in Context : f = J!Fresh
      BY FreshIsEmpty
    <3>3. p \in [1 .. PoolSize -> Context]
      BY <3>1, <3>2
    <3>4. p \in Seq(Context)
      BY <3>3, PoolAssumption
    <3> QED
      BY <2>2, <3>1, <3>4, PoolAssumption DEF Init
  <2> QED
    BY <2>1, <2>2
<1>4. EngineTypes /\ Turns
  BY <1>1, <1>2, <1>3 DEF EngineTypes, Turns, Init, Steps, Busy, Early, Locked
<1>5. Places = DOMAIN pool /\ \A k \in Places : Store(k) = J!Fresh
  BY <1>2, <1>3 DEF Places, InUse, Store, Locked
<1>6. CarriedApart /\ \A m : ~Carried(m)
  BY <1>5, FreshIsEmpty DEF CarriedApart, Carried
<1>7. \A m : ~Unsent(m) /\ ~Live(m) /\ \A r : ~Given(r, m)
  BY <1>1, <1>2 DEF Unsent, Waits, Live, Reads, At, Given, Early
<1>8. CallsCounted /\ DirectIsOwn
  BY <1>1, <1>2 DEF CallsCounted, CountedAt, DirectIsOwn, At, Locked
<1> QED
  BY <1>4, <1>6, <1>7, <1>8 DEF DeliveryInv, EngineInv, OnceEach

(* The steps together.                                                     *)
LEMMA NextDelivers ==
  ASSUME DeliveryInv, [Next]_vars
  PROVE  DeliveryInv'
<1>1. CASE UNCHANGED vars
  <2> USE <1>1 DEF vars
  <2>1. EngineInv'
    BY DEF DeliveryInv, EngineInv, EngineTypes, Turns, Received, Current
  <2>2. CarriedApart'
    BY DEF DeliveryInv, CarriedApart, Places, Store, InUse
  <2>3. /\ Received' = Received /\ \A m : Carried(m)' = Carried(m)
        /\ \A m : Unsent(m)' = Unsent(m) /\ Live(m)' = Live(m)
        /\ \A r, m : Given(r, m)' = Given(r, m)
    BY DEF Received, Carried, Places, Store, InUse, Unsent, Waits, Live, Reads, Given, IsResponse,
           First, Direct, Current, At
  <2>4. OnceEach'
    BY <2>3 DEF DeliveryInv, OnceEach
  <2> QED
    BY <2>1, <2>2, <2>4 DEF DeliveryInv
<1>2. ASSUME NEW c \in Conns, Serve(c) PROVE DeliveryInv'
  BY <1>2, LockDelivers, LockPoisonedDelivers, FetchOutDelivers, InvokeDelivers,
     NeverReturnsDelivers, RunJobDelivers,
     SecondRoundDelivers, FinishDelivers, FailDelivers, ReplyDelivers, FetchPanicsDelivers,
     FetchReturnsDelivers
     DEF Serve
<1> QED
  BY <1>1, <1>2, ReceiveDelivers, AcceptDelivers DEF Next, RunOn, Done

(* The inductive invariant.                                                *)
THEOREM DeliveryInvariant == Spec => []DeliveryInv
BY InitDelivers, NextDelivers, PTL DEF Spec

(* A response the script made is the answer of at most one request,        *)
(* although contexts with promises of earlier requests are used again.     *)
THEOREM AlwaysDeliveredOnce == Spec => []DeliveredOnce
<1>1. DeliveryInv => DeliveredOnce
  BY DEF DeliveryInv, OnceEach, DeliveredOnce, Given
<1> QED
  BY <1>1, DeliveryInvariant, PTL

-----------------------------------------------------------------------------
(* A response comes with the answer of Finish only.                        *)
LEMMA NextDirect ==
  ASSUME DeliveryInv, DirectIsOwn, [Next]_vars
  PROVE  DirectIsOwn'
<1> USE DEF DeliveryInv
<1>1. ASSUME Received' = Received, \A q \in Received : handler'[q].returns = handler[q].returns,
             \A q \in Received : answer'[q] = answer[q] \/ ~IsResponse(answer'[q])
      PROVE  DirectIsOwn'
  BY <1>1 DEF DirectIsOwn, IsResponse
<1>2. ASSUME UNCHANGED <<handler, answer>> PROVE DirectIsOwn'
  BY <1>2 DEF DirectIsOwn, Received, IsResponse
<1>3. ASSUME NEW c \in Conns, Drop(c), handler' = handler, pc[c].at \in Busy \cup {"replying"}
      PROVE  DirectIsOwn'
  <2>1. pc[c].request \in Received /\ Is("dropped") \in Answers /\ EngineTypes
    BY <1>3, OnRequest DEF Is, Answers, EngineInv
  <2>2. /\ answer'[pc[c].request] = Is("dropped")
        /\ \A q \in Received : q # pc[c].request => answer'[q] = answer[q]
    BY <1>3, <2>1, AnswerNoted DEF Drop
  <2> QED
    BY <1>1, <1>3, <2>2 DEF Received, IsResponse, Is
<1>4. ASSUME NEW c \in Conns, pc[c].at \in Locked, NEW result \in Answers, Release(c, result),
             IsResponse(result) => /\ Current(c).returns # "exception"
                                   /\ Current(c).returns = "response" => result.request = pc[c].request
      PROVE  DirectIsOwn'
  <2>1. /\ answer'[pc[c].request] = result /\ handler' = handler
        /\ \A q \in Received : q # pc[c].request => answer'[q] = answer[q]
    BY <1>4, ReleaseTurns
  <2> QED
    BY <1>4, <2>1 DEF DirectIsOwn, Received, IsResponse, Current
<1>5. ASSUME NEW c \in Conns, NEW h \in Handlers, Receive(c, h) PROVE DirectIsOwn'
  <2>1. /\ Received' = Received \cup {Len(handler) + 1}
        /\ \A q \in Received : handler'[q] = handler[q] /\ answer'[q] = answer[q]
    BY <1>5, ReceiveTurns
  <2>2. PICK n : n = Len(handler) + 1
    OBVIOUS
  <2>3. answer'[n] = Is("pending")
    BY <1>5, <2>2, ReceiveTurns
  <2> QED
    BY <2>1, <2>2, <2>3 DEF DirectIsOwn, IsResponse, Is
<1>6. ASSUME NEW c \in Conns, Finish(c) PROVE DirectIsOwn'
  <2>1. PICK r, result : r = pc[c].request /\ result = Result(r, Current(c))
    OBVIOUS
  <2>2. /\ Drained(c) /\ Release(c, result)
        /\ ~(server = "engine" /\ round = 1 /\ IsObject(Current(c)))
    BY <1>6, <2>1 DEF Finish
  <2>3. pc[c].at = "draining" /\ pc[c].at \in Locked
    BY <2>2 DEF Drained, At, Locked
  <2>4. /\ result \in Answers
        /\ IsResponse(result) => (Direct(c) /\ result.request = r) \/ Reads(c)
    BY <2>1, <2>2, ResultOf
  <2>5. Current(c).returns # "exception" /\ (Reads(c) => Current(c).returns # "response")
    BY <2>3 DEF EngineInv, Turns, Reads, Direct
  <2> QED
    BY <1>4, <2>1, <2>2, <2>3, <2>4, <2>5
<1>7. ASSUME NEW c \in Conns, Fail(c) PROVE DirectIsOwn'
  <2>1. pc[c].at \in Locked /\ Release(c, Is("error"))
    BY <1>7 DEF Fail, At, Locked
  <2>2. Is("error") \in Answers /\ ~IsResponse(Is("error"))
    BY DEF Is, Answers, IsResponse
  <2> QED
    BY <1>4, <2>1, <2>2
<1>8. ASSUME NEW c \in Conns, NEW status \in Upstream, FetchReturns(c, status) PROVE DirectIsOwn'
  BY <1>1, <1>8, FetchReturnsDelivers DEF FetchReturns
<1>9. ASSUME NEW c \in Conns, LockPoisoned(c) \/ FetchPanics(c) \/ Reply(c) PROVE DirectIsOwn'
  BY <1>2, <1>3, <1>9 DEF LockPoisoned, FetchPanics, Reply, At, Busy, Early, Locked
<1>10. ASSUME NEW c \in Conns,
              Lock(c) \/ FetchOut(c) \/ Invoke(c) \/ NeverReturns(c) \/ RunJob(c)
                \/ SecondRound(c) \/ Accept(c)
       PROVE  DirectIsOwn'
  BY <1>2, <1>10 DEF Lock, FetchOut, Invoke, NeverReturns, RunJob, SecondRound, Accept
<1>11. CASE UNCHANGED vars
  BY <1>2, <1>11 DEF vars
<1> QED
  BY <1>5, <1>6, <1>7, <1>8, <1>9, <1>10, <1>11 DEF Next, Serve, RunOn, Done

(* Who returns a response directly is answered with it, and nobody who     *)
(* threw with any.                                                         *)
THEOREM DirectAlwaysOwn == Spec => []DirectIsOwn
BY InitDelivers, NextDelivers, NextDirect, PTL DEF Spec

-----------------------------------------------------------------------------
(* The connections that do not move.                                       *)
LEMMA CallsStep ==
  ASSUME EngineInv, CallsCounted, NEW c \in Conns, \A d \in Conns : d # c => pc'[d] = pc[d],
         server' = server, Received \subseteq Received',
         \A q \in Received : q # pc[c].request => calls'[q] = calls[q],
         round' = round \/ \A d \in Conns : d # c => pc[d].at \notin Locked,
         CountedAt(c)',
         \A q \in Received' : q = pc[c].request \/ q \notin Received =>
           calls'[q] <= AtMost
  PROVE  CallsCounted'
<1>1. ASSUME NEW d \in Conns, d # c PROVE CountedAt(d)'
  <2>1. pc'[d] = pc[d] /\ CountedAt(d)
    BY <1>1 DEF CallsCounted, CountedAt
  <2>2. pc[d].at \in Busy => pc[d].request \in Received /\ pc[d].request # pc[c].request
    BY <1>1, OnRequest
  <2>3. CASE pc[d].at \in Locked
    BY <1>1, <2>1, <2>2, <2>3 DEF CountedAt, At, Busy
  <2>4. CASE pc[d].at \notin Locked
    BY <2>1, <2>2, <2>4 DEF CountedAt, At, Locked, Busy, Early
  <2> QED
    BY <2>3, <2>4
<1>2. \A r \in Received' : calls'[r] <= AtMost'
  BY DEF CallsCounted, AtMost
<1>3. \A d \in Conns : CountedAt(d)'
  BY <1>1
<1> QED
  BY <1>2, <1>3 DEF CallsCounted, CountedAt

(* The steps that do not call the handler.                                 *)
LEMMA NoCall ==
  ASSUME EngineInv, CallsCounted, NEW c \in Conns, \A d \in Conns : d # c => pc'[d] = pc[d],
         UNCHANGED <<server, calls>>, Received' = Received,
         round' = round \/ \A d \in Conns : d # c => pc[d].at \notin Locked,
         CountedAt(c)'
  PROVE  CallsCounted'
<1>1. \A q \in Received' : calls'[q] <= AtMost
  BY DEF CallsCounted
<1> QED
  BY <1>1, CallsStep

(* Only Invoke calls a handler, and a round begins with the lock or again. *)
LEMMA NextCounts ==
  ASSUME DeliveryInv, CallsCounted, [Next]_vars
  PROVE  CallsCounted'
<1> USE DEF DeliveryInv
<1>1. EngineTypes /\ EngineInv /\ \A c \in Conns : CountedAt(c)
  BY DEF EngineInv, CallsCounted, CountedAt
<1>2. ASSUME NEW c \in Conns, NEW step \in {"fetching", "fetched"}, Goto(c, step),
             pc[c].at \in {"calling", "fetching"}, UNCHANGED <<server, round, calls>>,
             Received' = Received
      PROVE  CallsCounted'
  <2>1. /\ pc'[c].at = step /\ pc'[c].request = pc[c].request
        /\ \A d \in Conns : d # c => pc'[d] = pc[d]
    BY <1>1, <1>2, StepOfPc DEF Steps, Busy, Early
  <2>2. CountedAt(c)'
    BY <1>1, <1>2, <2>1 DEF CountedAt, At, Locked
  <2> QED
    BY <1>1, <1>2, <2>1, <2>2, NoCall
<1>3. ASSUME NEW c \in Conns, NEW step \in {"replying", "closed", "reading"}, pc'[c].at = step,
             \A d \in Conns : d # c => pc'[d] = pc[d], UNCHANGED <<server, round, handler, calls>>
      PROVE  CallsCounted'
  <2>1. CountedAt(c)' /\ Received' = Received
    BY <1>3 DEF CountedAt, At, Locked, Received
  <2> QED
    BY <1>1, <1>3, <2>1, NoCall
<1>4. ASSUME NEW c \in Conns, NEW h \in Handlers, Receive(c, h) PROVE CallsCounted'
  <2>1. PICK n : n = Len(handler) + 1
    OBVIOUS
  <2>2. /\ pc[c].request = 0 /\ pc'[c] = [at |-> "locking", request |-> n]
        /\ Received' = Received \cup {n} /\ n \notin Received
        /\ \A d \in Conns : d # c => pc'[d] = pc[d]
        /\ \A q \in Received : calls'[q] = calls[q]
        /\ calls'[n] = 0
    BY <1>1, <1>4, <2>1, ReceiveTurns
  <2>3. 0 \notin Received
    BY <1>1 DEF EngineTypes, Received
  <2>4. CountedAt(c)'
    BY <2>2 DEF CountedAt, At, Locked
  <2>5. \A q \in Received' : q = pc[c].request \/ q \notin Received =>
          calls'[q] <= AtMost
    <3>1. \A q \in Received' : q = pc[c].request \/ q \notin Received => calls'[q] = 0
      <4>1. n # 0
        BY <1>1, <2>1 DEF EngineTypes
      <4> QED
        BY <2>2, <2>3, <4>1
    <3> QED
      BY <3>1 DEF AtMost
  <2>6. UNCHANGED <<server, round>>
    BY <1>4 DEF Receive
  <2> QED
    BY <1>1, <2>2, <2>4, <2>5, <2>6, CallsStep
<1>5. ASSUME NEW c \in Conns, Lock(c) PROVE CallsCounted'
  <2>1. /\ pc[c].at = "locking" /\ Goto(c, "calling") /\ round' = 1
        /\ UNCHANGED <<server, handler, calls>>
    BY <1>5 DEF Lock, At
  <2>2. \A d \in Conns : pc[d].at \notin Locked
    BY <1>1, <1>5, PoolAssumption DEF EngineInv, Turns, Lock
  <2>3. /\ pc'[c].at = "calling" /\ pc'[c].request = pc[c].request
        /\ \A d \in Conns : d # c => pc'[d] = pc[d]
    BY <1>1, <2>1, StepOfPc DEF Steps, Busy, Early
  <2>4. CountedAt(c)' /\ Received' = Received
    BY <1>1, <2>1, <2>3 DEF CountedAt, At, Locked, Received
  <2> QED
    BY <1>1, <2>1, <2>2, <2>3, <2>4, NoCall
<1>6. ASSUME NEW c \in Conns, SecondRound(c) PROVE CallsCounted'
  <2>1. /\ pc[c].at = "draining" /\ Goto(c, "calling") /\ round = 1 /\ round' = 2
        /\ server = "engine" /\ UNCHANGED <<server, handler, calls>>
    BY <1>6 DEF SecondRound, Drained, At
  <2>2. \A d \in Conns : d # c => pc[d].at \notin Locked
    BY <1>1, <2>1, Holder DEF Locked
  <2>3. /\ pc'[c].at = "calling" /\ pc'[c].request = pc[c].request
        /\ \A d \in Conns : d # c => pc'[d] = pc[d]
    BY <1>1, <2>1, StepOfPc DEF Steps, Busy, Early
  <2>4. CountedAt(c)' /\ Received' = Received
    BY <1>1, <2>1, <2>3 DEF CountedAt, At, Locked, Received
  <2> QED
    BY <1>1, <2>1, <2>2, <2>3, <2>4, NoCall
<1>7. ASSUME NEW c \in Conns, Invoke(c) \/ NeverReturns(c) PROVE CallsCounted'
  <2>1. PICK r, step : /\ r = pc[c].request /\ Goto(c, step)
                       /\ step \in {"failed", "draining", "looping"}
    BY <1>7 DEF Invoke, NeverReturns
  <2>2. /\ pc[c].at \in {"calling", "fetched"} /\ calls' = [calls EXCEPT ![r] = @ + 1]
        /\ UNCHANGED <<server, round, handler>>
    BY <1>7, <2>1 DEF Invoke, NeverReturns, Ready, At
  <2>3. /\ pc'[c].at = step /\ pc'[c].request = r
        /\ \A d \in Conns : d # c => pc'[d] = pc[d]
    BY <1>1, <2>1, <2>2, StepOfPc DEF Steps, Busy, Locked
  <2>4. r \in Received /\ r \in 1 .. Len(calls) /\ calls \in Seq(Nat) /\ round \in {1, 2}
    BY <1>1, <2>1, <2>2, OnRequest DEF EngineTypes, Received, Busy, Early
  <2>5. calls[r] = round - 1 /\ (server = "engine" \/ round = 1)
    BY <1>1, <2>1, <2>2 DEF CountedAt, Locked
  <2>6. calls'[r] = round /\ \A q \in Received : q # r => calls'[q] = calls[q]
    <3>1. calls' = [calls EXCEPT ![r] = round]
      BY <2>2, <2>4, <2>5
    <3>2. \A q \in 1 .. Len(calls) : calls'[q] = IF q = r THEN round ELSE calls[q]
      BY <2>4, <3>1, ExceptSeq
    <3>3. Received = 1 .. Len(calls)
      BY <1>1 DEF EngineTypes, Received
    <3> QED
      BY <2>4, <3>2, <3>3
  <2>7. CountedAt(c)' /\ Received' = Received
    BY <2>1, <2>2, <2>3, <2>5, <2>6 DEF CountedAt, At, Received
  <2>8. calls'[r] <= AtMost
    BY <2>4, <2>5, <2>6 DEF AtMost
  <2> QED
    BY <1>1, <2>1, <2>2, <2>3, <2>6, <2>7, <2>8, CallsStep
<1>8. ASSUME NEW c \in Conns, RunJob(c) PROVE CallsCounted'
  BY <1>8 DEF RunJob, CallsCounted, CountedAt, At, AtMost, Received
<1>9. ASSUME NEW c \in Conns, FetchOut(c) PROVE CallsCounted'
  BY <1>2, <1>9 DEF FetchOut, At, Received
<1>10. ASSUME NEW c \in Conns, NEW status \in Upstream, FetchReturns(c, status) PROVE CallsCounted'
  BY <1>2, <1>10, FetchReturnsDelivers DEF FetchReturns, At
<1>11. ASSUME NEW c \in Conns, Finish(c) \/ Fail(c) PROVE CallsCounted'
  <2>1. Goto(c, "replying") /\ UNCHANGED <<server, round, handler, calls>>
    BY <1>11 DEF Finish, Fail, Release
  <2>2. pc'[c].at = "replying" /\ \A d \in Conns : d # c => pc'[d] = pc[d]
    BY <1>1, <2>1, StepOfPc DEF Steps
  <2> QED
    BY <1>3, <2>1, <2>2
<1>12. ASSUME NEW c \in Conns, LockPoisoned(c) \/ FetchPanics(c) \/ Reply(c) PROVE CallsCounted'
  <2>1. PICK step \in {"closed", "reading"} : pc' = [pc EXCEPT ![c] = [at |-> step, request |-> 0]]
    BY <1>12 DEF LockPoisoned, FetchPanics, Reply, Drop
  <2>2. pc'[c].at = step /\ \A d \in Conns : d # c => pc'[d] = pc[d]
    BY <1>1, <2>1, EndOfPc DEF Steps
  <2> QED
    BY <1>3, <1>12, <2>2 DEF LockPoisoned, FetchPanics, Reply
<1>13. ASSUME NEW c \in Conns, Accept(c) PROVE CallsCounted'
  <2>1. pc'[c].at = "reading" /\ \A d \in Conns : d # c => pc'[d] = pc[d]
    BY <1>1, <1>13, StepOfPc DEF Accept, Steps
  <2> QED
    BY <1>3, <1>13, <2>1 DEF Accept
<1>14. CASE UNCHANGED vars
  BY <1>14 DEF vars, CallsCounted, CountedAt, At, AtMost, Received
<1> QED
  BY <1>4, <1>5, <1>6, <1>7, <1>8, <1>9, <1>10, <1>11, <1>12, <1>13, <1>14
  DEF Next, Serve, RunOn, Done

(* The pool calls the handler of a request once, as the single dispatch    *)
(* wrapper of WarmContext is there to do.                                  *)
THEOREM HandlerAlwaysCalledOnce == Spec => []HandlerCalledOnce
<1>1. CallsCounted => HandlerCalledOnce
  BY DEF CallsCounted, HandlerCalledOnce, AtMost
<1> QED
  BY <1>1, InitDelivers, NextDelivers, NextCounts, PTL DEF Spec
=============================================================================
