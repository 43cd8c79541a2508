# Verification of Workex in TLA+

Workex runs JavaScript Workers as *agents*: a Worker is compiled to bytecode,
a virtual machine runs it up to an `await`, and what remains of the agent while
its I/O is under way is a *continuation* of a few hundred bytes, kept in a slab
or written to disk.  Next to it, a QuickJS path serves requests on pools of
reused contexts, and a typed compiler turns arithmetic functions into machine
code.  This directory holds TLA+ models of these parts, TLC configurations that
check them on small instances, and proofs that TLAPS checks.

Contents: [inventory](#inventory), [modules](#modules), [runs](#runs),
[what the models say about the code](#what-the-models-say-about-the-code),
[proofs](#proofs), [what is not modelled](#not-modelled), [plan](#plan).

## Inventory

Paths are relative to `src/crates/`.

### Agents: `workex-vm`

| Component | State | Operations | Interacts with |
|---|---|---|---|
| `ContinuationSlab` (`slab.rs`) | `slots`, `free_list`, `count` | `insert`, `remove`, `get`, `len` | called by the scheduler under its mutex |
| `AgentScheduler` (`scheduler.rs`) | the slab in a mutex, `next_id` (atomic) | `dispatch`, `resume`, `dispatch_full`, `dispatch_many`, `execute_io` | VM (`run`), slab, KV, D1, HTTP; called by any thread |
| `Continuation`, `IoRequest` (`continuation.rs`) | plain data | | made by the VM, kept by slab and store |
| VM (`vm.rs`, `workex-compiler/src/bytecode`) | `VmFrame`: registers, ip, try stack, instruction count, limits | `run`, `from_continuation` | scheduler |
| `HibernationStore` (`hibernation.rs`) | a sled tree keyed by agent id | `hibernate`, `wake`, `all_pending` | continuations taken from the slab and put back |

Hard behaviour.  Threads dispatch and resume at once and release the lock while
the VM runs; handles are slot indices that are used again; results of I/O arrive
in any order and possibly twice; only part of a frame survives a suspension; a
crash may come between any two steps of a hibernation, and a restarted server
starts to number agents from 1 again.

Correct means: a suspended agent is in exactly one place; a result reaches the
await that asked for it; a program cannot tell whether it was suspended; an
acknowledged hibernation is durable; everything that was started ends.

### Requests on QuickJS: `workex-runtime`, `workex-cli`

| Component | State | Operations | Interacts with |
|---|---|---|---|
| `RuntimeRegistry` (`registry.rs`) | hash to runtime, in an RwLock | `get_or_create` | creates `SharedRuntime` |
| `SharedRuntime` (`shared_runtime.rs`) | a runtime, idle contexts in a mutex | `acquire`, `release`, `handle` | `call_fetch` on a context |
| `WorkexEngine`, `WarmContext`, `WorkexEnginePool` (`engine.rs`) | contexts, their globals and pending jobs | `execute_worker`, `handle_request`, `handle` | fetch bridge; called under a mutex by the servers |
| fetch bridge (`fetch_bridge.rs`) | none | blocking HTTP | engine |
| KV, D1 (`kv.rs`, `d1.rs`) | a sled or SQLite database per binding | `get`, `put`, `exec`, `all`, ... | opened per operation by `execute_io` |
| `WebSocketPair` (`websocket.rs`) | two channels of 32 messages | `send`, `recv`, `accept` | two tasks |
| request, response, headers, env, streaming | plain data | | |
| dev server, workerd compatibility (`workex-cli/src/main.rs`, `workerd_compat.rs`) | the pool in a mutex | one handler per connection | engine pool |

Hard behaviour.  Calls race between the critical sections of the registry; a
context is used again while promises of an earlier request may be pending on
it, and the result travels through a global; a blocking fetch runs under the
mutex of the pool; KV databases are exclusive, so operations that overlap fail;
failures of I/O become ordinary string values.

Correct means: a request is answered by its own script and with its own result;
contexts are in one hand at a time; pools stay within their size.

### Memory and isolates: `workex-core`

| Component | State | Operations |
|---|---|---|
| `Arena` (`arena.rs`) | chunks, bump pointer, remaining bytes, next chunk size | `alloc*`, `reset`, growth |
| `IsolatePool` (`isolate.rs`), HTTP server (`workex-cli/src/server.rs`) | idle isolates, counters | `warm`, `spawn`, `recycle`, per concurrent request; total counters |
| `rss.rs` | none | reads the resident set size |

Hard behaviour: alignment at the end of a chunk, the cap of 128 MB against
doubling chunks, resets with chunks to drop; spawn and recycle interleaved.
Correct means: allocations of one request never overlap, the capacity never
exceeds the cap, an isolate serves one request at a time with an empty arena.

### Compiler: `workex-compiler`

| Component | Operations |
|---|---|
| CPS transformer (`cps/transform.rs`) | finds awaits of async handlers, their kind and the live variables |
| bytecode emitter (`emit.rs`) | assigns registers, emits the suspend chain and the masks |
| HIR, lowering, Cranelift code, hybrid (`hir.rs`, `lower.rs`, `codegen.rs`, `hybrid.rs`, `lib.rs`) | compile typed arithmetic functions |

Sequential; what is hard is agreement: masks with the registers that the
emitted code reads later, register numbers at the limits 64 and 255, lowered
code with the meaning of the source.

`workex-bench` measures the others and has no behaviour of its own.

## Modules

```
SlabMap                 abstract: a map from handles to continuations
  ^ implemented by
ContinuationSlab        slab.rs              <- ContinuationSlabProofs (TLAPS)
  ^ instantiated by
AgentScheduler          scheduler.rs         <- AgentSchedulerProofs (TLAPS)
Hibernation             hibernation.rs       <- HibernationProofs (TLAPS)

Arena                   arena.rs             <- WorkexServerProofs (TLAPS)

CpsCompiler             transform.rs, emit.rs      WorkexVM        vm.rs
  ^ composed by                                      ^ composed by, <- WorkexVMProofs (TLAPS)
AgentPipeline           source to result: WorkexVM runs what CpsCompiler emits

KvNamespace  kv.rs      D1Database  d1.rs
  ^ instantiated by       ^ instantiated by
DispatchIo              scheduler.rs         dispatch_many, execute_io
                                             <- AgentSchedulerProofs (TLAPS)

JsContext               what hosts see of a QuickJS context
  ^ instantiated by
EnginePool              engine.rs, fetch_bridge.rs, main.rs, workerd_compat.rs
                                             <- EnginePoolProofs (TLAPS)
SharedRuntime           shared_runtime.rs
  ^ instantiated by
WorkerHost              RuntimeRegistry (registry.rs) composed with SharedRuntime
                                             <- WorkerHostProofs (TLAPS)

IsolateLease            abstract: empty isolates lent to one client at a time
  ^ implemented by the pool under the server's requests
IsolatePool             isolate.rs
  ^ instantiated by
WorkexServer            server.rs            <- WorkexServerProofs (TLAPS)

Headers                 headers.rs           WebSocketPair   websocket.rs
  ^ extended by                                ^ extended by
HttpExchange            request.rs, fetch.rs, the upgrade
                                             <- HttpExchangeProofs (TLAPS)

TypedCompiler           hir.rs, lower.rs, codegen.rs
  ^ extended by
HybridWorker            hybrid.rs, and preparation and injection of engine.rs
```

`MC*` modules only give the constants values and symmetry.  Definitions whose
comment begins with *Mutant* are not part of the models: each is a plausible bug
of one definition, and replacing the definition by it makes a property fail.
They show that the property depends on the code.

**SlabMap / ContinuationSlab.**  The slab is modelled exactly: `slots` is the
vector, `free_list` the stack, `count` the counter.  `Insert(c)` and `Remove(i)`
are whole calls.  The two other users instantiate it, so that the scheduler and
the hibernation driver run on the real slot store and not on a set.  Its caller
in `SlabNext` may remove any index, also a stale one.  `SlabMap` says what it
promises: a map in which `insert` picks a handle that is not in use.

**AgentScheduler.**  Threads call `dispatch` and `resume`; tokio tasks run
`dispatch_full`.  A critical section is a step, and so is the run of the VM
between two of them, when no lock is held.  The VM is reduced to what the
scheduler sees of it: from one await a run reaches the next, finishes or fails.
A continuation is the pair of the agent and the await it waits at, which also
stands for its request and for the result that answers that request, so that a
result delivered to the wrong agent or await is visible.  `Dispatch` is
`dispatch` up to `run` and the head of `dispatch_full`; `Suspend` the locked
section of `execute`; `Continue` (`Resume`, `ResumeAgain`) the locked section of
`resume`; `IoCompletes` the end of `execute_io` in a task.

**WorkexVM.**  One action per arm, or group of arms, of the loop of `run`;
`Fetch` is the head of the loop with the bound and limit checks; `Suspend` builds
the continuation, `Resume` is `from_continuation`.  Ghost variables keep what an
agent that is never taken off the machine would have: `full` its registers,
`tries` its handlers.  `VMAssumption` is the contract between the compiler and the
VM: a program carries a liveness table, and its masks cover what is live, as far as
a mask reaches (`IsProgram`); the resume points of a compiled one are listed in the
order of its suspends, each right after its own, and it neither jumps nor throws
(`InEmittedOrder`).  TLC evaluates it on every program of the runs, those that
`CpsCompiler` compiles among them.  Numbers are integers and the four
arithmetic opcodes are one: no property depends on values of arithmetic.

**CpsCompiler / AgentPipeline.**  A script is its parse: statements and
expressions as records, with the text of a span where the compiler keeps it.
`Transform` finds the suspension points and the live names, `Compile` lays out
registers, constants, the chain of suspensions and the response.  The code it
yields has the form `WorkexVM` executes, so the `Programs` of the run
`vm_programs` include compiled scripts, and their masks are held to the contract
`IsProgram`.  `AgentPipeline` says what a script itself awaits, in the order
JavaScript evaluates it (`ScriptAwaits`), and compares the suspensions of the VM
with that, for scripts the compiler can be right about (`Straight`).

**DispatchIo.**  `dispatch_many` spawns a tokio task per agent; each runs
`dispatch_full`, here the sequence of suspensions its module makes.  A fetch, or
the requests of a `SuspendedMulti`, are answered one by one in any order and
joined (`JoinAll`); a KV operation is open, access, close, with an open that
fails while another task has the database; a D1 batch is executed statement by
statement.  A fetch may fail, lose its body half way, which the agent sees as an
empty string (`NoBody`), panic while its client is made, which is the `JoinError`
that `dispatch_many` returns for the agent (`TaskPanics`), or never be answered:
the client has no timeout.  Threads of the host share the SQLite file through prepared
statements.  A row says who inserted it, and two ghosts count what the hosts were
told of (`told`) and what they inserted without being told (`silent`).  Stores fail
on their own account too (`Failing`): KV operations, opening a D1 database, and a
statement when the database stays busy.

**Hibernation.**  The driver is the one the repository has, the test
`agent_survives_server_restart`: take a continuation out of the slab, hibernate
it, and after a restart insert all pending records and resume them; it also
wakes agents on the same server.  sled is external: `tree` is what the process
sees, `disk` what a crash leaves, `Flush` is `db.flush`, and `BackgroundFlush`
sled's own flusher.  A `Crash` may come between any two steps; the restarted
server gets the records that `all_pending` can read, and the others are passed over
without a word, any set of them (`skipped`).  Any other error of the store makes the
driver panic, which is a crash.  Agents have an identity of their own, because the
ids that the program gives them are not unique over restarts.

**JsContext / EnginePool.**  A context is reduced to the global
`__workex_resolved__`, the queue of pending jobs and the promises of earlier
requests that a later one may settle.  A handler is a record of how it behaves:
what it returns (a response, another object, a string, nothing, a promise that
settles or waits or rejects, an exception) or that it loops, whether it settles what
waits, how many jobs its promise takes, which status it gives.  A context has no
interrupt handler, so that a handler that loops, or jobs that never run out, keep
the mutex (`NeverReturns`, `RunOn`).  A single engine registers no fetch
(`Behaviour`).  `EnginePool` serves requests in the dev server, in the
workerd compatible one and on a single engine; the lock, the outbound fetch,
the call, each job and the release are steps.  A panic of the blocking HTTP
client (in a debug build) poisons the mutex.

**RuntimeRegistry / SharedRuntime / WorkerHost.**  The three critical sections of
`get_or_create` are steps.  The hash function is any injective one: that two
scripts do not collide is an assumption the code makes as well.  `SharedRuntime`
keeps all runtimes: contexts, the idle stack, the job queue of the runtime, and
who is inside `ctx.with`.  `WorkerHost` lets each thread ask the registry and
then handle its request on the runtime it got; a step is one of either module.

**IsolatePool / WorkexServer.**  The pool as it is, an arena being the sequence
of what was allocated since its reset.  The server's handler takes the lock
twice, to spawn and to recycle, and allocates and copies in between.  `IsolateLease`
says what a client of a pool may rely on, whatever the pool keeps: the isolate it is
lent is empty and nobody else holds it, only its holder puts something into it, and
it is taken back empty.

**Headers / WebSocketPair / HttpExchange.**  A program sets, appends and deletes
headers in any spelling; the request is then sent by `fetch` to a server that
answers with the lines it got, or it is an upgrade and the pair of ends comes
into being.  `fetch` is its two loops: one adds a header line for each entry, in
whatever order the hash map has the names, and one appends each line of the reply
to the response; in between the request may be refused or the connection lost.  An
end has several sends under way or one recv, as borrowing allows; free slots are
granted in the order of the calls (tokio's semaphore is fair), calls may be cancelled
and ends dropped.

**TypedCompiler / HybridWorker.**  `Lower` and `CompileFunction` give for each
function its HIR and the term its machine code computes, over symbolic
parameters; `HybridWorker` runs `analyze_worker` and `inject_native_functions`
statement by statement, once on the original source as the tests do, once on the
prepared source as the pool does.

**Arena.**  Addresses and sizes are numbers, and padding is computed as `alloc_raw`
does.  Where the system allocator puts a chunk is free, as
a `Box<[u8]>` has no alignment; this is what makes the padding of the old and the
new chunk differ.  `alloc_raw` calls itself after `grow`; each round is a step
(`Fit`, `Grow`, or the `Panic` of the assertion), so that the rounds can be
counted.  The comment there says that the retry is guaranteed to fit; the model
needs a second growth in some states (a new chunk that is less aligned than the
old one), and never a third for a value that takes space (`TwoGrowthsSuffice`).
The ghost `live` holds the regions returned since the last reset.

## Runs

Every run checks for deadlock as well; actions such as `Quiescent`, `Ended`,
`Idle`, `Done` and `Finished` mark the states in which the system may stop.

| Run | Shows |
|---|---|
| `slab` | the free list is exactly the empty slots, each once (`FreeListExact`), after any sequence of inserts and removes, stale ones included; the vector grows only when no slot is free (`GrowsOnlyWhenFull`), and the slab implements `SlabMap` (`SlabImplementsMap`) |
| `scheduler` | an agent is in exactly one place (`AgentInOnePlace`), also when results are delivered again; while they are delivered once, an unanswered handle names the agent that waits for it (`HandlesAreCurrent`), and an agent runs on only with the result of its own current await (`RightResult`); every agent that was started ends (`EveryAgentEnds`) |
| `vm_programs` | for every small program with sufficient masks suspension is transparent: live registers and the requests made are those of an uninterrupted run (`ResumeTransparent`); every call of `run` ends (`RunEnds`). A compiled script suspends once for each of its awaits, in order, with the awaited call (`SuspendsAsWritten`), goes on where `resume_table` says (`ResumesWhereNoted`) and answers with the last result (`AnswersLastResult`) |
| `vm_try` *(violated)* | a handler entered before an await does not catch a throw after it |
| `dispatch_io` | results of a parallel await keep their positions (`CombinedByPosition`); a stored value is found (`StoredIsFound`); an agent is refused a database only while another has it open (`RefusedOnlyByOthers`); the rows of an agent's answered batches are in the table, a host is told of each row it inserts unless it asked for rows, and a row holds what one host bound, in order (`TableIsAsTold`); every agent ends but those that a silent server never answers, and when all have ended `dispatch_many` returns, in the order of spawn, with an error for the agents that trap or panic and no other (`AllCollected`) |
| `hibernation` | once `hibernate` returned `Ok`, the record survives every crash until it is woken or replaced (`AckedIsDurable`); on one server an agent is never in two places (`OnePlacePerServer`); after any crash, and others during the restart, a new server has every acknowledged agent back in its slab, unless its record was woken, replaced or could not be read (`AckedAgentsReturn`) |
| `host` | a call gets a runtime of its own script, and the one that was entered when it began (`ReturnsOwnRuntime`); a context is in one hand (`ContextExclusive`); a runtime that nobody uses has all its warm contexts, also after errors, and never more than `max_pool` idle ones (`PoolKept`); a reply was made in the context of the request it answers, although jobs share a queue (`RepliesIsolated`) |
| `engine` | a response is delivered at most once (`DeliveredOnce`), a direct one to its own request (`DirectIsOwn`); the warm pool of the servers calls a handler once (`HandlerCalledOnce`); every request ends, with an answer or with its connection, unless a handler that never returns has the mutex (`EveryRequestEnds`) |
| `server` | the arena of an isolate holds what the request that owns it allocated, and nothing otherwise (`ArenasIsolated`); the pool keeps its size and the counters account for every isolate (`PoolAccounts`); the pool under the server's requests implements `IsolateLease` (`PoolImplementsLease`) |
| `http` | headers that a server sends back are what the program wrote since the last set or delete, in any spelling (`HeadersComeBack`); what `send` and `recv` report is true: messages arrive in order, the end of a stream cuts nothing off, a send is refused only when the peer is gone (`ReportsAreTrue`); an end that sends and a peer that receives do not wait for each other: one of the two calls returns (`SenderMeetsReceiver`), and calls return once the peer is dropped (`CallsEndAfterDrop`) |
| `typed` | native code of a numeric function computes what the function means (`NativeMeansSame`) |
| `arena` | pointer and remaining bytes agree (`BumpExact`); live regions lie in owned chunks and do not overlap (`LiveDisjoint`); two growths suffice (`TwoGrowthsSuffice`); chunks at least double, and a reset starts from the original chunk with the original growth (`GrowthDoubles`) |

The violated run states what the repository's documentation says and the code
does otherwise; `PROJECT.json` quotes both under `findings`.

**Bounds.**  *slab*: four stored continuations of two kinds reach every shape of
the free list that involves two freed slots below, between and above occupied
ones.  *scheduler*: three agents on two threads and a task, two awaits each: one
agent can be suspended, one run and one take the freed slot, and a second await
makes stale handles; one repeated answer hits a free slot or another agent.
*VM*: all programs of three instructions over fifteen, those of four that await
at the second, six shapes of the tests of `vm.rs`, and compiled scripts, those
of the tests of the compiler among them; two mask bits; limits below and above
the length of a straight run; up to three suspensions, so that what the first
one saved is used after the second.  *dispatch_io*: two agents and one host
thread over six modules: two agents are enough for every conflict on a store,
and two parallel requests for either order of their answers.  *hibernation*: two
agents over four servers (three crashes), so that the ids of two agents of one
server differ, those of two servers collide, and a server can restore, run,
hibernate and wake.  *host*: two threads, two scripts, four requests, one warm
context per runtime, so that two threads race, one of them finds no idle
context, and a context is dropped at release.  *engine*: two connections, two
contexts, three requests of eleven kinds: a first one leaves a promise, a second
settles it, a third sees what remains.  *server*: three connections over a pool
of two, four requests: more isolates than the pool keeps, and reuse.  *http*:
two names in two spellings, three operations, four kinds of values; channels of
two slots, three messages and two sends under way per end, so that a channel is
full with a call waiting.  *typed*: eight signatures, six return types, 202
expressions, and scripts of several statements.  *arena*: four allocations
between resets from a first chunk of 4 bytes under a cap of 40, alignments up to
4 and chunks at every alignment modulo 4: values of no size, growth twice for
one value and a cap hit after a growth all occur.  MaxAgents, MaxAwaits,
MaxRetries, MaxSuspensions, MaxCrashes, MaxCalls, MaxRequests, MaxOps,
MaxMessages, MaxPending, MaxLive and MaxStored are bounds of the models and not
of the code.

**Fairness.**  *scheduler*: weak fairness of each worker's step (`run` is bounded
by the instruction limit, and the lock is held for one operation at a time), and
of answering some pending request: the I/O of a request completes and its caller
resumes.  Starting agents and repeating answers is not fair.  *VM*: weak fairness
of the loop, which nothing interrupts.  *dispatch_io*: weak fairness of each task
(tokio polls what can go on) and of the return of `dispatch_many`; none of the
answers, since the client of `execute_io` has no timeout (`scheduler.rs:147`).
*engine*: weak fairness of the steps of each connection that can go on; the
outbound requests of handlers have a timeout of 30 s; a handler that loops takes
steps for ever and none of them ends it.  *http*: weak fairness of the completion of
the calls of each end.  Arrivals, new connections, cancellations and drops are not
fair.  The mutex of the engine pool
promises no order; weak fairness suffices because the requests are bounded.
*hibernation*: weak fairness of the steps the driver has begun, a hibernation, a
wake or a restore.  Whether an agent is ever woken or resumed is left open:
`to_continuation` drops the request it waits for, and nothing in the code makes it
again.

## What the models say about the code

Behaviour of the code that the models contain, that a reader of the
documentation would not expect, and that the properties are therefore stated
around:

- *Handles.*  The `AgentId` of a suspended agent is its slot, which is used
  again (`continuation.rs:8` says "Unique agent identifier"): a caller that
  keeps one over a resume reaches another agent.
- *Limits.*  Each resume starts the instruction count and the limits anew, so an
  agent that awaits in a loop is never stopped (`README.md:170`).
  `max_io_ops` and `max_continuation_bytes` are never consulted.  No context of
  the QuickJS pools has a limit of time (`engine.rs:204`): a handler that never
  returns keeps the mutex, and every later request of the server waits
  (`EveryRequestEnds` excepts this).
- *Hibernation.*  "All pending agents are loaded and resumed" (`hibernation.rs:4`)
  has four exceptions.  A restarted server counts ids from 1 again and replaces the
  records of pending agents.  A woken agent is in no store until it is hibernated
  again, so that a crash loses it.  Records that cannot be read are passed over
  (`hibernation.rs:88`).  And records stay in the tree after a restart, so that the
  next one loads agents that have returned their answer.
- *Registry.*  There is not "one SharedRuntime per unique Worker script"
  (`registry.rs:1`, `:4`): calls that race before the entry create a runtime each
  and use their own, the later ones the one that was entered.
- *Compiler.*  Awaits under members, operators, objects, parentheses or in
  nested blocks are no suspension points, an outer await is numbered before the
  one in its operand, all async functions of a script become one chain, and a
  script that does not parse answers 200 "ok".  The url of a fetch is the source
  text of the argument, quotes included.  `resume_table` is never read by the VM.
  The register that receives a result is in no mask, so that earlier results are
  undefined after the next await; and when the registers are used up results share
  the last one, while the response is built from the one below it.
- *I/O.*  Failures of I/O are strings, a body that cannot be read is an empty one, a
  server that never answers is waited for without end, a batch reports 0 changes, `all` and
  `first` execute an INSERT and report nothing, and of two KV operations at once
  one is refused.
- *Contexts.*  A promise that one request leaves pending answers a later one on
  the same context when that has no response of its own; jobs left by an
  exception run in the next request.  `execute_worker` calls a handler twice when
  the first call returned a promise, or another object that is no response
  (`engine.rs:110`), though `README.md:181` has this as fixed; the servers use the
  warm pool, which does not.
- *Servers.*  Headers and body of requests are dropped, the compatible server
  presents PATCH, HEAD and OPTIONS as GET, a failed outbound fetch has status
  200, and a response with a status outside 100 to 999 ends the connection.
- *Typed functions.*  The pool strips annotations before it looks for typed
  functions and injects none (`README.md:143`).  For `%`, strings, unknown names
  and more than two parameters the native code, where it is used, returns 0 or
  another constant, and missing arguments count as 0.
- *WebSocket.*  Two ends that both send into full channels wait for ever; `Close`
  is a message like any other; `is_upgrade` reads the first value of the header.

## Proofs

TLC checks the properties on the instances above; the theorems below state them
for every value of the constants: any number of threads, agents, requests and
crashes, any set of scripts and handlers, any size of a pool or channel.  Each
rests on an inductive invariant, which is more than the property, because the
property by itself is not preserved from every state it allows.  The assumptions
are those named in the modules (`ASSUME`); TLC evaluates them in every run.

| Property | Theorem | Module |
|---|---|---|
| `FreeListExact`, `NoOverwrite`, `GrowsOnlyWhenFull`, `SlabImplementsMap` | `FreeListAlwaysExact`, `NeverOverwrites`, `GrowsOnlyFull`, `SlabRefinesMap` | `ContinuationSlabProofs` |
| `AgentInOnePlace`, `HandlesAreCurrent`, `RightResult` | `AgentAlwaysInOnePlace`, `HandlesAlwaysCurrent`, `AlwaysRightResult` | `AgentSchedulerProofs` |
| `CombinedByPosition`, `StoredIsFound`, `RefusedOnlyByOthers`, `TableIsAsTold` | `AlwaysCombinedByPosition`, `AlwaysStoredIsFound`, `AlwaysRefusedByOthers`, `TableAlwaysAsTold` | `AgentSchedulerProofs` |
| `ResumeTransparent`, `ResumesWhereNoted` | `SuspensionTransparent`, `ResumeTableFollowed` | `WorkexVMProofs` |
| `AckedIsDurable`, `OnePlacePerServer`, the safety of `AckedAgentsReturn` | `AckedAlwaysDurable`, `AlwaysOnePlacePerServer`, `RestartLosesNone` | `HibernationProofs` |
| `BumpExact`, `LiveDisjoint`, `TwoGrowthsSuffice`, `GrowthDoubles` | `BumpAlwaysExact`, `LiveAlwaysDisjoint`, `NoThirdGrowth`, `GrowthAlwaysDoubles` | `WorkexServerProofs` |
| `ReturnsOwnRuntime` | `AlwaysOwnRuntime`, `HostReturnsOwnRuntime` | `WorkerHostProofs` |
| `ContextExclusive`, `PoolKept`, `RepliesIsolated` | `ContextAlwaysExclusive`, `PoolAlwaysKept`, `RepliesAlwaysIsolated` | `WorkerHostProofs` |
| `DeliveredOnce`, `DirectIsOwn`, `HandlerCalledOnce` | `AlwaysDeliveredOnce`, `DirectAlwaysOwn`, `HandlerAlwaysCalledOnce` | `EnginePoolProofs` |
| `ArenasIsolated`, `PoolAccounts`, `PoolImplementsLease` | `ArenasAlwaysIsolated`, `PoolAlwaysAccounts`, `PoolRefinesLease` | `WorkexServerProofs` |
| `HeadersComeBack`, `ReportsAreTrue` | `HeadersAlwaysComeBack`, `ReportsAlwaysTrue` | `HttpExchangeProofs` |

**The slab.**  `ContinuationSlabProofs` proves about `ContinuationSlab`, for any set of
continuations and any bound, from `SlabAssumption` (the empty option is not a
continuation; the bound is a natural number):

- `SlabTypes`, `FreeListAlwaysExact`, `CountAlwaysExact`: the three invariants.
  The inductive invariant `SlabInv` is their conjunction, and each part needs the
  others: an insert fills a free slot only because the free list is exact, and
  the count goes up by one only because the slot was free; a remove does not
  push an index twice because an occupied slot is not on the list.
- `NeverOverwrites` and `GrowsOnlyFull`: the two action properties, from the
  invariant and the effect of each call (`InsertEffect`, `RemoveEffect`).
- `SlabRefinesMap`: the slab implements `SlabMap`.  An insert maps to the map's
  insert at `InsertIndex`, a remove that finds something to its remove, every
  other call to a stutter.  That the handle is one of the bounded handle space
  of `SlabMap` needs a second invariant, `HighWater`: the vector is never longer
  than the bound.

The lemmas `GetAfterInsert`, `GetAfterRemove` and `GetKept` say what each call does
to the map of handles; the next two modules use the slab only through them.

**The scheduler.**  `AgentSchedulerProofs` instantiates the slab with its theorems
and proves about `AgentScheduler`, from `SchedulerAssumption` and `NoneAssumption`
("no frame" is neither a frame nor a continuation).  The inductive invariant
`SchedulerInv` is the slab's, the types (a worker has a frame exactly while it is
in the middle of a call), `OnePlace`, `HandlesAreCurrent` and `RightResult`.
`OnePlace` is `AgentInOnePlace` without counting: no two slots, no two workers, and
no slot and worker have the same agent, and what is alive is in one of them; that
the number of places is one follows at the end.  A resume takes what its handle
leads to, and only `HandlesAreCurrent` says that this is the agent that waits; a
suspension gives an agent a handle that is in no unanswered request, because
every such handle leads to a stored continuation and the new one was free.

Three theorems follow from it.  `SchedulerRunsSlab`: what dispatch and resume do to
the slab is a behaviour of the slab's own specification, so that the scheduler
inherits its theorems, the refinement of `SlabMap` and `NoOverwrite` among them.
`SuspendNeverBlocked`: the bound of the slab, which the code does not have, never
keeps an agent from being stored; the agents in the slab have different ids, and
the one to be stored has yet another.  `SchedulerTypesOK`: the type invariant, with
every handle below the bound of the slab.

**Agents' I/O.**  The same module proves three properties of `DispatchIo` (whose
specification is `IoSpec`), for any agents, modules, keys and hosts, from
`IoAssumption`: a module is a sequence of requests, agents are numbered, and
"nothing stored" is neither an agent nor a value that a put stores.  The inductive
invariant `IoInv` is the two state properties with

- `IoTypes`: the types, and at each stage the kind of request that leads there;
- `OpenForOne`: the namespace is owned by exactly the agent that is between open
  and close.  `AlwaysRefusedByOthers` follows from it: whoever fails to open found
  an owner, and is not between open and close itself;
- `Stored`: a key whose storing was acknowledged holds something, and the answer an
  agent is about to be given when its handle drops is still true then, because
  nobody else can touch the store in between.  Without the second half
  `StoredIsFound` is not inductive, as the answer is given a step after the access;
- `InFlight`: the completions in flight are for different requests of the await the
  agent is at.  As many as there are requests then cover every position
  (`JoinedByPosition`, by counting), which is why `Joined` finds one for each.

The D1 table has an inductive invariant of its own, `TableInv`, for any agents,
batches, hosts and statements, and `TableAlwaysAsTold` follows from it.  It credits
each agent with the inserts of its answered batches and with those the batch it is
at has executed (`Credit`), because the rows go in one by one before the answer is
given; there are at least as many rows of the agent as it is credited with (a batch
that fails half way leaves rows that it is never told of).  It says of
each prepared statement that its bindings are the host's own, in order, since a row
takes its values from there; and that `told` and `silent` account for the rows of the
hosts.  That an agent's insert adds no row of a host, and the other way round, rests
on whose value a row holds (`ValuesDiffer`).

**VM.**  `WorkexVMProofs` proves two properties of `WorkexVM` for every program that
fulfils the contract of `VMAssumption`, of any length, with loops and handlers, and
for any number of registers, limits, values of I/O and suspensions:

- `SuspensionTransparent`: `ResumeTransparent`, for programs with `MasksReach`, in
  which only the result is live over a suspension in a register that no mask can name
  (64 and above: such a register is not saved, and for a program that reads one the
  property may be false).  `MasksSuffice` in `MCWorkexVM` shows that all programs of the
  run are such.  The inductive invariant `TransparentInv` says that the two machines
  agree on the registers live at the place they are at (`AgreeAt`), that every handler
  on the stack is one of the program (a throw lands where a handler says, and what is
  live there is known only of handlers the program has), and what the continuation of
  a suspended agent holds, since all that `from_continuation` restores comes from it.
- `ResumeTableFollowed`: `ResumesWhereNoted`, of every compiled program.  `PlaceInv`
  says how far the resume table is used up: its entries before the number of
  suspensions made so far, and no others, lie behind the instruction pointer.  It is
  the order of the table that keeps this true from one suspend to the next.

**Hibernation.**  `HibernationProofs` proves about `Hibernation`, over the slab in
the same way, that `AckedIsDurable` and `OnePlacePerServer` hold for any number of
agents and crashes.  `HibernationInv` adds to the types of the driver's stages three
things.  `Keyed`: a record, in the tree or on disk, is under its own agent's id, so
that the id by which the driver wakes or overwrites a record says whose it is.
`OneEach`: an agent has one continuation; the copies that the slab, the pending
records, the driver, the tree and the disk have of it are equal, which is why a
record that comes back after a crash is the one that was written.  `Placed`, of
each agent: it is in at most one of one slot, the pending records, the driver's
hand and the sleeping records, and in none once it has ended on this server.
`OnePlacePerServer` counts these places; `Placed` says of each pair that they
exclude one another, in the form in which a step that moves an agent from one
place to the next preserves it.

`RestartLosesNone` is what `AckedAgentsReturn` says without its liveness: while a
server starts, each acknowledged agent that was not woken, replaced or skipped is
among the records to be inserted, or in a slot already.  Since the records are
inserted one by one, and the server serves when none is left, the agent is in its slab
then.

`InsertNeverBlocked`: the slab has room for each agent that is new, woken or
restored after a crash, so that the model's bound cuts off no behaviour.
`ServersRunSlab`: what a server does to its slab, from one start to the next, is
what the slab's specification allows; a crash starts from an empty slab again.

**The arena.**  `WorkexServerProofs` ends with `Arena`, for every initial size, cap, set
of layouts with alignments up to 64 and placement of chunks, from `ArenaAssumption`
(sizes are naturals and multiples of their alignment; chunks are at natural
addresses; the specification is `ArenaSpec`):

- `ArenaTypes`, `BumpAlwaysExact`, `LiveAlwaysDisjoint`.  The inductive invariant
  `ArenaInv` adds to these that chunks do not overlap and `Behind`: every live
  region is in an earlier chunk, or in the active one below the bump pointer.
  Disjointness alone is not inductive, since the next region is disjoint from
  the others only because it starts at or above the pointer.
- `NoThirdGrowth`: `TwoGrowthsSuffice`.  After one growth the chunk has room for
  the value without padding (`GrowthGain`); the second doubles it; and the padding
  is less than the alignment, which is at most the size.
- `GrowthAlwaysDoubles`: `GrowthDoubles`, which is inductive with the types: the next
  chunk size is twice the last chunk's after a growth, and a reset truncates the
  chunks and the next size together.

**Registry and host.**  `WorkerHostProofs` begins with the registry by itself, for
any threads, scripts and hashes, from `RegistryAssumption` (finitely many threads;
"no runtime" is neither a runtime's number nor a script):

- `AlwaysOwnRuntime`: `ReturnsOwnRuntime`.  The inductive invariant `RegistryInv`
  adds the types, `MapServesOwn` (what is entered for a hash was made from its
  script, which needs the hash to be injective) and `CallOnItsWay`: a thread about
  to publish carries a runtime of its own script, and a call that began when there
  was an entry is still at the lookup, with the entry still there.  The last part
  is why no such call creates a runtime.
- `CallsAlwaysCover`: no more runtimes are made than calls, so that the numbers that
  name them suffice.

`HostRunsRegistry` shows that the host, which handles requests on the runtimes it
gets, implements the registry's specification; all of the above then holds of it.
With `PoolAssumption` and `HandlersAssumption` (what a handler may do; "nobody" is
not a thread) follow

- `ContextAlwaysExclusive`: `ContextExclusive`.  `HostInv` adds the types, that each
  thread has a request of its own and the lock of its runtime while it is inside
  `ctx.with`, and that contexts in use or idle were created.
- `PoolAlwaysKept`: `PoolKept`, by counting: a runtime starts with `max_pool` idle
  contexts, a thread that takes one joins those that use the runtime, and it leaves
  them when it puts one back or finds the stack full.
- `RepliesAlwaysIsolated`: `RepliesIsolated`.  The queue of jobs is one for all
  contexts of a runtime, and any thread inside runs the next one, whosoever it is.
  `ReplyInv` therefore follows every response.  What carries one (a promise in the
  queue, a deferred promise of a context, a global) was made in the context that it
  will be stored in (`CarriedWhereMade`), and it is in one carrier only, or the
  reply of one request (`CarriedOnce`).  The global of a context counts only while
  its request drains the queue, since the next call resets it before it reads.

**Engine pool.**  `EnginePoolProofs` proves about `EnginePool`, for all three
servers, from `PoolAssumption` and `HandlersAssumption`:

- `AlwaysDeliveredOnce`: `DeliveredOnce`.  A response is still to be made or to be
  returned directly (`Unsent`), carried by a promise of some context (`Carried`), in
  the global that will be read (`Live`), or given.  `DeliveryInv` says that it is in
  one of these states at a time (`OnceEach`) and that contexts and promises carry
  different ones (`CarriedApart`); with the types and `Turns`, that one connection
  at a time is past the lock.  A response only moves forward in this order
  (`MovesOn`), and is dropped with a context or when the global is overwritten.
  The global of a context that goes back to the pool is not counted: that it holds
  an old response is harmless only because a dispatch resets or overwrites it on
  every path but that of an exception, which reads nothing.
- `DirectAlwaysOwn`, and for the servers with a warm pool `HandlerAlwaysCalledOnce`,
  from `CallsCounted`: at
  each step the number of calls of a request is given by the round it is in.

**Server.**  `WorkexServerProofs` proves about `WorkexServer` and the `IsolatePool` it
instantiates, from `ServerAssumption` (the bounds are natural numbers, "no isolate"
is not the number of one, and main is not a connection):

- `AlwaysOneRequest` and `ArenasAlwaysIsolated`.  The inductive invariant
  `ServerInv` is the types, `OneRequestPerIsolate` and `ArenaFollows`: the arena of
  an isolate is empty, or holds the body of the request that owns the isolate,
  according to how far that request is.  An isolate that is new is in nobody's hands
  because every isolate that is has a lower number; one that is popped because of
  `OneRequestPerIsolate` itself, which is also why it is not there a second time.
- `PoolAlwaysAccounts`: `PoolAccounts`.  The cardinality of the isolates in use goes
  up by one at a spawn only because the isolate was in nobody's hands, and down by
  one at a recycle only because no other request holds it.
- `PoolRefinesLease`: the server's use of the pool implements `IsolateLease`.  A spawn
  maps to `Lend`, the allocation of the body to `PutInto`, a recycle to `TakeBack`,
  whether the isolate is kept or dropped, and every other step to a stutter.  That
  `Lend` is enabled is `ServerInv`: what is popped or made is in nobody's hands, and
  its arena is empty.

`AlwaysOneRequest` is stated by no run: what it says of a client is part of the
refinement, which the run `server` checks.

**Headers.**  `HttpExchangeProofs` proves `HeadersAlwaysComeBack`: `HeadersComeBack`,
for any names, spellings and values and any number of operations, from
`LowerAssumption` (a lower-case name is its own lower case) and `ValuesAssumption`.  Neither map
is a function of what was written that induction could follow, since the hash map
yields names in any order.  `HeadersInv` instead says of each name that one list is in
four places: the request's map has the values that were given since the last set or
delete (`WrittenInMap`), the lines of that name have what was taken from the map so
far (`MapOnWire`), and the response's map has the text among the lines looked at so
far (`WireInResponse`).  "Has" is `ListsValues`, an increasing function from the
positions of one sequence to places in another; when all is taken and copied the three
compose (`ListsThrough`).

**WebSocket pair.**  `HttpExchangeProofs` also proves `ReportsAlwaysTrue` for channels of any capacity, with cancelled calls and dropped
ends, from `CapacityAssumption`.  `PairInv` states for each end (`Reception`): while
it is open, what its peer sent is what it got followed by what is queued for it;
once it is dropped, nothing is queued for it, it has no calls, and what it got was a
prefix of what was sent; a recv returned `None` only after everything was got and
the peer was gone; a send failed only when the peer was gone; and no queue is longer
than the channel.  Until there is a pair its state is the initial one.

**Only model-checked.**  The provers at hand reason about neither liveness under
fairness nor `ENABLED`, so `EveryAgentEnds`, `RunEnds`, `AllCollected`,
`AckedAgentsReturn` (but for its safety), `EveryRequestEnds`, `SenderMeetsReceiver` and
`CallsEndAfterDrop` stay with TLC.  So does what the compilers compute, whose
definitions are recursive over syntax: `SuspendsAsWritten` and `AnswersLastResult` of
the bytecode compiler, `NativeMeansSame` of the typed one.  What the VM needs of the
bytecode compiler is an assumption of the proofs about it, and TLC evaluates it for
the scripts of `MCWorkexVM`.

## Not modelled

Formatting, text rewriting of sources beyond what it does to declarations,
argument and configuration parsing, the HTTP client and server libraries, SQL,
QuickJS itself, machine code generation and memory measurement are external or
have no state.  `streaming.rs`, `response.rs` and `env.rs` hold plain data: a
stream is a vector that one reader drains.  Overflow of `next_id` (a u64), of
`IsolateId` and of slot indices is out of reach.  `memory_bytes` and `size_bytes`
are estimates for benchmarks.  `parse_worker` (`workex-compiler/src/lib.rs`), a second
reader of scripts, is called by tests only.  Failures to serialise a record
are left out, and so is a sled database that cannot be opened for another reason than its lock.
`delete` and `list` of the KV namespace are defined and no run drives them, as
no code outside the tests calls them.  `workex-bench` only measures.

The registers of a compiled script saturate at 255; the pipeline is checked on
scripts whose registers fit (`Fitting`), since past that variables share a
register and nothing can be said of their values.

## Plan

Every safety property that a run checks is stated by a theorem, but for those of the
two compilers.  What remains is to prove those too: that `Compile` of every script
fulfils `VMAssumption`, which the proofs about the VM take as given, the two
properties of `AgentPipeline` and the one of `HybridWorker`.  For that both compilers
would have to be written without recursive operators, over a representation of syntax on
which the provers can be given an induction.
