----------------------------- MODULE DispatchIo -----------------------------
(***************************************************************************)
(* AgentScheduler::dispatch_many and dispatch_full with the I/O they do    *)
(* (workex-vm/src/scheduler.rs), over the KV and D1 stores of              *)
(* workex-runtime.  Each agent is a tokio task; the runtime has several    *)
(* threads, so the tasks interleave at every step below.  vm::run is one   *)
(* step here (WorkexVM has its inside): the bytecode of the module is the  *)
(* sequence of the suspensions it makes, maybe ending in a trap.           *)
(***************************************************************************)
EXTENDS Integers, Sequences, FiniteSets

CONSTANTS
  Agents,       (* the agents of dispatch_many: 1 .. count                 *)
  Scripts,      (* the modules: sequences of suspensions                   *)
  Keys, Null,
  Failing,      (* whether a store may fail on its own account             *)
  Hosts,        (* threads of the host that share a handle on the database *)
  Statements,   (* the SQL they prepare                                    *)
  MaxCalls      (* bound: executions of a prepared statement by a host     *)

(* An IoRequest, or the trap that ends the module; a value that is stored  *)
(* is a string.                                                            *)
IsStatement(stmt) == stmt.op \in {"insert", "select", "bad"} /\ stmt.columns \in Nat

IsIo(io) ==
  \/ io.op \in {"fetch", "trap"}
  \/ /\ io.op = "d1" /\ Len(io.batch) \in Nat
     /\ \A i \in 1 .. Len(io.batch) : IsStatement(io.batch[i])
  \/ io.op = "all" /\ io.count \in Nat
  \/ io.op = "get" /\ io.key \in Keys
  \/ io.op = "put" /\ io.key \in Keys /\ io.value # Null

(* The value an agent inserts, and the n-th one a host binds.              *)
ByAgent(t) == [agent |-> t]
ByHost(h, n) == [host |-> h, nth |-> n]

ASSUME IoAssumption ==
  /\ Agents \subseteq Nat /\ IsFiniteSet(Agents) /\ Null \notin Agents
  /\ \A t \in Agents : Null # ByAgent(t)
  /\ Failing \subseteq BOOLEAN
  /\ \A sql \in Statements : IsStatement(sql)
  /\ \A s \in Scripts : Len(s) \in Nat /\ \A p \in 1 .. Len(s) : IsIo(s[p])

D1 == INSTANCE D1Database
Kv == INSTANCE KvNamespace

VARIABLES
  script,       (* the module all agents run                               *)
  stage,        (* run, fetching, the stages of a store, done              *)
  got,          (* the values the agent was resumed with, in order         *)
  flight,       (* completions of the requests in flight, in their order   *)
  handle,       (* result a store operation leaves when its handle drops   *)
  results,      (* the Result of dispatch_full, when it has one            *)
  finished,     (* tasks in the order they ended                           *)
  collected,    (* what dispatch_many returns                              *)
  kv, kv_owner, (* the sled database and the task that has it open         *)
  table, step,  (* the SQLite table; statements a batch has executed       *)
  prepared,            (* the D1PreparedStatement of a host                *)
  calls,               (* executions of a host                             *)
  told, silent         (* histories: rows that run reported to the hosts,  *)
                       (* that all and first inserted and did not report   *)

taskVars == <<stage, got, flight, handle, results, finished, collected>>
storeVars == <<kv, kv_owner, table, step>>
hostVars == <<prepared, calls, told, silent>>
ioVars == <<script, taskVars, storeVars, hostVars>>

(* Results, as JsValue tells them apart: a string (every error is one),    *)
(* null, undefined, and the objects of a page, a D1 result, a join_all.    *)
Text(s) == [text |-> s]
NullValue == [null |-> TRUE]
Undefined == [undefined |-> TRUE]
Page(t, p, i) == [page |-> <<t, p, i>>]
NoBody == [page |-> <<>>]
ChangesObject(n) == [changes |-> n]
Combined(m) == [entries |-> m]

Io(t) == script[Len(got[t]) + 1]
Requests(io) == IF io.op = "all" THEN io.count ELSE 1

IoInit ==
  /\ script \in Scripts
  /\ stage = [t \in Agents |-> "run"]
  /\ got = [t \in Agents |-> <<>>]
  /\ flight = [t \in Agents |-> <<>>]
  /\ handle = [t \in Agents |-> Null]
  /\ results = [t \in Agents |-> Null]
  /\ finished = <<>>
  /\ collected = <<>>
  /\ kv = Kv!EmptyKv
  /\ kv_owner = Null
  /\ table = <<>>
  /\ step = [t \in Agents |-> 0]
  /\ prepared = [h \in Hosts |-> Null]
  /\ calls = [h \in Hosts |-> 0]
  /\ told = 0
  /\ silent = 0

-----------------------------------------------------------------------------
(* dispatch_full: one turn of the loop.                                    *)
Finish(t, result) ==
  /\ stage' = [stage EXCEPT ![t] = "done"]
  /\ results' = [results EXCEPT ![t] = result]
  /\ finished' = Append(finished, t)
  /\ UNCHANGED <<script, got, flight, handle, collected, storeVars, hostVars>>

RunDone(t) ==
  /\ stage[t] = "run"
  /\ Len(got[t]) = Len(script)
  /\ Finish(t, [ok |-> TRUE, v |-> got[t]])

Err(why) == [ok |-> FALSE, v |-> <<Text(why)>>]

RunError(t) ==
  /\ stage[t] = "run"
  /\ Len(got[t]) < Len(script) /\ Io(t).op = "trap"
  /\ Finish(t, Err("trap"))

Stage(io) == CASE io.op \in {"fetch", "all"} -> "fetching"
               [] io.op \in {"get", "put"} -> "kv open"
               [] io.op = "d1" -> "d1 open"

RunSuspends(t) ==
  /\ stage[t] = "run"
  /\ Len(got[t]) < Len(script) /\ Io(t).op # "trap"
  /\ stage' = [stage EXCEPT ![t] = Stage(Io(t))]
  /\ UNCHANGED <<script, got, flight, handle, results, finished, collected, storeVars, hostVars>>

(* from_continuation with the result; the next turn runs the agent again.  *)
ResumeWith(t, value) ==
  /\ got' = [got EXCEPT ![t] = Append(@, value)]
  /\ stage' = [stage EXCEPT ![t] = "run"]

-----------------------------------------------------------------------------
(* Client::new panics when it cannot set up TLS: the task ends, and its    *)
(* JoinError is the result.                                                *)
TaskPanics(t) ==
  /\ stage[t] = "fetching" /\ flight[t] = <<>>
  /\ TRUE \in Failing
  /\ Finish(t, Err("panic"))

(* Fetch: the responses come in any order, or a failure does, or a status  *)
(* and then no body; join_all gives them in the order of the requests.     *)
Failures == UNION {{Text("fetch error"), NoBody} : f \in Failing \ {FALSE}}

Respond(t) ==
  /\ stage[t] = "fetching"
  /\ \E i \in 0 .. Requests(Io(t)) - 1 :
       /\ \A k \in 1 .. Len(flight[t]) : flight[t][k].i # i
       /\ \E v \in {Page(t, Len(got[t]) + 1, i)} \cup Failures :
            flight' = [flight EXCEPT ![t] = Append(@, [i |-> i, v |-> v])]
  /\ UNCHANGED <<script, stage, got, handle, results, finished, collected, storeVars, hostVars>>

(* Mutant: the results are numbered in the order they came.                *)
JoinedAsTheyCame(arrivals) == [i \in 0 .. Len(arrivals) - 1 |-> arrivals[i + 1].v]

Joined(arrivals) ==
  [i \in 0 .. Len(arrivals) - 1 |->
     arrivals[CHOOSE k \in 1 .. Len(arrivals) : arrivals[k].i = i].v]

(* Mutant: a failed request is sent again until it succeeds.               *)
JoinAllRetries(t) ==
  /\ stage[t] = "fetching"
  /\ Len(flight[t]) = Requests(Io(t))
  /\ flight' = [flight EXCEPT ![t] = <<>>]
  /\ IF \E k \in 1 .. Len(flight[t]) : flight[t][k].v = Text("fetch error")
     THEN UNCHANGED <<stage, got>>
     ELSE ResumeWith(t, IF Io(t).op = "all" THEN Combined(Joined(flight[t]))
                        ELSE flight[t][1].v)
  /\ UNCHANGED <<script, handle, results, finished, collected, storeVars, hostVars>>

JoinAll(t) ==
  /\ stage[t] = "fetching"
  /\ Len(flight[t]) = Requests(Io(t))
  /\ ResumeWith(t, IF Io(t).op = "all" THEN Combined(Joined(flight[t]))
                   ELSE flight[t][1].v)
  /\ flight' = [flight EXCEPT ![t] = <<>>]
  /\ UNCHANGED <<script, handle, results, finished, collected, storeVars, hostVars>>

-----------------------------------------------------------------------------
(* KvGet, KvPut: open the namespace, one operation, drop the handle.  An   *)
(* open of a database that is open fails at once.                          *)
KvOpen(t) ==
  /\ stage[t] = "kv open"
  /\ IF kv_owner = Null
     THEN /\ kv_owner' = t
          /\ stage' = [stage EXCEPT ![t] = "kv access"]
          /\ UNCHANGED got
     ELSE /\ ResumeWith(t, Text("KV open error"))
          /\ UNCHANGED kv_owner
  /\ UNCHANGED <<script, flight, handle, results, finished, collected, kv, table, step, hostVars>>

KvAccess(t) ==
  /\ stage[t] = "kv access"
  /\ \/ /\ Io(t).op = "get"
        /\ handle' = [handle EXCEPT ![t] = IF Kv!Get(kv, Io(t).key) = Null THEN NullValue
                                           ELSE Text(Kv!Get(kv, Io(t).key))]
        /\ UNCHANGED kv
     \/ /\ Io(t).op = "put"
        /\ kv' = Kv!Put(kv, Io(t).key, Io(t).value)
        /\ handle' = [handle EXCEPT ![t] = Undefined]
     \/ /\ TRUE \in Failing
        /\ handle' = [handle EXCEPT ![t] = Text("KV error")]
        /\ UNCHANGED kv
  /\ stage' = [stage EXCEPT ![t] = "kv close"]
  /\ UNCHANGED <<script, got, flight, results, finished, collected, kv_owner, table, step, hostVars>>

(* Mutants: the namespace is one in memory, gone with its handle; the      *)
(* handle of an operation stays open.                                      *)
KvCloseInMemory(t) ==
  /\ stage[t] = "kv close"
  /\ kv_owner' = Null
  /\ kv' = Kv!EmptyKv
  /\ handle' = [handle EXCEPT ![t] = Null]
  /\ ResumeWith(t, handle[t])
  /\ UNCHANGED <<script, flight, results, finished, collected, table, step, hostVars>>

KvCloseLeaks(t) ==
  /\ stage[t] = "kv close"
  /\ handle' = [handle EXCEPT ![t] = Null]
  /\ ResumeWith(t, handle[t])
  /\ UNCHANGED <<script, flight, results, finished, collected, kv, kv_owner, table, step, hostVars>>

KvClose(t) ==
  /\ stage[t] = "kv close"
  /\ kv_owner' = Null
  /\ handle' = [handle EXCEPT ![t] = Null]
  /\ ResumeWith(t, handle[t])
  /\ UNCHANGED <<script, flight, results, finished, collected, kv, table, step, hostVars>>

-----------------------------------------------------------------------------
(* D1Query: open, WAL, and execute_batch on the new connection: statement  *)
(* by statement, each its own transaction, up to the first that fails, for *)
(* what it says or because the database stays busy.                        *)
D1Open(t) ==
  /\ stage[t] = "d1 open"
  /\ \/ stage' = [stage EXCEPT ![t] = "d1 exec"] /\ UNCHANGED got
     \/ TRUE \in Failing /\ ResumeWith(t, Text("D1 open error"))
  /\ step' = [step EXCEPT ![t] = 0]
  /\ UNCHANGED <<script, flight, handle, results, finished, collected, kv, kv_owner, table, hostVars>>

Tagged(sql, t) == IF sql.op = "insert" THEN <<ByAgent(t)>> ELSE <<>>

D1Step(t) ==
  LET batch == Io(t).batch
      stmt == batch[step[t] + 1]
  IN
  /\ stage[t] = "d1 exec"
  /\ step[t] < Len(batch)
  /\ \/ /\ D1!Accepts(stmt, Tagged(stmt, t))
        /\ table' = D1!After(table, stmt, Tagged(stmt, t))
        /\ step' = [step EXCEPT ![t] = @ + 1]
        /\ UNCHANGED <<stage, got>>
     \/ /\ ~D1!Accepts(stmt, Tagged(stmt, t)) \/ TRUE \in Failing
        /\ ResumeWith(t, Text("D1 error"))
        /\ UNCHANGED <<table, step>>
  /\ UNCHANGED <<script, flight, handle, results, finished, collected, kv, kv_owner, hostVars>>

(* Mutant: the last statement of a batch is not waited for.                *)
D1DoneEarly(t) ==
  /\ stage[t] = "d1 exec"
  /\ step[t] >= Len(Io(t).batch) - 1
  /\ ResumeWith(t, ChangesObject(0))
  /\ UNCHANGED <<script, flight, handle, results, finished, collected, storeVars, hostVars>>

(* exec reports 0 changes whatever the batch did.                          *)
D1Done(t) ==
  /\ stage[t] = "d1 exec"
  /\ step[t] = Len(Io(t).batch)
  /\ ResumeWith(t, ChangesObject(0))
  /\ UNCHANGED <<script, flight, handle, results, finished, collected, storeVars, hostVars>>

-----------------------------------------------------------------------------
(* Mutant: in the order they ended.                                        *)
InEndingOrder == [i \in 1 .. Cardinality(Agents) |-> results[finished[i]]]

(* dispatch_many: join_all over the spawned tasks, in the order of spawn.  *)
InSpawnOrder == [i \in 1 .. Cardinality(Agents) |-> results[i]]

Collect ==
  /\ collected = <<>>
  /\ \A t \in Agents : stage[t] = "done"
  /\ collected' = InSpawnOrder
  /\ UNCHANGED <<script, stage, got, flight, handle, results, finished, storeVars, hostVars>>

Returned == collected # <<>> /\ UNCHANGED ioVars

-----------------------------------------------------------------------------
(* A host thread with a handle on the same database: prepare, bind values  *)
(* one by one, execute in one of three ways, bind on and execute again.    *)
HostPrepare(h) ==
  /\ \E sql \in Statements : prepared' = [prepared EXCEPT ![h] = D1!Prepare(sql)]
  /\ prepared[h] = Null
  /\ UNCHANGED <<script, taskVars, storeVars, calls, told, silent>>

HostBind(h) ==
  /\ prepared[h] # Null
  /\ Len(prepared[h].bindings) <= prepared[h].sql.columns
  /\ prepared' = [prepared EXCEPT ![h] = D1!Bind(@, ByHost(h, Len(@.bindings) + 1))]
  /\ UNCHANGED <<script, taskVars, storeVars, calls, told, silent>>

HostExecutes(h, result, reported) ==
  /\ calls[h] < MaxCalls
  /\ calls' = [calls EXCEPT ![h] = @ + 1]
  /\ table' = result.table
  /\ told' = told + result.changes
  /\ silent' = silent + IF reported THEN 0 ELSE Len(result.table) - Len(table)
  /\ UNCHANGED <<script, taskVars, kv, kv_owner, step, prepared>>

HostRun(h) == prepared[h] # Null /\ HostExecutes(h, D1!Run(table, prepared[h]), TRUE)

HostQuery(h) ==
  /\ prepared[h] # Null
  /\ \E result \in {D1!All(table, prepared[h]), D1!First(table, prepared[h])} :
       HostExecutes(h, result, FALSE)

Host(h) == HostPrepare(h) \/ HostBind(h) \/ HostRun(h) \/ HostQuery(h)

-----------------------------------------------------------------------------
Turn(t) == RunDone(t) \/ RunError(t) \/ RunSuspends(t) \/ JoinAll(t)
             \/ KvOpen(t) \/ KvAccess(t) \/ KvClose(t)
             \/ D1Open(t) \/ D1Step(t) \/ D1Done(t)

IoNext == (\E t \in Agents : Turn(t) \/ Respond(t) \/ TaskPanics(t)) \/ Collect \/ Returned
          \/ (\E h \in Hosts : Host(h))

(* tokio polls every task that can go on.  Nothing makes a server answer:  *)
(* the client of execute_io has no timeout.                                *)
IoSpec == IoInit /\ [][IoNext]_ioVars
IoFairSpec == IoSpec /\ (\A t \in Agents : WF_ioVars(Turn(t))) /\ WF_ioVars(Collect)

-----------------------------------------------------------------------------
(* Every request of a parallel await is found under its own position in    *)
(* the combined object, whatever order the responses came in: the page at  *)
(* key i answers request i of that await of that agent.                    *)
CombinedByPosition ==
  \A t \in Agents, p \in 1 .. Len(script) :
    p <= Len(got[t]) /\ script[p].op = "all" =>
      \A i \in 0 .. script[p].count - 1 :
        got[t][p].entries[i] \in {Page(t, p, i), NoBody, Text("fetch error")}

(* An agent that stored a value, and was told so, does not later find the  *)
(* key empty: the handle it wrote through is gone, the value is not.       *)
StoredIsFound ==
  \A t \in Agents : \A p \in 1 .. Len(got[t]), q \in 1 .. Len(got[t]) :
    (/\ p < q /\ script[p].op = "put" /\ script[q].op = "get"
     /\ script[p].key = script[q].key /\ got[t][p] = Undefined)
      => got[t][q] # NullValue

(* An agent is refused a namespace only while another agent has it open:   *)
(* no handle outlives the operation it was opened for.                     *)
RefusedOnlyByOthers ==
  [][\A t \in Agents :
       stage[t] = "kv open" /\ Len(got'[t]) > Len(got[t])
         => \E u \in Agents \ {t} : stage[u] \in {"kv access", "kv close"}]_ioVars

HasValue(row, value) == \E n \in DOMAIN row : row[n] = value
AgentRows(t) == {i \in 1 .. Len(table) : HasValue(table[i], ByAgent(t))}
HostRows == {i \in 1 .. Len(table) : \A t \in Agents : ~HasValue(table[i], ByAgent(t))}

(* The inserts of the batches an agent was told have been executed.        *)
AnsweredBatches(t) == {p \in 1 .. Len(got[t]) : script[p].op = "d1" /\ got[t][p] = ChangesObject(0)}
Inserts(p) == {i \in 1 .. Len(script[p].batch) : script[p].batch[i].op = "insert"}
AnsweredInserts(t) == UNION {{p} \X Inserts(p) : p \in AnsweredBatches(t)}

(* The table is what agents and hosts were told, however their statements  *)
(* interleave.  The rows of all the batches of an agent that were answered *)
(* are in it.  The hosts are told of the rows they insert, unless they ask *)
(* for rows (all and first execute an insert and report nothing), and a    *)
(* row has the values one host bound, in the order it bound them, and NULL *)
(* for those it never bound.                                               *)
TableIsAsTold ==
  /\ \A t \in Agents : Cardinality(AnsweredInserts(t)) <= Cardinality(AgentRows(t))
  /\ told + silent = Cardinality(HostRows)
  /\ \A i \in HostRows :
       \E h \in Hosts, bound \in 0 .. Len(table[i]) :
         table[i] = [n \in 1 .. Len(table[i]) |-> IF n <= bound THEN ByHost(h, n) ELSE Null]

(* In the end every agent has ended, unless a request of it is never       *)
(* answered: none waits for ever for a database another one has open, or   *)
(* for another agent.  When all have, dispatch_many returns; a failing     *)
(* store or network never makes an agent fail: the results are, in the     *)
(* order of spawn, an error for agents that trap or panic, and no other.   *)
Unanswered(t) == stage[t] = "fetching" /\ Len(flight[t]) < Requests(Io(t))
Traps == \E p \in 1 .. Len(script) : script[p].op = "trap"
RightlyCollected ==
  /\ collected # <<>>
  /\ \A t \in Agents :
       IF collected[t].ok THEN ~Traps /\ collected[t].v = got[t]
       ELSE Traps \/ collected[t] = Err("panic")

AllCollected ==
  <>[](/\ \A t \in Agents : stage[t] = "done" \/ Unanswered(t)
       /\ (\A t \in Agents : stage[t] = "done") => RightlyCollected)
=============================================================================
