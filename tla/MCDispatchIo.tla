---------------------------- MODULE MCDispatchIo ----------------------------
(* Modules for the agents: parallel requests, a value written and read in  *)
(* turn, batches of SQL with a statement that fails, and a trap.           *)
EXTENDS DispatchIo

Fetch == [op |-> "fetch"]
All(n) == [op |-> "all", count |-> n]
Get(k) == [op |-> "get", key |-> k]
Put(k, v) == [op |-> "put", key |-> k, value |-> v]
Sql(batch) == [op |-> "d1", batch |-> batch]
Insert == [op |-> "insert", columns |-> 1]
Select == [op |-> "select", columns |-> 0]
Bad == [op |-> "bad", columns |-> 0]
MCStatements == {[op |-> "insert", columns |-> 2], Select}
Trap == [op |-> "trap"]

MCScripts ==
  {<<All(2)>>, <<Fetch, Get("l")>>, <<Put("k", "a"), Get("k")>>,
   <<Get("k"), Put("k", "a"), Put("k", "b")>>, <<Sql(<<Insert, Insert>>), Sql(<<Bad, Insert>>)>>,
   <<Sql(<<Insert, Select>>), Trap>>}
=============================================================================
