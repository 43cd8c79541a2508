---------------------------- MODULE D1Database ----------------------------
(***************************************************************************)
(* The SQLite database behind a D1 binding (workex-runtime/src/d1.rs): the *)
(* statements of a batch, and a prepared statement with its bound values.  *)
(* A table is the sequence of its rows; a row is the sequence of its       *)
(* values.  Statements are abstract: "insert" adds a row of its parameters,*)
(* "select" returns the rows, "bad" does not compile.  What SQLite itself  *)
(* does with them is external.                                             *)
(***************************************************************************)
EXTENDS Naturals, Sequences

CONSTANT Null      (* SQL NULL and JsValue::Null                            *)

(* SQLite: the row an insert of n columns makes of the bound values; a     *)
(* parameter that was never bound is NULL, one too many is an error.       *)
RowOf(n, bound) == [i \in 1 .. n |-> IF i <= Len(bound) THEN bound[i] ELSE Null]

Accepts(stmt, bound) == stmt.op # "bad" /\ Len(bound) <= stmt.columns

Changes(stmt) == IF stmt.op = "insert" THEN 1 ELSE 0

After(table, stmt, bound) ==
  IF stmt.op = "insert" THEN Append(table, RowOf(stmt.columns, bound)) ELSE table

-----------------------------------------------------------------------------
(* D1PreparedStatement: prepare, bind, and the calls that execute it, each *)
(* under the mutex of the connection from its first line to its last.      *)
Prepare(sql) == [sql |-> sql, bindings |-> <<>>]

Bind(stmt, value) == [stmt EXCEPT !.bindings = Append(@, value)]

(* run: INSERT and the like, with the rows changed.                        *)
Run(table, s) ==
  IF ~Accepts(s.sql, s.bindings) THEN [table |-> table, ok |-> FALSE, changes |-> 0]
  ELSE [table |-> After(table, s.sql, s.bindings), ok |-> TRUE,
        changes |-> Changes(s.sql)]

(* all steps the statement to its end, so an insert inserts here too, but  *)
(* it returns no row and its meta says that nothing was changed.           *)
All(table, s) ==
  IF ~Accepts(s.sql, s.bindings)
  THEN [table |-> table, ok |-> FALSE, rows |-> <<>>, changes |-> 0]
  ELSE [table |-> After(table, s.sql, s.bindings), ok |-> TRUE, changes |-> 0,
        rows |-> IF s.sql.op = "select" THEN table ELSE <<>>]

First(table, s) ==
  LET all == All(table, s) IN
  [all EXCEPT !.rows = IF @ = <<>> THEN <<>> ELSE <<Head(@)>>]
=============================================================================
