---------------------------- MODULE HybridWorker ----------------------------
(***************************************************************************)
(* From a script to native functions in a context: analyze_worker          *)
(* (workex-compiler/src/hybrid.rs) decides each function of the script in  *)
(* turn, inject_native_functions (workex-runtime/src/engine.rs) overrides  *)
(* the functions of the context.  On the path "pool" the analysis gets the *)
(* source the engine pool has prepared, as WarmContext::new passes it; on  *)
(* the path "original" the source its parameter is named for, as the tests *)
(* of hybrid.rs pass it.                                                   *)
(***************************************************************************)
EXTENDS TypedCompiler, FiniteSets

CONSTANT Scripts        (* [parses, body] of the scripts                   *)

VARIABLES script, path, build,
          seen,         (* the script as analyze_worker parses it          *)
          at,           (* statements analysed, then strategies injected   *)
          strategies,
          injected,     (* name -> index of the strategy that overrides it *)
          status        (* analyzing, injecting, ready, panicked           *)

vars == <<script, path, build, seen, at, strategies, injected, status>>

-----------------------------------------------------------------------------
(* engine.rs: strip_ts_annotations, of function declarations and of the    *)
(* methods of an exported object, and prepare_source.                      *)
StripFunction(f) ==
  IF f = None THEN f
  ELSE [f EXCEPT !.ret = None,
                 !.params = [i \in DOMAIN @ |-> [@[i] EXCEPT !.annotation = None]]]

Strip(s) ==
  CASE s.is = "function" -> StripFunction(s)
    [] s.is = "export object" ->
         [s EXCEPT !.props = [i \in DOMAIN @ |-> [@[i] EXCEPT !.f = StripFunction(@)]]]
    [] OTHER -> s

Exports == {"export function", "export object", "export other"}

(* The text "export default" becomes "var __workex_mod__ ="; where there   *)
(* is none, that goes before the first statement.                          *)
PrepareSource(s) ==
  LET exported == {i \in DOMAIN s.body : s.body[i].is \in Exports}
      replaced == IF exported = {} THEN {1} ELSE exported
  IN  IF ~s.parses THEN s
      ELSE [s EXCEPT !.body = [i \in DOMAIN s.body |->
              IF i \in replaced THEN [is |-> "var"] ELSE Strip(s.body[i])]]

-----------------------------------------------------------------------------
Init ==
  /\ script \in Scripts
  /\ path \in {"pool", "original"}
  /\ build \in [debug : BOOLEAN, strict : BOOLEAN]
  /\ seen = IF path = "pool" THEN PrepareSource(script) ELSE script
  /\ at = 0
  /\ strategies = <<>>
  /\ injected = [n \in {} |-> 0]
  /\ status = "analyzing"

Declares(s) == s.is = "function" /\ s.name # None

(* analyze_worker: one turn of its loop over the statements.  A panic of   *)
(* the compiler is one of the caller.                                      *)
AnalyzeFunction ==
  /\ status = "analyzing" /\ seen.parses /\ at < Len(seen.body)
  /\ Declares(seen.body[at + 1])
  /\ LET f == Lower(seen.body[at + 1]) IN
     IF Panics(f, build)
     THEN status' = "panicked" /\ UNCHANGED <<strategies, at>>
     ELSE /\ strategies' = Append(strategies, Strategy(f, build))
          /\ at' = at + 1
          /\ UNCHANGED status
  /\ UNCHANGED <<script, path, build, seen, injected>>

AnalyzeOther ==
  /\ status = "analyzing" /\ seen.parses /\ at < Len(seen.body)
  /\ ~Declares(seen.body[at + 1])
  /\ at' = at + 1
  /\ UNCHANGED <<script, path, build, seen, strategies, injected, status>>

(* The analysis returns: at the end, or at once for a parse error.         *)
Analyzed ==
  /\ status = "analyzing"
  /\ seen.parses => at = Len(seen.body)
  /\ status' = "injecting"
  /\ at' = 0
  /\ UNCHANGED <<script, path, build, seen, strategies, injected>>

(* inject_native_functions: a native strategy overrides the global of its  *)
(* name, also the one of an earlier function of that name.                 *)
Inject ==
  /\ status = "injecting" /\ at < Len(strategies)
  /\ at' = at + 1
  /\ LET s == strategies[at + 1] IN
     injected' = IF s.native
                 THEN [n \in DOMAIN injected \cup {s.name} |->
                         IF n = s.name THEN at + 1 ELSE injected[n]]
                 ELSE injected
  /\ UNCHANGED <<script, path, build, seen, strategies, status>>

InjectDone ==
  /\ status = "injecting" /\ at = Len(strategies)
  /\ status' = "ready"
  /\ UNCHANGED <<script, path, build, seen, at, strategies, injected>>

Ready == status \in {"ready", "panicked"} /\ UNCHANGED vars

Next == AnalyzeFunction \/ AnalyzeOther \/ Analyzed \/ Inject \/ InjectDone \/ Ready

Spec == Init /\ [][Next]_vars

-----------------------------------------------------------------------------
(* What the wrapper of an injected function returns for a call with all    *)
(* arguments: it passes up to two numbers and reads a number.              *)
Wrapper(s) == IF Len(s.param_types) <= 2 THEN s.term ELSE <<"const", 0>>

(* JavaScript: what an expression over numbers means.                      *)
RECURSIVE Meaning(_, _)
Meaning(e, params) ==
  CASE e.is = "num" -> <<"const", e.v>>
    [] e.is = "name" -> <<"param", (CHOOSE i \in DOMAIN params : params[i].name = e.name) - 1>>
    [] e.is = "bin" -> <<e.op, Meaning(e.l, params), Meaning(e.r, params)>>
    [] e.is = "neg" -> <<"-", Meaning(e.arg, params)>>
    [] e.is = "paren" -> Meaning(e.arg, params)
    [] OTHER -> <<"js", e>>

(* The expressions the typed compiler has code for.                        *)
RECURSIVE Supported(_, _)
Supported(e, params) ==
  CASE e.is = "num" -> TRUE
    [] e.is = "name" -> \E i \in DOMAIN params : params[i].name = e.name
    [] e.is = "bin" -> /\ e.op \in (Arithmetic \cup Comparison) \ {"%"}
                       /\ Supported(e.l, params) /\ Supported(e.r, params)
    [] e.is \in {"neg", "paren"} -> Supported(e.arg, params)
    [] OTHER -> FALSE

(* A function of at most two numbers to a number that ends in the return   *)
(* of a supported expression.                                              *)
Numeric(f) ==
  /\ Len(f.params) <= 2
  /\ \A i, j \in DOMAIN f.params : f.params[i].name = f.params[j].name => i = j
  /\ \A i \in DOMAIN Lower(f).params : Lower(f).params[i].ty = "Number"
  /\ Lower(f).return_type = "Number"
  /\ \A i \in DOMAIN f.body : f.body[i].is = IF i = Len(f.body) THEN "return" ELSE "expr"
  /\ f.body # <<>> => f.body[Len(f.body)].arg # None /\ Supported(f.body[Len(f.body)].arg, f.params)

Declarations(body) == SelectSeq(body, Declares)

-----------------------------------------------------------------------------
(* A numeric function computes natively what it means in JavaScript: types,*)
(* lowering, code generation and the wrapper together change nothing, so   *)
(* overriding the global is not observable.                                *)
NativeMeansSame ==
  \A i \in DOMAIN strategies :
    LET f == Declarations(seen.body)[i] IN
    strategies[i].native /\ Numeric(f) =>
      Wrapper(strategies[i]) = Meaning(f.body[Len(f.body)].arg, f.params)
=============================================================================
