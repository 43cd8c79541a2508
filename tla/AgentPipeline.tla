--------------------------- MODULE AgentPipeline ---------------------------
(***************************************************************************)
(* Source to result: the programs of the VM include the ones the compiler  *)
(* makes of scripts.  The reference is what the script itself awaits: its  *)
(* awaits in the order JavaScript evaluates them.                          *)
(***************************************************************************)
EXTENDS WorkexVM, CpsCompiler

Flat == INSTANCE SequencesExt

Compiled == IsCompiled(prog)

(* JavaScript, for one expression: an await after the ones in its operand. *)
RECURSIVE Evaluated(_)
Evaluated(e) ==
  CASE e.is = "await" -> Append(Evaluated(e.arg), e.arg)
    [] e.is \in {"call", "new"} ->
         Evaluated(e.callee) \o Flat!FlattenSeq([i \in DOMAIN e.args |-> Evaluated(e.args[i])])
    [] e.is = "member" -> Evaluated(e.obj)
    [] OTHER -> <<>>

(* Whether no await stands inside another or under a member.               *)
RECURSIVE IsFlat(_)
IsFlat(e) ==
  CASE e.is = "await" -> Evaluated(e.arg) = <<>>
    [] e.is \in {"call", "new"} -> IsFlat(e.callee) /\ \A i \in DOMAIN e.args : IsFlat(e.args[i])
    [] e.is = "member" -> Evaluated(e.obj) = <<>>
    [] OTHER -> TRUE

Expressions(s) ==
  CASE s.is = "var" -> [i \in DOMAIN s.decls |-> s.decls[i].init]
    [] s.is \in {"return", "expr"} -> <<s.arg>>
    [] OTHER -> <<>>

BodyExpressions(f) == Flat!FlattenSeq([i \in DOMAIN f.body |-> Expressions(f.body[i])])

(* The scripts the compiler can be right about: they parse, one function   *)
(* is async, it has no nested blocks, and its awaits are flat.             *)
Straight(script) ==
  LET fs == AsyncFunctions(script) IN
  /\ script.parses
  /\ Len(fs) = 1
  /\ \A i \in DOMAIN fs[1].body : fs[1].body[i].is # "block"
  /\ \A i \in DOMAIN BodyExpressions(fs[1]) : IsFlat(BodyExpressions(fs[1])[i])

ScriptAwaits(script) ==
  LET es == BodyExpressions(AsyncFunctions(script)[1]) IN
  Flat!FlattenSeq([i \in DOMAIN es |-> Evaluated(es[i])])

(* What the outside must be asked for an awaited operand.                  *)
AskedFor(operand) ==
  LET c == Classify(operand) IN
  [type |-> IF c.io = "Other" THEN "Fetch" ELSE c.io,
   arg |-> IF c.io = "Other" THEN "" ELSE c.arg, value |-> c.value]

(* A compiled agent suspends once for each await of its script, in their   *)
(* order, with the call that is awaited: the n-th suspension asks for what *)
(* the n-th await evaluates, whatever the answers were.                    *)
SuspendsAsWritten ==
  status = "suspended" /\ Compiled /\ Straight(prog.source) =>
    /\ suspensions <= Len(ScriptAwaits(prog.source))
    /\ cont.requests = <<AskedFor(ScriptAwaits(prog.source)[suspensions])>>

(* A compiled agent that ends has awaited everything, and answers 200 with *)
(* the last value it was resumed with, "ok" if it never suspended, as long *)
(* as the registers of a frame suffice.                                    *)
AnswersLastResult ==
  status = "done" /\ Compiled =>
    LET points == Transform(prog.source).points IN
    /\ suspensions = Len(points)
    /\ outcome[2].status = Num(200)
    /\ outcome[2].body = IF points = <<>> THEN Str("ok") ELSE full[0]
=============================================================================
