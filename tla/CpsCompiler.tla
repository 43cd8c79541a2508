---------------------------- MODULE CpsCompiler ----------------------------
(***************************************************************************)
(* compile_worker (workex-compiler): the CPS transformer, which finds the  *)
(* awaits of a worker (cps/transform.rs), and the bytecode emitter, which  *)
(* makes a chain of suspensions of them (emit.rs).  The code it yields is  *)
(* in the form WorkexVM executes.                                          *)
(*                                                                         *)
(* A script is its parse: whether it parses, and its top-level statements. *)
(* An expression is an await, a call, a new, a member, a name or other; a  *)
(* string expression carries the text of its span, which is what the       *)
(* compiler keeps of it.                                                   *)
(***************************************************************************)
EXTENDS Integers, Sequences

LOCAL INSTANCE SequencesExt

CONSTANTS MaxReg,   (* the last register: u8::MAX in the code              *)
          MaskWidth (* registers a live mask can name: 64 in the code      *)

-----------------------------------------------------------------------------
(* The transformer.                                                        *)
IsKv(e) == e.is = "member" /\ e.obj.is = "name" /\ e.obj.kv

ArgText(call, i) == IF i <= Len(call.args) THEN call.args[i].text ELSE ""

(* classify_async_call                                                     *)
Classify(e) ==
  LET other == [io |-> "Other", arg |-> "<other>", value |-> ""] IN
  IF e.is # "call" THEN other
  ELSE CASE e.callee.is = "name" /\ e.callee.text = "fetch" ->
              [io |-> "Fetch", arg |-> ArgText(e, 1), value |-> ""]
         [] IsKv(e.callee) /\ e.callee.prop = "get" ->
              [io |-> "KvGet", arg |-> ArgText(e, 1), value |-> ""]
         [] IsKv(e.callee) /\ e.callee.prop = "put" ->
              [io |-> "KvPut", arg |-> ArgText(e, 1), value |-> ArgText(e, 2)]
         [] OTHER -> other

(* collect_awaits_in_expr: an await before the awaits of its argument, and *)
(* none that is inside a member, an object, an operator and so on.         *)
RECURSIVE Awaits(_)
Awaits(e) ==
  CASE e.is = "await" -> <<Classify(e.arg)>> \o Awaits(e.arg)
    [] e.is \in {"call", "new"} ->
         Awaits(e.callee) \o FlattenSeq([i \in DOMAIN e.args |-> Awaits(e.args[i])])
    [] OTHER -> <<>>

(* Mutant: an await that is a statement of its own is not a suspension.    *)
StmtPointsSome(s) ==
  CASE s.is = "var" -> FlattenSeq([i \in DOMAIN s.decls |-> Awaits(s.decls[i].init)])
    [] s.is = "return" -> Awaits(s.arg)
    [] OTHER -> <<>>

(* walk_body_stmt: declarations, returns and expression statements.        *)
StmtPoints(s) ==
  CASE s.is = "var" -> FlattenSeq([i \in DOMAIN s.decls |-> Awaits(s.decls[i].init)])
    [] s.is \in {"return", "expr"} -> Awaits(s.arg)
    [] OTHER -> <<>>

StmtVars(s) ==
  IF s.is = "var" THEN [i \in DOMAIN s.decls |-> s.decls[i].name] ELSE <<>>

(* walk_statement: the async functions among the declarations and among    *)
(* the properties of the default export, all into one list.                *)
AsyncFunctions(script) ==
  FlattenSeq([i \in DOMAIN script.body |->
    LET s == script.body[i] IN
    CASE s.is = "export" -> SelectSeq(s.props, LAMBDA f : f.is = "function" /\ f.async)
      [] s.is = "function" -> IF s.async THEN <<s>> ELSE <<>>
      [] OTHER -> <<>>])

(* analyze_async_function                                                  *)
FunctionPoints(f) == FlattenSeq([i \in DOMAIN f.body |-> StmtPoints(f.body[i])])
FunctionVars(f) == f.params \o FlattenSeq([i \in DOMAIN f.body |-> StmtVars(f.body[i])])

Transform(script) ==
  LET fs == IF script.parses THEN AsyncFunctions(script) ELSE <<>> IN
  [points |-> FlattenSeq([i \in DOMAIN fs |-> FunctionPoints(fs[i])]),
   all_vars |-> FlattenSeq([i \in DOMAIN fs |-> FunctionVars(fs[i])])]

(* compute_liveness: the leading names without "__", and one more for each *)
(* suspension before this one.                                             *)
LiveVars(all_vars, i) ==
  LET dunder == {k \in DOMAIN all_vars : all_vars[k].dunder}
      n_params == IF dunder = {} THEN Len(all_vars)
                  ELSE (CHOOSE k \in dunder : \A j \in dunder : k <= j) - 1
      defined == IF n_params + i < Len(all_vars) THEN n_params + i ELSE Len(all_vars)
  IN  {all_vars[k] : k \in 1 .. defined}

-----------------------------------------------------------------------------
(* The emitter.                                                            *)
(* alloc_reg: the register of the k-th allocation, counted from 0, which   *)
(* is next_reg after k of them too: next_reg saturates.                    *)
Reg(k) == IF k < MaxReg THEN k ELSE MaxReg

(* assign_registers: a name declared twice keeps its last register.        *)
VarReg(all_vars, v) ==
  Reg((CHOOSE k \in DOMAIN all_vars :
         all_vars[k] = v /\ \A j \in DOMAIN all_vars : all_vars[j] = v => j <= k) - 1)

LiveMask(all_vars, i) ==
  {VarReg(all_vars, v) : v \in LiveVars(all_vars, i)} \cap (0 .. MaskWidth - 1)

LoadConst(r, v) == [op |-> "Load", dst |-> r, value |-> v]
LoadGlobal(r) == [op |-> "Nop", dst |-> r]

(* emit_io_args                                                            *)
IoArgs(point) ==
  <<LoadConst(0, <<"str", point.arg>>)>>
    \o IF point.io = "KvPut" THEN <<LoadConst(1, <<"str", point.value>>)>> ELSE <<>>

(* One link of emit_suspend_chain; result is the register of the value.    *)
Link(t, i, result) ==
  IoArgs(t.points[i + 1])
    \o <<[op |-> "Suspend", live_regs |-> LiveMask(t.all_vars, i),
          io_type |-> t.points[i + 1].io],
         [op |-> "Move", dst |-> result, src |-> 0]>>

ResponseFrom(body, k) ==
  <<LoadConst(Reg(k), <<"num", 200>>),
    [op |-> "NewObj", dst |-> Reg(k + 1)],
    [op |-> "WxResp", dst |-> Reg(k + 2), body |-> body,
     status |-> Reg(k), headers |-> Reg(k + 1)],
    [op |-> "Return", val |-> Reg(k + 2)]>>

(* emit_sync_worker; n is the number of registers given to variables.      *)
SyncWorker(n) ==
  <<LoadConst(Reg(n), <<"str", "ok">>)>> \o ResponseFrom(Reg(n), n + 1)

(* emit_response_build takes the register below next_reg for the body.     *)
(* Mutant: next_reg itself.                                                *)
LastResultAfter(k) == Reg(k)

LastResult(k) == Reg(k) - 1

Chain(t) ==
  LET n == Len(t.all_vars) IN
  FlattenSeq([i \in DOMAIN t.points |-> Link(t, i - 1, Reg(n + 1 + i))])

AsyncWorker(t) ==
  LET n == Len(t.all_vars)
      used == n + 2 + Len(t.points)
  IN  <<LoadGlobal(Reg(n)), LoadGlobal(Reg(n + 1))>>
        \o Chain(t) \o ResponseFrom(LastResult(used), used)

(* resume_table: for each await the index, from 0, of the instruction that *)
(* follows its Suspend.                                                    *)
SuspendsUpTo(code, i) == Len(SelectSeq(SubSeq(code, 1, i), LAMBDA c : c.op = "Suspend"))

ResumeAt(code, id) ==
  CHOOSE i \in DOMAIN code : code[i].op = "Suspend" /\ SuspendsUpTo(code, i) = id + 1

(* emit and compile_worker.                                                *)
Compile(script) ==
  LET t == Transform(script)
      code == IF t.points = <<>> THEN SyncWorker(Len(t.all_vars)) ELSE AsyncWorker(t)
  IN  [code |-> code, source |-> script,
       resume_table |-> [id \in 0 .. Len(t.points) - 1 |-> ResumeAt(code, id)]]

(* The registers the emitter hands out for a script.                       *)
Allocations(script) ==
  LET t == Transform(script) IN
  Len(t.all_vars) + IF t.points = <<>> THEN 4 ELSE 5 + Len(t.points)
=============================================================================
