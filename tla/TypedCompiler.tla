--------------------------- MODULE TypedCompiler ---------------------------
(***************************************************************************)
(* The typed half of workex-compiler as operators on parsed TypeScript:    *)
(* types and lowering (hir.rs, lower.rs), the Cranelift code of a function *)
(* (codegen.rs), and which functions become native (hybrid.rs).            *)
(*                                                                         *)
(* Values are terms: <<"param", i>>, <<"const", v>>, <<op, a, b>> and      *)
(* <<"-", a>>; two computations agree when their terms are equal.  A term  *)
(* that no typed function can produce is <<"js", expression>>.             *)
(***************************************************************************)
EXTENDS Integers, Sequences

CONSTANT None           (* no annotation, no name                          *)

Arithmetic == {"+", "-", "*", "/", "%"}
Comparison == {"==", "!=", "<", "<=", ">", ">="}

-----------------------------------------------------------------------------
(* hir.rs: Type::from_annotation, and resolve_type_annotation, which finds *)
(* the name of the type only behind ": ".                                  *)
FromAnnotation(text) ==
  CASE text = "number" -> "Number"
    [] text = "string" -> "String"
    [] text \in {"boolean", "bool"} -> "Boolean"
    [] text = "void" -> "Void"
    [] OTHER -> "Any"

Resolve(annotation, missing) ==
  IF annotation = None THEN missing
  ELSE IF annotation.spaced THEN FromAnnotation(annotation.text) ELSE "Any"

LowerParams(f) ==
  [i \in DOMAIN f.params |-> [name |-> IF f.params[i].name = None THEN "_param"
                                       ELSE f.params[i].name,
                              ty |-> Resolve(f.params[i].annotation, "Any")]]

(* resolve_binop_type                                                      *)
BinopType(op, l, r) ==
  IF op \in Comparison THEN "Boolean"
  ELSE IF l = "Number" /\ r = "Number" THEN "Number"
  ELSE IF "String" \in {l, r} THEN "String" ELSE "Any"

(* lower_expr: a name that is no parameter becomes parameter 0 of unknown  *)
(* type, an operator that is not supported becomes +, any other expression *)
(* becomes the number 0.                                                   *)
HirNumber(v) == [is |-> "num", v |-> v, ty |-> "Number"]

ParamNamed(params, name) == {i \in DOMAIN params : params[i].name = name}

LowerName(name, params) ==
  LET found == ParamNamed(params, name) IN
  IF found = {} THEN [is |-> "ident", index |-> 0, ty |-> "Any"]
  ELSE LET i == CHOOSE k \in found : \A j \in found : k <= j IN
       [is |-> "ident", index |-> i - 1, ty |-> params[i].ty]

RECURSIVE LowerExpr(_, _)
LowerExpr(e, params) ==
  CASE e.is = "num" -> HirNumber(e.v)
    [] e.is = "str" -> [is |-> "str", ty |-> "String"]
    [] e.is = "bool" -> [is |-> "bool", b |-> e.b, ty |-> "Boolean"]
    [] e.is = "name" -> LowerName(e.name, params)
    [] e.is = "bin" ->
         LET l == LowerExpr(e.l, params)
             r == LowerExpr(e.r, params)
             op == IF e.op \in Arithmetic \cup Comparison THEN e.op ELSE "+"
         IN  [is |-> "bin", op |-> op, l |-> l, r |-> r, ty |-> BinopType(op, l.ty, r.ty)]
    [] e.is = "neg" ->
         LET x == LowerExpr(e.arg, params) IN [is |-> "neg", arg |-> x, ty |-> x.ty]
    [] e.is = "paren" -> LowerExpr(e.arg, params)
    [] OTHER -> HirNumber(0)

(* lower_body: returns and expression statements; the others are skipped.  *)
LowerBody(body, params) ==
  LET kept == SelectSeq(body, LAMBDA s : s.is \in {"return", "expr"}) IN
  [i \in DOMAIN kept |->
     [is |-> kept[i].is,
      e |-> IF kept[i].arg = None THEN HirNumber(0) ELSE LowerExpr(kept[i].arg, params)]]

(* lower_function                                                          *)
Lower(f) ==
  LET params == LowerParams(f) IN
  [name |-> f.name, params |-> params, return_type |-> Resolve(f.ret, "Void"),
   body |-> LowerBody(f.body, params)]

-----------------------------------------------------------------------------
(* codegen.rs, for a function that returns something (analyze_worker asks   *)
(* for no other); build says whether it is a debug build, and whether the  *)
(* verifier is strict about extensions.  Code is the type and the term of  *)
(* its value, and its fault: "rejected" (the verifier of Cranelift, which  *)
(* is external: operands of a wrong type) or "panic" (a variable that was  *)
(* never declared).                                                        *)
ClType(ty) == CASE ty = "Number" -> "F64"
                [] ty \in {"Boolean", "Void"} -> "I8"
                [] ty \in {"String", "Any"} -> "I64"

Worst(faults) == CASE "panic" \in faults -> "panic"
                   [] "rejected" \in faults -> "rejected"
                   [] OTHER -> "none"

Const(cl, v) == [ty |-> cl, term |-> <<"const", v>>, fault |-> "none"]

(* Mutant: the operands are exchanged.                                     *)
CompileBinopSwapped(op, l, r, result_ty, operand_ty, strict) ==
  LET typed == l.ty = "F64" /\ r.ty = "F64" /\ ~(strict /\ op \in Comparison)
      faults == {l.fault, r.fault}
  IN  IF operand_ty = "Number" /\ op # "%"
      THEN [ty |-> IF op \in Comparison THEN "I8" ELSE "F64", term |-> <<op, r.term, l.term>>,
            fault |-> Worst(faults \cup IF typed THEN {} ELSE {"rejected"})]
      ELSE [ty |-> IF result_ty = "Number" THEN "F64" ELSE "I8",
            term |-> <<"const", 0>>, fault |-> Worst(faults)]

(* compile_binop: chosen by the type of the left operand; everything but   *)
(* the arithmetic and comparison of numbers is zero, the modulus too.  The *)
(* result of a comparison is extended from I8 to I8, which a strict        *)
(* verifier refuses.                                                       *)
CompileBinop(op, l, r, result_ty, operand_ty, strict) ==
  LET typed == l.ty = "F64" /\ r.ty = "F64" /\ ~(strict /\ op \in Comparison)
      faults == {l.fault, r.fault}
  IN  IF operand_ty = "Number" /\ op # "%"
      THEN [ty |-> IF op \in Comparison THEN "I8" ELSE "F64", term |-> <<op, l.term, r.term>>,
            fault |-> Worst(faults \cup IF typed THEN {} ELSE {"rejected"})]
      ELSE [ty |-> IF result_ty = "Number" THEN "F64" ELSE "I8",
            term |-> <<"const", 0>>, fault |-> Worst(faults)]

RECURSIVE CompileExpr(_, _, _)
CompileExpr(e, params, strict) ==
  CASE e.is = "num" -> Const("F64", e.v)
    [] e.is = "bool" -> [Const("I8", 0) EXCEPT !.term = <<"bool", e.b>>]
    [] e.is = "str" -> Const("I64", 0)
    [] e.is = "ident" ->
         [ty |-> IF e.index < Len(params) THEN ClType(params[e.index + 1].ty) ELSE "F64",
          term |-> <<"param", e.index>>,
          fault |-> IF e.index < Len(params) THEN "none" ELSE "panic"]
    [] e.is = "bin" ->
         CompileBinop(e.op, CompileExpr(e.l, params, strict), CompileExpr(e.r, params, strict),
                      e.ty, e.l.ty, strict)
    [] e.is = "neg" ->
         LET x == CompileExpr(e.arg, params, strict) IN
         IF e.ty = "Number" THEN [x EXCEPT !.term = <<"-", @>>] ELSE x

(* compile_function: what the first return yields, or a default.  Code     *)
(* after a return goes into a block that is filled, a panic of the builder *)
(* in a debug build and a fault the verifier finds in a release build.     *)
CompileFunction(f, build) ==
  LET code == [i \in DOMAIN f.body |-> CompileExpr(f.body[i].e, f.params, build.strict)]
      returns == {i \in DOMAIN f.body : f.body[i].is = "return"}
      first == CHOOSE i \in returns : \A j \in returns : i <= j
      value == IF returns = {} THEN Const("F64", 0) ELSE code[first]
      overfull == returns # {} /\ first < Len(f.body)
      fault == Worst({code[i].fault : i \in DOMAIN code}
                       \cup (IF overfull THEN {IF build.debug THEN "panic" ELSE "rejected"} ELSE {})
                       \cup (IF value.ty # ClType(f.return_type) THEN {"rejected"} ELSE {}))
  IN  [term |-> value.term, outcome |-> IF fault = "none" THEN "native" ELSE fault]

-----------------------------------------------------------------------------
(* hybrid.rs: a function is a candidate when nothing in its signature is   *)
(* dynamic and it has a body.                                              *)
AllTyped(f) ==
  /\ \A i \in DOMAIN f.params : f.params[i].ty # "Any"
  /\ f.return_type \notin {"Any", "Void"}
  /\ f.body # <<>>

Strategy(f, build) ==
  LET compiled == CompileFunction(f, build) IN
  [name |-> f.name,
   param_types |-> [i \in DOMAIN f.params |-> f.params[i].ty], return_type |-> f.return_type,
   native |-> AllTyped(f) /\ compiled.outcome = "native",
   term |-> IF AllTyped(f) THEN compiled.term ELSE <<"js", f.name>>]

Panics(f, build) == AllTyped(f) /\ CompileFunction(f, build).outcome = "panic"

=============================================================================
