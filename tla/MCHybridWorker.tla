--------------------------- MODULE MCHybridWorker ---------------------------
(* Scripts: one function over each signature and each small body, and      *)
(* scripts of several statements as in the tests of hybrid.rs and lib.rs.  *)
EXTENDS HybridWorker

Ann(t) == [text |-> t, spaced |-> TRUE]
Tight(t) == [text |-> t, spaced |-> FALSE]
Number == Ann("number")

Num(v) == [is |-> "num", v |-> v]
Name(n) == [is |-> "name", name |-> n]
Bin(op, l, r) == [is |-> "bin", op |-> op, l |-> l, r |-> r]
Neg(e) == [is |-> "neg", arg |-> e]
Paren(e) == [is |-> "paren", arg |-> e]
Str == [is |-> "str"]
True == [is |-> "bool", b |-> TRUE]
Call == [is |-> "call"]

Ret(e) == [is |-> "return", arg |-> e]
Do(e) == [is |-> "expr", arg |-> e]
If == [is |-> "if", arg |-> None]

Param(n, a) == [name |-> n, annotation |-> a]
Fn(name, params, ret, body) ==
  [is |-> "function", name |-> name, params |-> params, ret |-> ret, async |-> FALSE, body |-> body]

Leaves == {Num(2), Name("a"), Name("b"), Name("x"), Str, True, Call}
Exprs == Leaves
           \cup {Bin(op, l, r) : op \in {"+", "-", "/", "%", "<", "**"}, l \in Leaves, r \in {Name("b"), Name("x"), Num(2), True}}
           \cup {Neg(l) : l \in Leaves}
           \cup {Bin("*", Paren(Bin(op, Name("a"), Name("b"))), Neg(Name("b"))) : op \in {"+", "==", "%"}}

Signatures == {<<>>, <<Param("a", Number)>>, <<Param("a", Number), Param("b", Number)>>,
               <<Param("a", Ann("boolean")), Param("b", Number)>>, <<Param("a", Ann("string"))>>,
               <<Param("a", Tight("number"))>>, <<Param(None, Number), Param("b", None)>>,
               <<Param("a", Number), Param("b", Number), Param("x", Number)>>}

Returns == {Number, Ann("bool"), Ann("string"), Ann("void"), Ann("Response"), None}

One(f) == [parses |-> TRUE, body |-> <<f>>]

Bodies == {<<Ret(e)>> : e \in Exprs} 
OddBodies == {<<>>, <<Ret(None)>>, <<Do(Call)>>, <<If, Ret(Num(2))>>, <<Do(Bin("+", Num(2), True)), Ret(Num(2))>>,
              <<Do(Num(2)), Ret(Name("a"))>>, <<Ret(Name("a")), Do(Num(2))>>}

Add == Fn("add", <<Param("a", Number), Param("b", Number)>>, Number, <<Ret(Bin("+", Name("a"), Name("b")))>>)
Sub == Fn("add", <<Param("a", Number), Param("b", Number)>>, Number, <<Ret(Bin("-", Name("a"), Name("b")))>>)
Greet == Fn("greet", <<Param("n", None)>>, None, <<Ret(Bin("+", Str, Name("n")))>>)
Import == [is |-> "import", source |-> "lib", specifiers |-> <<"h">>]
Export(props) == [is |-> "export object", props |-> props]
Handler(k, f) == [key |-> k, f |-> f]

MCScripts ==
  {One(Fn("f", s, r, b)) : s \in Signatures, r \in {Number, Ann("bool")}, b \in Bodies}
    \cup {One(Fn("f", s, r, b)) : s \in Signatures, r \in Returns, b \in OddBodies}
    \cup {[parses |-> p, body |-> b] : p \in BOOLEAN, b \in {
            <<Add, Greet, Sub, Export(<<Handler("fetch", Greet), Handler(None, None), Handler("limit", None)>>)>>,
            <<Import, Fn(None, <<>>, None, <<>>), Add, [is |-> "export function", f |-> Greet]>>,
            <<Greet, Add, [is |-> "export other"]>>,
            <<Add, [is |-> "export function", f |-> Fn(None, <<>>, Number, <<>>)], Sub>> }}
=============================================================================
