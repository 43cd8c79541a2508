----------------------------- MODULE MCWorkexVM -----------------------------
(* Programs for the VM: every code of up to four instructions over a small *)
(* instruction set, and the shapes of programs that the tests of vm.rs     *)
(* use.  Each is given the least liveness table and masks that cover it.   *)
EXTENDS AgentPipeline, TLC

MCIoValues == {Str("io"), Undefined}

(* The least solution of the liveness equations, by iteration.             *)
RECURSIVE LeastLive(_, _)
LeastLive(code, live) ==
  LET next == [i \in DOMAIN live |-> LiveBefore(code, live, i)]
  IN  IF next = live THEN live ELSE LeastLive(code, next)

(* The module compiled from a code whose suspensions have no mask yet.     *)
Module(code) ==
  LET live == LeastLive(code, [i \in 0 .. Len(code) - 1 |-> {}])
      masked(i) == IF code[i].op \in {"Suspend", "SuspendMulti"}
                   THEN [code[i] EXCEPT !.live_regs =
                           UNION {live[j] : j \in Successors(code, i - 1)}
                             \cap (0 .. MaskBits - 1)]
                   ELSE code[i]
  IN  [code |-> [i \in 1 .. Len(code) |-> masked(i)], live |-> live]

Load(d, v) == [op |-> "Load", dst |-> d, value |-> v]
Move(d, s) == [op |-> "Move", dst |-> d, src |-> s]
Add(d, a, b) == [op |-> "Arith", dst |-> d, a |-> a, b |-> b]
Ret(v) == [op |-> "Return", val |-> v]
Throw(v) == [op |-> "Throw", val |-> v]
Jump(o) == [op |-> "Jump", offset |-> o]
JumpTrue(c, o) == [op |-> "JumpTrue", cond |-> c, offset |-> o]
JumpFalse(c, o) == [op |-> "JumpFalse", cond |-> c, offset |-> o]
Await(io) == [op |-> "Suspend", live_regs |-> {}, io_type |-> io]
AwaitAll(n) == [op |-> "SuspendMulti", live_regs |-> {}, count |-> n]
Try(o, r) == [op |-> "TryCatch", catch_offset |-> o, error_reg |-> r]
End == [op |-> "EndTry"]
Nop == [op |-> "Nop"]

Small == {Load(0, Str("u")), Load(1, Num(1)), Move(0, 1), Move(1, 0), Add(0, 0, 1),
          Ret(0), Ret(1), Throw(1), Jump(-1), JumpTrue(0, 2), JumpFalse(1, -2),
          Await("Fetch"), Await("KvPut"), Try(2, 0), End}

Codes == [1 .. 3 -> Small]
           \cup {c \in [1 .. 4 -> Small] : c[2].op = "Suspend" /\ c[4].op \in {"Return", "Jump"}}

(* Programs of the tests: an object built and read across an await, a      *)
(* response, a parallel await, two awaits with a register kept over both.  *)
TestCodes ==
  { << [op |-> "NewObj", dst |-> 1], Load(0, Str("v")),
       [op |-> "SetProp", obj |-> 1, key |-> "k", val |-> 0], Await("Fetch"),
       [op |-> "GetProp", dst |-> 0, obj |-> 1, key |-> "k"], Ret(0) >>,
    << Load(0, Str("u")), Await("Fetch"), Load(1, Num(200)),
       [op |-> "WxResp", dst |-> 1, body |-> 0, status |-> 1, headers |-> 0], Ret(1) >>,
    << Load(0, Str("u")), AwaitAll(2), Nop, Ret(0) >>,
    << Load(1, Num(1)), Await("Fetch"), Await("D1Query"), Add(0, 0, 1), Ret(0) >>,
    << Load(0, Str("u")), Move(1, 0), Await("Fetch"), Await("KvPut"), Ret(0) >>,
    << Load(1, Num(1)), Await("Other"), Nop, Await("KvGet"), Add(0, 0, 1), Ret(0) >> }

-----------------------------------------------------------------------------
(* Scripts: the workers of the tests of transform.rs and emit.rs, and ones *)
(* with nested awaits, two async functions, a block, a syntax error.       *)
Name(t) == [is |-> "name", text |-> t, kv |-> FALSE]
KV == [is |-> "name", text |-> "env.KV", kv |-> TRUE]
Lit(t) == [is |-> "other", text |-> t]
Member(o, p) == [is |-> "member", obj |-> o, prop |-> p, text |-> p]
CallOf(c, args) == [is |-> "call", callee |-> c, args |-> args, text |-> "call"]
NewOf(args) == [is |-> "new", callee |-> Name("Response"), args |-> args, text |-> "new"]
AwaitOf(e) == [is |-> "await", arg |-> e, text |-> "await"]

FetchOf(arg) == CallOf(Name("fetch"), <<arg>>)
KvGetOf(k) == CallOf(Member(KV, "get"), <<Lit(k)>>)
KvPutOf(k, v) == CallOf(Member(KV, "put"), <<Lit(k), Lit(v)>>)
TextOf(e) == CallOf(Member(e, "text"), <<>>)

Var(n, e) == [is |-> "var", decls |-> <<[name |-> [text |-> n, dunder |-> n = "__t"], init |-> e]>>]
ReturnOf(e) == [is |-> "return", arg |-> e]
ExprOf(e) == [is |-> "expr", arg |-> e]
Block == [is |-> "block"]

Request == [text |-> "request", dunder |-> FALSE]
Function(async, body) == [is |-> "function", async |-> async, params |-> <<Request>>, body |-> body]
Worker(fs) == [parses |-> TRUE, body |-> <<[is |-> "export", props |-> fs]>>]

Awaited == {FetchOf(Lit("u")), KvGetOf("k"), KvPutOf("k", "v"), TextOf(Name("resp")), Name("promise")}

Bodies ==
  {<<Var("a", AwaitOf(e)), ReturnOf(NewOf(<<Name("a")>>))>> : e \in Awaited}
    \cup {<<Var("__t", AwaitOf(e)), ExprOf(AwaitOf(f)), ReturnOf(NewOf(<<Name("a")>>))>> :
             e \in Awaited, f \in Awaited}
    \cup {<<ExprOf(AwaitOf(FetchOf(Lit("u")))), Var("b", AwaitOf(KvGetOf("k"))),
            ReturnOf(NewOf(<<AwaitOf(TextOf(Name("b")))>>))>>,
          <<ReturnOf(AwaitOf(FetchOf(AwaitOf(KvGetOf("k")))))>>,
          <<ReturnOf(AwaitOf(TextOf(AwaitOf(FetchOf(Lit("u"))))))>>,
          <<Block, Var("a", Name("b")), ReturnOf(Name("a"))>>}

Scripts ==
  {Worker(<<Function(TRUE, b)>>) : b \in Bodies}
    \cup {Worker(<<Function(FALSE, b)>>) : b \in {<<ReturnOf(NewOf(<<Lit("sync")>>))>>}}
    \cup {Worker(<<Function(TRUE, <<ExprOf(AwaitOf(KvGetOf("k")))>>),
                   Function(TRUE, <<ReturnOf(AwaitOf(FetchOf(Lit("u"))))>>)>>),
          [parses |-> TRUE,
           body |-> <<Function(TRUE, <<ReturnOf(AwaitOf(KvGetOf("k")))>>), [is |-> "other"],
                      [is |-> "export", props |-> <<[is |-> "other"], Function(FALSE, <<>>)>>]>>],
          [parses |-> FALSE, body |-> <<>>]}

(* The liveness table of a compiled module, masks as compiled.             *)
FromScript(script) ==
  LET m == Compile(script) IN
  [code |-> m.code, source |-> m.source, resume_table |-> m.resume_table,
   live |-> LeastLive(m.code, [i \in 0 .. Len(m.code) - 1 |-> {}])]

(* The ones for which the registers of a frame suffice.                    *)
Fitting == {s \in Scripts : Allocations(s) <= MaxReg + 1}

AllPrograms == {Module(c) : c \in Codes \cup TestCodes} \cup {FromScript(s) : s \in Fitting}

(* The programs the theorems about the VM speak of.                        *)
ASSUME MasksSuffice == \A p \in AllPrograms : MasksReach(p)

(* A handler entered before an await and a throw after it.                 *)
TryAcrossAwait ==
  {Module(<<Try(5, 1), Load(0, Str("u")), Await("Fetch"), Throw(0), End, Ret(1)>>)}
=============================================================================
