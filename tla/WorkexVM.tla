------------------------------ MODULE WorkexVM ------------------------------
(***************************************************************************)
(* The bytecode VM (workex-vm/src/vm.rs) executing one agent: vm::run up   *)
(* to a result or a suspension, the continuation that a suspension saves,  *)
(* and VmFrame::from_continuation, which rebuilds the frame from it.       *)
(*                                                                         *)
(* Each action is one iteration of the loop of run.  The ghost variables   *)
(* full and tries record what an agent that is never taken off the machine *)
(* would have: its registers and handlers kept in place over an await;     *)
(* suspensions counts the awaits.                                          *)
(*                                                                         *)
(* Numbers stand for f64 values, one operation, Arith, for the four        *)
(* arithmetic ones; Load stands for LoadConst and NewStr with the value    *)
(* found in the pool of the module, and Nop for Resume and the opcodes     *)
(* that the last arm of the match skips (LoadGlobal, SetGlobal, Call, Wx). *)
(***************************************************************************)
EXTENDS Integers, Sequences, FiniteSets

CONSTANTS
  Programs,         (* compiled modules, see IsProgram                     *)
  NumRegs,          (* registers of a frame: 256 in the code               *)
  MaskBits,         (* registers a live mask can name: 64 in the code      *)
  Limits,           (* values of max_instructions an agent may start with  *)
  DefaultLimit,     (* AgentLimits::default().max_instructions             *)
  IoValues,         (* values an I/O operation may produce                 *)
  MaxSuspensions,   (* bound: suspensions of one agent                     *)
  None

Regs == 0 .. NumRegs - 1

-----------------------------------------------------------------------------
(* JavaScript values (enum JsValue), tagged.                               *)
Undefined == <<"undefined">>
Num(n) == <<"num", n>>
Str(s) == <<"str", s>>
Obj(m) == <<"obj", m>>
Bool(b) == <<"bool", b>>

IsValue(v) == v[1] \in {"undefined", "null", "num", "str", "obj", "bool"}

EmptyObject == Obj([k \in {} |-> Undefined])

ToF64(v) == CASE v[1] = "num" -> v[2]
              [] v[1] = "bool" -> IF v[2] THEN 1 ELSE 0
              [] OTHER -> 0

IsTruthy(v) == CASE v[1] = "num" -> v[2] # 0
                 [] v[1] = "bool" -> v[2]
                 [] v[1] = "str" -> v[2] # ""
                 [] OTHER -> v[1] = "obj"

(* The key or url taken from a register: only a string counts.             *)
StringOf(v) == IF v[1] = "str" THEN v[2] ELSE ""

-----------------------------------------------------------------------------
(* Registers an instruction reads and the one it writes.                   *)
Reads(inst) ==
  CASE inst.op = "Move" -> {inst.src}
    [] inst.op = "Arith" -> {inst.a, inst.b}
    [] inst.op = "SetProp" -> {inst.obj, inst.val}
    [] inst.op = "GetProp" -> {inst.obj}
    [] inst.op = "WxResp" -> {inst.body, inst.status, inst.headers}
    [] inst.op \in {"Return", "Throw"} -> {inst.val}
    [] inst.op \in {"JumpTrue", "JumpFalse"} -> {inst.cond}
    [] inst.op = "Suspend" -> IF inst.io_type = "KvPut" THEN {0, 1} ELSE {0}
    [] inst.op = "SuspendMulti" -> {0}
    [] OTHER -> {}

Writes(inst) ==
  CASE inst.op \in {"Load", "Move", "Arith", "NewObj", "GetProp", "WxResp"} -> {inst.dst}
    [] inst.op \in {"Suspend", "SuspendMulti"} -> {0}
    [] OTHER -> {}

(* Where control may be after the instruction at i; a throw may reach any  *)
(* handler of the program.                                                 *)
Successors(code, i) ==
  LET inst == code[i + 1]
      handlers == {j + code[j + 1].catch_offset :
                     j \in {k \in 0 .. Len(code) - 1 : code[k + 1].op = "TryCatch"}}
      after == CASE inst.op = "Return" -> {}
                 [] inst.op = "Jump" -> {i + inst.offset}
                 [] inst.op \in {"JumpTrue", "JumpFalse"} -> {i + 1, i + inst.offset}
                 [] inst.op = "Throw" -> handlers
                 [] OTHER -> {i + 1}
  IN  after \cap (0 .. Len(code) - 1)

(* live[i] names the registers whose value may still be read from          *)
(* instruction i on: the classic backward equations.                       *)
LiveBefore(code, live, i) ==
  Reads(code[i + 1])
    \cup ((UNION {live[j] : j \in Successors(code, i)}) \ Writes(code[i + 1]))

IsSuspension(inst) == inst.op \in {"Suspend", "SuspendMulti"}

(* A compiled module: its code and a liveness table, of registers a frame  *)
(* has, that the masks of its suspensions cover, as far as a mask reaches. *)
IsProgram(p) ==
  /\ Len(p.code) \in Nat
  /\ \A i \in 0 .. Len(p.code) - 1 :
       /\ p.live[i] \subseteq Regs
       /\ LiveBefore(p.code, p.live, i) \subseteq p.live[i]
       /\ IsSuspension(p.code[i + 1]) =>
            \A j \in Successors(p.code, i) :
              (p.live[j] \ {0}) \cap (0 .. MaskBits - 1) \subseteq p.code[i + 1].live_regs

(* Nothing but the result is live over a suspension in a register that no  *)
(* mask can name: such a register is never saved.                          *)
MasksReach(p) ==
  \A i \in 0 .. Len(p.code) - 1 :
    IsSuspension(p.code[i + 1]) =>
      \A j \in Successors(p.code, i) : p.live[j] \ {0} \subseteq 0 .. MaskBits - 1

(* A module the compiler made of a script carries it, and what the emitter *)
(* noted in resume_table: one instruction for each await, in their order,  *)
(* the one after its Suspend.  Its code does not branch.                   *)
IsCompiled(p) == "source" \in DOMAIN p

SuspendsAt(p) == {i \in 1 .. Len(p.code) : p.code[i].op = "Suspend"}

InEmittedOrder(p) ==
  /\ \A i \in 1 .. Len(p.code) :
       p.code[i].op \notin {"Jump", "JumpTrue", "JumpFalse", "Throw", "SuspendMulti"}
  /\ DOMAIN p.resume_table = 0 .. Cardinality(SuspendsAt(p)) - 1
  /\ {p.resume_table[n] : n \in DOMAIN p.resume_table} = SuspendsAt(p)
  /\ \A m, n \in DOMAIN p.resume_table : m < n => p.resume_table[m] < p.resume_table[n]

ASSUME VMAssumption ==
  /\ NumRegs \in Nat \ {0}
  /\ MaskBits \in Nat
  /\ DefaultLimit \in Nat /\ Limits \subseteq Nat
  /\ \A p \in Programs : IsProgram(p) /\ (IsCompiled(p) => InEmittedOrder(p))

-----------------------------------------------------------------------------
VARIABLES
  prog,               (* the compiled module                               *)
  regs, ip, try_stack, instruction_count, limit,  (* VmFrame                *)
  status,             (* running (in run), suspended, done, error          *)
  outcome,            (* the value of Done, the message of Error           *)
  cont,               (* the Continuation, and the requests, when suspended *)
  full, tries, suspensions  (* ghosts                *)

frameVars == <<regs, ip, try_stack, instruction_count, limit>>
ghosts == <<full, tries, suspensions>>
vars == <<prog, frameVars, status, outcome, cont, ghosts>>

Init ==
  /\ prog \in Programs
  /\ regs = [r \in Regs |-> Undefined]
  /\ ip = 0
  /\ try_stack = <<>>
  /\ instruction_count = 0
  /\ limit \in Limits
  /\ status = "running"
  /\ outcome = None
  /\ cont = None
  /\ full = regs
  /\ tries = <<>>
  /\ suspensions = 0

InBounds == ip \in 0 .. Len(prog.code) - 1
Inst == prog.code[ip + 1]

(* Mutant: instructions are not counted.                                   *)
FetchUncounted(ops) ==
  /\ status = "running"
  /\ InBounds
  /\ instruction_count < limit
  /\ Inst.op \in ops
  /\ UNCHANGED <<prog, instruction_count, limit>>

(* The head of an iteration, when it goes on to execute the instruction.   *)
Fetch(ops) ==
  /\ status = "running"
  /\ InBounds
  /\ instruction_count < limit
  /\ Inst.op \in ops
  /\ instruction_count' = instruction_count + 1
  /\ UNCHANGED <<prog, limit>>

(* The head of an iteration that fails: a jump left the code (a negative   *)
(* target wraps to a huge usize), or the instructions are used up.         *)
OutOfBounds ==
  /\ status = "running"
  /\ ~InBounds
  /\ status' = "error"
  /\ outcome' = "IP out of bounds"
  /\ UNCHANGED <<prog, frameVars, cont, ghosts>>

CpuLimit ==
  /\ status = "running"
  /\ InBounds
  /\ instruction_count >= limit
  /\ instruction_count' = instruction_count + 1
  /\ status' = "error"
  /\ outcome' = "CPU limit exceeded"
  /\ UNCHANGED <<prog, regs, ip, try_stack, limit, cont, ghosts>>

-----------------------------------------------------------------------------
(* The registers after an instruction that only computes.                  *)
SetProperty(o, key, v) ==
  IF o[1] = "obj"
  THEN Obj([k \in DOMAIN o[2] \cup {key} |-> IF k = key THEN v ELSE o[2][k]])
  ELSE o

GetProperty(o, key) ==
  IF o[1] = "obj" /\ key \in DOMAIN o[2] THEN o[2][key] ELSE Undefined

Response(body, st, headers) ==
  Obj([k \in {"body", "status", "headers", "__is_response"} |->
         CASE k = "body" -> body [] k = "status" -> st
           [] k = "headers" -> headers [] OTHER -> Bool(TRUE)])

Computed(inst, r) ==
  CASE inst.op = "Load" -> [r EXCEPT ![inst.dst] = inst.value]
    [] inst.op = "Move" -> [r EXCEPT ![inst.dst] = r[inst.src]]
    [] inst.op = "Arith" -> [r EXCEPT ![inst.dst] = Num(ToF64(r[inst.a]) + ToF64(r[inst.b]))]
    [] inst.op = "NewObj" -> [r EXCEPT ![inst.dst] = EmptyObject]
    [] inst.op = "SetProp" -> [r EXCEPT ![inst.obj] = SetProperty(@, inst.key, r[inst.val])]
    [] inst.op = "GetProp" -> [r EXCEPT ![inst.dst] = GetProperty(r[inst.obj], inst.key)]
    [] inst.op = "WxResp" -> [r EXCEPT ![inst.dst] =
                                Response(r[inst.body], r[inst.status], r[inst.headers])]
    [] inst.op = "Nop" -> r

Compute ==
  /\ Fetch({"Load", "Move", "Arith", "NewObj", "SetProp", "GetProp", "WxResp", "Nop"})
  /\ regs' = Computed(Inst, regs)
  /\ full' = Computed(Inst, full)
  /\ ip' = ip + 1
  /\ UNCHANGED <<try_stack, status, outcome, cont, tries, suspensions>>

Taken(inst) == CASE inst.op = "Jump" -> TRUE
                 [] inst.op = "JumpTrue" -> IsTruthy(regs[inst.cond])
                 [] inst.op = "JumpFalse" -> ~IsTruthy(regs[inst.cond])

Branch ==
  /\ Fetch({"Jump", "JumpTrue", "JumpFalse"})
  /\ ip' = IF Taken(Inst) THEN ip + Inst.offset ELSE ip + 1
  /\ UNCHANGED <<regs, try_stack, status, outcome, cont, full, tries, suspensions>>

Return ==
  /\ Fetch({"Return"})
  /\ status' = "done"
  /\ outcome' = regs[Inst.val]
  /\ UNCHANGED <<regs, ip, try_stack, cont, full, tries, suspensions>>

-----------------------------------------------------------------------------
(* Suspension.                                                             *)
(* Mutant: the last register a mask can name is not saved.                 *)
SavedAllButLast(r, mask) == [i \in mask \cap (0 .. MaskBits - 2) |-> r[i]]

SavedRegisters(r, mask) == [i \in mask \cap (0 .. MaskBits - 1) |-> r[i]]

IoRequest(io_type, r) ==
  [type |-> IF io_type = "Other" THEN "Fetch" ELSE io_type,
   arg |-> IF io_type = "Other" THEN "" ELSE StringOf(r[0]),
   value |-> IF io_type = "KvPut" THEN StringOf(r[1]) ELSE ""]

(* build_io_request, once, or count times the same for SuspendMulti.       *)
Requests(inst, r) ==
  IF inst.op = "Suspend" THEN <<IoRequest(inst.io_type, r)>>
  ELSE [i \in 1 .. inst.count |-> IoRequest("Fetch", r)]

(* Where the VM goes on.  Mutant: at the suspension itself, once more.     *)
ContinueAtSuspend == ip

ContinueAt == ip + 1

Suspend ==
  /\ Fetch({"Suspend", "SuspendMulti"})
  /\ suspensions < MaxSuspensions
  /\ suspensions' = suspensions + 1
  /\ cont' = [saved |-> SavedRegisters(regs, Inst.live_regs), ip |-> ContinueAt,
              dst |-> 0, requests |-> Requests(Inst, regs)]
  /\ status' = "suspended"
  /\ UNCHANGED <<regs, ip, try_stack, outcome, full, tries>>

(* from_continuation and the next call of run.                             *)
Resume ==
  /\ status = "suspended"
  /\ \E v \in IoValues :
       /\ regs' = [r \in Regs |->
                    IF r = cont.dst THEN v
                    ELSE IF r \in DOMAIN cont.saved THEN cont.saved[r] ELSE Undefined]
       /\ full' = [full EXCEPT ![0] = v]
  /\ ip' = cont.ip
  /\ try_stack' = <<>>
  /\ instruction_count' = 0
  /\ limit' = DefaultLimit
  /\ status' = "running"
  /\ cont' = None
  /\ UNCHANGED <<prog, outcome, tries, suspensions>>

-----------------------------------------------------------------------------
(* Error handling.                                                         *)
PopTop(stack) == SubSeq(stack, 1, Len(stack) - 1)
PopIfAny(stack) == IF stack = <<>> THEN stack ELSE PopTop(stack)

TryCatch ==
  LET handler == [catch_ip |-> ip + Inst.catch_offset, error_reg |-> Inst.error_reg] IN
  /\ Fetch({"TryCatch"})
  /\ try_stack' = Append(try_stack, handler)
  /\ tries' = Append(tries, handler)
  /\ ip' = ip + 1
  /\ UNCHANGED <<regs, status, outcome, cont, full, suspensions>>

EndTry ==
  /\ Fetch({"EndTry"})
  /\ try_stack' = PopIfAny(try_stack)
  /\ tries' = PopIfAny(tries)
  /\ ip' = ip + 1
  /\ UNCHANGED <<regs, status, outcome, cont, full, suspensions>>

ThrowCaught ==
  LET handler == try_stack[Len(try_stack)] IN
  /\ Fetch({"Throw"})
  /\ try_stack # <<>>
  /\ try_stack' = PopTop(try_stack)
  /\ tries' = PopIfAny(tries)
  /\ regs' = [regs EXCEPT ![handler.error_reg] = regs[Inst.val]]
  /\ full' = [full EXCEPT ![handler.error_reg] = full[Inst.val]]
  /\ ip' = handler.catch_ip
  /\ UNCHANGED <<status, outcome, cont, suspensions>>

ThrowUncaught ==
  /\ Fetch({"Throw"})
  /\ try_stack = <<>>
  /\ status' = "error"
  /\ outcome' = "Uncaught"
  /\ UNCHANGED <<regs, ip, try_stack, cont, full, tries, suspensions>>

(* The agent has ended, or the model stops suspending it.                  *)
Ended ==
  /\ \/ status \in {"done", "error"}
     \/ status = "running" /\ InBounds /\ suspensions = MaxSuspensions
        /\ IsSuspension(Inst)
  /\ UNCHANGED vars

Run == \/ OutOfBounds \/ CpuLimit \/ Compute \/ Branch \/ Return \/ Suspend
       \/ TryCatch \/ EndTry \/ ThrowCaught \/ ThrowUncaught

Next == Run \/ Resume \/ Ended

Spec == Init /\ [][Next]_vars

(* run is a loop that no one interrupts: while it can step, it steps.      *)
FairSpec == Spec /\ WF_vars(Run)

-----------------------------------------------------------------------------
(* Suspension is transparent: while it runs, an agent finds in every       *)
(* register it may still read what it would find had it never been taken   *)
(* off the machine, and what it asks of the outside when it suspends is    *)
(* what the uninterrupted agent would ask, for all the programs whose      *)
(* masks cover what is live.                                               *)
ResumeTransparent ==
  /\ status = "running" /\ InBounds => \A r \in prog.live[ip] : regs[r] = full[r]
  /\ status = "suspended" => cont.requests = Requests(Inst, full)

(* The place where the VM goes on after the n-th await of a compiled agent *)
(* is the one the emitter noted for it in resume_table, which the VM never *)
(* consults.                                                               *)
ResumesWhereNoted ==
  status = "suspended" /\ IsCompiled(prog) => prog.resume_table[suspensions - 1] = cont.ip

(* Each call of run ends, also in a program that loops forever: the        *)
(* instruction limit stops it, unless the model stops it at its bound.     *)
RunEnds ==
  (status = "running") ~>
    \/ status # "running"
    \/ suspensions = MaxSuspensions /\ InBounds /\ IsSuspension(Inst)

(* README.md:164, try/catch across await: a throw under a handler that was *)
(* entered before the await is caught.                                     *)
CaughtAcrossAwait == outcome = "Uncaught" => tries = <<>>
=============================================================================
