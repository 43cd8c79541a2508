--------------------------- MODULE WorkexVMProofs ---------------------------
(***************************************************************************)
(* Proofs about WorkexVM, for every set of programs, number of registers,  *)
(* width of the live masks, instruction limit and set of values an I/O     *)
(* operation may produce: suspension is transparent to a program whose     *)
(* masks reach what is live, and a compiled agent is resumed where         *)
(* resume_table says.                                                      *)
(***************************************************************************)
EXTENDS WorkexVM, FiniteSetTheorems, SequenceTheorems, TLAPS

(* The handlers a program can push: one for each TryCatch.                 *)
Handlers(code) ==
  {[catch_ip |-> j + code[j + 1].catch_offset, error_reg |-> code[j + 1].error_reg] :
     j \in {k \in 0 .. Len(code) - 1 : code[k + 1].op = "TryCatch"}}

(* What a suspension at ip leaves behind of the frame.                     *)
ContinuationOf(r) ==
  [saved |-> SavedRegisters(r, Inst.live_regs), ip |-> ip + 1,
   dst |-> 0, requests |-> Requests(Inst, r)]

(* The registers of the two machines are the same as far as they may still *)
(* be read.                                                                *)
AgreeAt(i) == \A r \in prog.live[i] : regs[r] = full[r]

(* The inductive invariant.  Agreement alone is not inductive: a throw     *)
(* lands where a handler says, so the handlers must come from the program; *)
(* and what Resume restores is in the continuation, so that must hold what *)
(* the frame still does.                                                   *)
FrameTypes ==
  /\ prog \in Programs
  /\ regs = [r \in Regs |-> regs[r]]
  /\ full = [r \in Regs |-> full[r]]

HandlersKnown == try_stack \in Seq(Handlers(prog.code))

RunningAgrees == status = "running" /\ InBounds => AgreeAt(ip)

SuspendedAgrees ==
  status = "suspended" =>
    /\ InBounds
    /\ IsSuspension(Inst)
    /\ cont = ContinuationOf(regs)
    /\ AgreeAt(ip)

TransparentInv == FrameTypes /\ HandlersKnown /\ RunningAgrees /\ SuspendedAgrees

-----------------------------------------------------------------------------
(* What IsProgram says of one instruction.                                 *)
LEMMA ProgramFacts ==
  ASSUME prog \in Programs, InBounds
  PROVE  /\ ip \in Int /\ Len(prog.code) \in Nat
         /\ prog.live[ip] \subseteq Regs
         /\ Reads(Inst) \subseteq prog.live[ip]
         /\ \A j \in Successors(prog.code, ip) :
              prog.live[j] \ Writes(Inst) \subseteq prog.live[ip]
         /\ IsSuspension(Inst) =>
              \A j \in Successors(prog.code, ip) :
                (prog.live[j] \ {0}) \cap (0 .. MaskBits - 1) \subseteq Inst.live_regs
  <1>1. IsProgram(prog)
    BY VMAssumption
  <1>2. /\ prog.live[ip] \subseteq Regs
        /\ LiveBefore(prog.code, prog.live, ip) \subseteq prog.live[ip]
        /\ IsSuspension(Inst) =>
             \A j \in Successors(prog.code, ip) :
               (prog.live[j] \ {0}) \cap (0 .. MaskBits - 1) \subseteq Inst.live_regs
    BY <1>1 DEF IsProgram, InBounds, Inst
  <1>3. /\ Reads(Inst) \subseteq LiveBefore(prog.code, prog.live, ip)
        /\ \A j \in Successors(prog.code, ip) :
             prog.live[j] \ Writes(Inst) \subseteq LiveBefore(prog.code, prog.live, ip)
    <2> DEFINE after == {prog.live[j] : j \in Successors(prog.code, ip)}
    <2>1. LiveBefore(prog.code, prog.live, ip) = Reads(Inst) \cup ((UNION after) \ Writes(Inst))
      BY DEF LiveBefore, Inst
    <2>2. \A j \in Successors(prog.code, ip) : prog.live[j] \subseteq UNION after
      OBVIOUS
    <2> HIDE DEF after
    <2>3. ASSUME NEW j \in Successors(prog.code, ip),
                 NEW r \in prog.live[j], r \notin Writes(Inst)
          PROVE  r \in LiveBefore(prog.code, prog.live, ip)
      <3>1. r \in UNION after
        BY <2>2, <2>3
      <3> QED
        BY <2>1, <2>3, <3>1
    <2>4. Reads(Inst) \subseteq LiveBefore(prog.code, prog.live, ip)
      BY <2>1
    <2> QED
      BY <2>3, <2>4
  <1>4. Len(prog.code) \in Nat
    BY <1>1 DEF IsProgram
  <1>5. ip \in Int
    BY DEF InBounds
  <1> QED
    BY <1>2, <1>3, <1>4, <1>5

(* Where the next instruction is, after one that does not branch.          *)
LEMMA StepIsSuccessor ==
  ASSUME InBounds, ip + 1 \in 0 .. Len(prog.code) - 1,
         Inst.op \notin {"Return", "Jump", "Throw"}
  PROVE  ip + 1 \in Successors(prog.code, ip)
  BY DEF Successors, Inst

LEMMA InitTransparent == Init => TransparentInv
  BY DEF Init, TransparentInv, FrameTypes, HandlersKnown, RunningAgrees, SuspendedAgrees, AgreeAt

(* The registers after a computation, of two machines that agree on what   *)
(* it reads, agree on what it writes and on what they agreed on.           *)
ComputeOps == {"Load", "Move", "Arith", "NewObj", "SetProp", "GetProp", "WxResp", "Nop"}

LEMMA ComputedDomain ==
  ASSUME NEW inst, inst.op \in ComputeOps, NEW r, r = [x \in Regs |-> r[x]]
  PROVE  Computed(inst, r) = [x \in Regs |-> Computed(inst, r)[x]]
  <1>1. CASE inst.op = "Load"       BY <1>1 DEF Computed
  <1>2. CASE inst.op = "Move"       BY <1>2 DEF Computed
  <1>3. CASE inst.op = "Arith"      BY <1>3 DEF Computed
  <1>4. CASE inst.op = "NewObj"     BY <1>4 DEF Computed
  <1>5. CASE inst.op = "SetProp"    BY <1>5 DEF Computed
  <1>6. CASE inst.op = "GetProp"    BY <1>6 DEF Computed
  <1>7. CASE inst.op = "WxResp"     BY <1>7 DEF Computed
  <1>8. CASE inst.op = "Nop"        BY <1>8 DEF Computed
  <1> QED
    BY <1>1, <1>2, <1>3, <1>4, <1>5, <1>6, <1>7, <1>8 DEF ComputeOps

LEMMA ComputedAgrees ==
  ASSUME NEW inst, inst.op \in ComputeOps,
         NEW r, r = [x \in Regs |-> r[x]], NEW f, f = [x \in Regs |-> f[x]],
         \A x \in Reads(inst) : r[x] = f[x],
         NEW x \in Regs, x \in Writes(inst) \/ r[x] = f[x]
  PROVE  Computed(inst, r)[x] = Computed(inst, f)[x]
  <1>1. CASE inst.op = "Load"       BY <1>1 DEF Computed, Reads, Writes
  <1>2. CASE inst.op = "Move"       BY <1>2 DEF Computed, Reads, Writes
  <1>3. CASE inst.op = "Arith"      BY <1>3 DEF Computed, Reads, Writes
  <1>4. CASE inst.op = "NewObj"     BY <1>4 DEF Computed, Reads, Writes
  <1>5. CASE inst.op = "SetProp"    BY <1>5 DEF Computed, Reads, Writes
  <1>6. CASE inst.op = "GetProp"    BY <1>6 DEF Computed, Reads, Writes
  <1>7. CASE inst.op = "WxResp"     BY <1>7 DEF Computed, Reads, Writes
  <1>8. CASE inst.op = "Nop"        BY <1>8 DEF Computed, Reads, Writes
  <1> QED
    BY <1>1, <1>2, <1>3, <1>4, <1>5, <1>6, <1>7, <1>8 DEF ComputeOps

LEMMA ComputePreserves ==
  ASSUME TransparentInv, Compute
  PROVE  TransparentInv'
  <1> USE DEF TransparentInv
  <1>1. /\ status = "running" /\ InBounds /\ Inst.op \in ComputeOps
        /\ regs' = Computed(Inst, regs) /\ full' = Computed(Inst, full)
        /\ ip' = ip + 1 /\ prog' = prog /\ try_stack' = try_stack /\ status' = status
    BY DEF Compute, Fetch, ComputeOps
  <1>2. FrameTypes'
    <2>1. Computed(Inst, regs) = [r \in Regs |-> Computed(Inst, regs)[r]]
      BY <1>1, ComputedDomain DEF FrameTypes
    <2>2. Computed(Inst, full) = [r \in Regs |-> Computed(Inst, full)[r]]
      BY <1>1, ComputedDomain DEF FrameTypes
    <2> QED
      BY <1>1, <2>1, <2>2 DEF FrameTypes
  <1>3. HandlersKnown'
    BY <1>1 DEF HandlersKnown
  <1>4. RunningAgrees'
    <2> SUFFICES ASSUME InBounds', NEW r \in prog.live[ip + 1]
                 PROVE  regs'[r] = full'[r]
      BY <1>1 DEF RunningAgrees, AgreeAt
    <2>1. ip + 1 \in Successors(prog.code, ip)
      BY <1>1, StepIsSuccessor DEF ComputeOps, InBounds
    <2>2. prog.live[ip + 1] \ Writes(Inst) \subseteq prog.live[ip]
      BY <1>1, <2>1, ProgramFacts DEF FrameTypes
    <2>3. prog.live[ip + 1] \subseteq Regs
      BY <1>1, VMAssumption DEF FrameTypes, IsProgram, InBounds
    <2>4. \A x \in Reads(Inst) : regs[x] = full[x]
      BY <1>1, ProgramFacts DEF FrameTypes, RunningAgrees, AgreeAt
    <2>5. r \in Writes(Inst) \/ regs[r] = full[r]
      BY <1>1, <2>2 DEF RunningAgrees, AgreeAt
    <2> QED
      BY <1>1, <2>3, <2>4, <2>5, ComputedAgrees DEF FrameTypes
  <1>5. SuspendedAgrees'
    BY <1>1 DEF SuspendedAgrees
  <1> QED
    BY <1>2, <1>3, <1>4, <1>5

(* A step that leaves the registers alone and goes to a successor, reading *)
(* and writing no register that matters there.                             *)
LEMMA MovePreservesAgreement ==
  ASSUME FrameTypes, RunningAgrees, status = "running", InBounds, Writes(Inst) = {},
         UNCHANGED <<prog, regs, full>>,
         InBounds' => ip' \in Successors(prog.code, ip)
  PROVE  RunningAgrees'
  <1> SUFFICES ASSUME InBounds', NEW r \in prog.live[ip']
               PROVE  regs[r] = full[r]
    BY DEF RunningAgrees, AgreeAt
  <1>1. prog.live[ip'] \subseteq prog.live[ip]
    BY ProgramFacts DEF FrameTypes
  <1> QED
    BY <1>1 DEF RunningAgrees, AgreeAt

LEMMA BranchPreserves ==
  ASSUME TransparentInv, Branch
  PROVE  TransparentInv'
  <1> USE DEF TransparentInv
  <1>1. /\ status = "running" /\ InBounds /\ Inst.op \in {"Jump", "JumpTrue", "JumpFalse"}
        /\ ip' = IF Taken(Inst) THEN ip + Inst.offset ELSE ip + 1
        /\ UNCHANGED <<prog, regs, full, try_stack, status>>
    BY DEF Branch, Fetch
  <1>2. InBounds' => ip' \in Successors(prog.code, ip)
    <2> SUFFICES ASSUME InBounds'
                 PROVE  ip' \in Successors(prog.code, ip)
      OBVIOUS
    <2>1. ip' \in 0 .. Len(prog.code) - 1
      BY <1>1 DEF InBounds
    <2>2. CASE Inst.op = "Jump"
      <3>1. ip' = ip + prog.code[ip + 1].offset
        BY <1>1, <2>2 DEF Taken, Inst
      <3> QED
        BY <2>1, <2>2, <3>1 DEF Successors, Inst
    <2>3. CASE Inst.op \in {"JumpTrue", "JumpFalse"}
      <3>1. ip' = ip + prog.code[ip + 1].offset \/ ip' = ip + 1
        BY <1>1 DEF Inst
      <3> QED
        BY <2>1, <2>3, <3>1 DEF Successors, Inst
    <2> QED
      BY <1>1, <2>2, <2>3
  <1>3. Writes(Inst) = {}
    BY <1>1 DEF Writes
  <1>4. RunningAgrees'
    BY <1>1, <1>2, <1>3, MovePreservesAgreement
  <1> QED
    BY <1>1, <1>4 DEF FrameTypes, HandlersKnown, SuspendedAgrees

LEMMA SuspendPreserves ==
  ASSUME TransparentInv, Suspend
  PROVE  TransparentInv'
  <1> USE DEF TransparentInv
  <1>1. /\ status = "running" /\ InBounds /\ IsSuspension(Inst)
        /\ cont' = ContinuationOf(regs) /\ status' = "suspended"
        /\ UNCHANGED <<prog, regs, full, try_stack, ip>>
    BY DEF Suspend, Fetch, ContinuationOf, ContinueAt, IsSuspension
  <1>2. FrameTypes' /\ HandlersKnown' /\ RunningAgrees'
    BY <1>1 DEF FrameTypes, HandlersKnown, RunningAgrees
  <1>3. InBounds' /\ Inst' = Inst /\ ContinuationOf(regs)' = ContinuationOf(regs)
    BY <1>1 DEF InBounds, Inst, ContinuationOf
  <1>4. AgreeAt(ip)'
    BY <1>1 DEF RunningAgrees, AgreeAt
  <1> QED
    BY <1>1, <1>2, <1>3, <1>4 DEF SuspendedAgrees

(* What the frame finds after a suspension: the result in register 0, what *)
(* the mask named as it was, nothing in the others.                        *)
LEMMA RestoredAgrees ==
  ASSUME TransparentInv, status = "suspended", MasksReach(prog), Resume, InBounds',
         NEW r \in prog.live[ip']
  PROVE  regs'[r] = full'[r]
  <1> USE DEF TransparentInv
  <1>1. /\ InBounds /\ IsSuspension(Inst) /\ cont = ContinuationOf(regs) /\ AgreeAt(ip)
    BY DEF SuspendedAgrees
  <1>2. cont.ip = ip + 1 /\ cont.dst = 0 /\ cont.saved = SavedRegisters(regs, Inst.live_regs)
    BY <1>1 DEF ContinuationOf
  <1>3. PICK v \in IoValues :
          /\ regs' = [x \in Regs |->
                       IF x = cont.dst THEN v
                       ELSE IF x \in DOMAIN cont.saved THEN cont.saved[x] ELSE Undefined]
          /\ full' = [full EXCEPT ![0] = v]
    BY DEF Resume
  <1>4. ip' = ip + 1 /\ prog' = prog
    BY <1>2 DEF Resume
  <1>5. ip + 1 \in 0 .. Len(prog.code) - 1
    BY <1>4 DEF InBounds
  <1>6. ip + 1 \in Successors(prog.code, ip)
    BY <1>1, <1>5, StepIsSuccessor DEF IsSuspension
  <1>7. r \in Regs
    BY <1>4, <1>5, VMAssumption DEF FrameTypes, IsProgram
  <1>8. CASE r = 0
    BY <1>2, <1>3, <1>7, <1>8 DEF FrameTypes
  <1>9. CASE r # 0
    <2>1. r \in 0 .. MaskBits - 1
      BY <1>1, <1>4, <1>6, <1>9 DEF MasksReach, InBounds, Inst
    <2>2. r \in Inst.live_regs
      BY <1>1, <1>4, <1>6, <1>9, <2>1, ProgramFacts DEF FrameTypes
    <2>3. r \in prog.live[ip]
      <3>1. Writes(Inst) = {0}
        BY <1>1 DEF IsSuspension, Writes
      <3> QED
        BY <1>1, <1>4, <1>6, <1>9, <3>1, ProgramFacts DEF FrameTypes
    <2>4. r \in DOMAIN cont.saved /\ cont.saved[r] = regs[r]
      BY <1>2, <2>1, <2>2 DEF SavedRegisters
    <2>5. regs'[r] = regs[r]
      BY <1>2, <1>3, <1>7, <1>9, <2>4
    <2>6. full'[r] = full[r]
      BY <1>3, <1>7, <1>9 DEF FrameTypes
    <2> QED
      BY <1>1, <2>3, <2>5, <2>6 DEF AgreeAt
  <1> QED
    BY <1>8, <1>9

LEMMA ResumePreserves ==
  ASSUME TransparentInv, MasksReach(prog), Resume
  PROVE  TransparentInv'
  <1>1. status = "suspended" /\ status' = "running" /\ prog' = prog /\ try_stack' = <<>>
    BY DEF Resume
  <1>2. FrameTypes'
    <2>1. PICK v \in IoValues :
            /\ regs' = [x \in Regs |->
                         IF x = cont.dst THEN v
                         ELSE IF x \in DOMAIN cont.saved THEN cont.saved[x] ELSE Undefined]
            /\ full' = [full EXCEPT ![0] = v]
      BY DEF Resume
    <2>2. regs' = [r \in Regs |-> regs'[r]]
      BY <2>1
    <2>3. full' = [r \in Regs |-> full'[r]]
      BY <2>1 DEF TransparentInv, FrameTypes
    <2> QED
      BY <1>1, <2>2, <2>3 DEF TransparentInv, FrameTypes
  <1>3. HandlersKnown'
    BY <1>1 DEF HandlersKnown
  <1>4. RunningAgrees'
    BY <1>1, RestoredAgrees DEF RunningAgrees, AgreeAt
  <1>5. SuspendedAgrees'
    BY <1>1 DEF SuspendedAgrees
  <1> QED
    BY <1>2, <1>3, <1>4, <1>5 DEF TransparentInv

LEMMA TryPreserves ==
  ASSUME TransparentInv, TryCatch \/ EndTry
  PROVE  TransparentInv'
  <1> USE DEF TransparentInv
  <1>1. /\ status = "running" /\ InBounds /\ Inst.op \in {"TryCatch", "EndTry"}
        /\ ip' = ip + 1
        /\ UNCHANGED <<prog, regs, full, status>>
    BY DEF TryCatch, EndTry, Fetch
  <1>2. HandlersKnown'
    <2>1. CASE TryCatch
      <3> DEFINE h == [catch_ip |-> ip + Inst.catch_offset, error_reg |-> Inst.error_reg]
      <3>1. h \in Handlers(prog.code)
        BY <1>1, <2>1 DEF TryCatch, Fetch, InBounds, Inst, Handlers
      <3>2. try_stack' = Append(try_stack, h)
        BY <2>1 DEF TryCatch
      <3> HIDE DEF h
      <3>3. try_stack' \in Seq(Handlers(prog.code))
        BY <3>1, <3>2, AppendProperties DEF HandlersKnown
      <3> QED
        BY <1>1, <3>3 DEF HandlersKnown
    <2>2. CASE EndTry
      <3>1. try_stack' \in Seq(Handlers(prog.code))
        <4>1. CASE try_stack = <<>>
          BY <2>2, <4>1 DEF HandlersKnown, EndTry, PopIfAny
        <4>2. CASE try_stack # <<>>
          <5>1. try_stack' = SubSeq(try_stack, 1, Len(try_stack) - 1)
            BY <2>2, <4>2 DEF EndTry, PopIfAny, PopTop
          <5> QED
            BY <4>2, <5>1 DEF HandlersKnown
        <4> QED
          BY <4>1, <4>2
      <3> QED
        BY <1>1, <3>1 DEF HandlersKnown
    <2> QED
      BY <2>1, <2>2
  <1>3. InBounds' => ip' \in Successors(prog.code, ip)
    BY <1>1, StepIsSuccessor DEF InBounds
  <1>4. Writes(Inst) = {}
    BY <1>1 DEF Writes
  <1>5. RunningAgrees'
    BY <1>1, <1>3, <1>4, MovePreservesAgreement
  <1> QED
    BY <1>1, <1>2, <1>5 DEF FrameTypes, SuspendedAgrees

LEMMA ThrowPreserves ==
  ASSUME TransparentInv, ThrowCaught
  PROVE  TransparentInv'
  <1> USE DEF TransparentInv
  <1> DEFINE h == try_stack[Len(try_stack)]
  <1>1. /\ status = "running" /\ InBounds /\ Inst.op = "Throw" /\ try_stack # <<>>
        /\ try_stack' = PopTop(try_stack) /\ ip' = h.catch_ip
        /\ regs' = [regs EXCEPT ![h.error_reg] = regs[Inst.val]]
        /\ full' = [full EXCEPT ![h.error_reg] = full[Inst.val]]
        /\ UNCHANGED <<prog, status>>
    BY DEF ThrowCaught, Fetch
  <1>2. h \in Handlers(prog.code)
    BY <1>1 DEF HandlersKnown
  <1>3. HandlersKnown'
    <2>1. try_stack' \in Seq(Handlers(prog.code))
      BY <1>1 DEF HandlersKnown, PopTop
    <2> QED
      BY <1>1, <2>1 DEF HandlersKnown
  <1> HIDE DEF h
  <1>4. FrameTypes'
    BY <1>1 DEF FrameTypes
  <1>5. RunningAgrees'
    <2> SUFFICES ASSUME InBounds', NEW r \in prog.live[ip']
                 PROVE  regs'[r] = full'[r]
      BY <1>1 DEF RunningAgrees, AgreeAt
    <2>1. ip' \in 0 .. Len(prog.code) - 1
      BY <1>1 DEF InBounds
    <2>2. ip' \in Successors(prog.code, ip)
      <3>1. ip' \in {j + prog.code[j + 1].catch_offset :
                       j \in {k \in 0 .. Len(prog.code) - 1 : prog.code[k + 1].op = "TryCatch"}}
        BY <1>1, <1>2 DEF Handlers
      <3> QED
        BY <1>1, <2>1, <3>1 DEF Successors, Inst
    <2>3. prog.live[ip'] \subseteq prog.live[ip]
      BY <1>1, <2>2, ProgramFacts DEF FrameTypes, Writes
    <2>4. r \in Regs
      BY <1>1, <2>3, ProgramFacts DEF FrameTypes
    <2>5. regs[r] = full[r]
      BY <1>1, <2>3 DEF RunningAgrees, AgreeAt
    <2>6. regs[Inst.val] = full[Inst.val]
      <3>1. Inst.val \in prog.live[ip]
        BY <1>1, ProgramFacts DEF FrameTypes, Reads
      <3> QED
        BY <1>1, <3>1 DEF RunningAgrees, AgreeAt
    <2> QED
      BY <1>1, <2>4, <2>5, <2>6 DEF FrameTypes
  <1>6. SuspendedAgrees'
    BY <1>1 DEF SuspendedAgrees
  <1> QED
    BY <1>3, <1>4, <1>5, <1>6

(* The other steps leave registers and handlers alone, and end the agent   *)
(* or change nothing.                                                      *)
LEMMA OthersPreserve ==
  ASSUME TransparentInv,
         OutOfBounds \/ CpuLimit \/ Return \/ ThrowUncaught \/ Ended \/ UNCHANGED vars
  PROVE  TransparentInv'
  <1> USE DEF TransparentInv
  <1>1. CASE OutOfBounds \/ CpuLimit \/ Return \/ ThrowUncaught
    <2>1. /\ UNCHANGED <<prog, regs, full, try_stack>>
          /\ status' \notin {"running", "suspended"}
      BY <1>1 DEF OutOfBounds, CpuLimit, Return, ThrowUncaught, Fetch, frameVars, ghosts
    <2> QED
      BY <2>1 DEF FrameTypes, HandlersKnown, RunningAgrees, SuspendedAgrees
  <1>2. CASE Ended \/ UNCHANGED vars
    <2>1. UNCHANGED <<prog, regs, full, try_stack, status, ip, cont>>
      BY <1>2 DEF Ended, vars, frameVars, ghosts
    <2> QED
      BY <2>1 DEF FrameTypes, HandlersKnown, RunningAgrees, SuspendedAgrees,
                  InBounds, Inst, ContinuationOf, AgreeAt
  <1> QED
    BY <1>1, <1>2

(* The program never changes, so what its masks reach does not either.     *)
THEOREM TransparentInvariant == Spec => [](MasksReach(prog) => TransparentInv)
  <1> DEFINE Inv == MasksReach(prog) => TransparentInv
  <1>1. Init => Inv
    BY InitTransparent
  <1>2. Inv /\ [Next]_vars => Inv'
    <2> SUFFICES ASSUME Inv, [Next]_vars, MasksReach(prog)' PROVE TransparentInv'
      OBVIOUS
    <2>1. prog' = prog
      BY DEF Next, Run, OutOfBounds, CpuLimit, Compute, Branch, Return, Suspend, TryCatch,
             EndTry, ThrowCaught, ThrowUncaught, Resume, Ended, Fetch, vars
    <2>2. MasksReach(prog)
      BY <2>1
    <2>3. TransparentInv
      BY <2>2
    <2>4. CASE Compute
      BY <2>3, <2>4, ComputePreserves
    <2>5. CASE Branch
      BY <2>3, <2>5, BranchPreserves
    <2>6. CASE Suspend
      BY <2>3, <2>6, SuspendPreserves
    <2>7. CASE Resume
      BY <2>2, <2>3, <2>7, ResumePreserves
    <2>8. CASE TryCatch \/ EndTry
      BY <2>3, <2>8, TryPreserves
    <2>9. CASE ThrowCaught
      BY <2>3, <2>9, ThrowPreserves
    <2>10. CASE OutOfBounds \/ CpuLimit \/ Return \/ ThrowUncaught \/ Ended \/ UNCHANGED vars
      BY <2>3, <2>10, OthersPreserve
    <2> QED
      BY <2>4, <2>5, <2>6, <2>7, <2>8, <2>9, <2>10 DEF Next, Run
  <1> QED
    BY <1>1, <1>2, PTL DEF Spec

(* What a suspended agent asks for depends on the registers its suspension *)
(* reads alone.                                                            *)
LEMMA RequestsAgree ==
  ASSUME NEW inst, IsSuspension(inst), NEW r, NEW f, \A x \in Reads(inst) : r[x] = f[x]
  PROVE  Requests(inst, r) = Requests(inst, f)
  <1>1. r[0] = f[0]
    BY DEF IsSuspension, Reads
  <1>2. CASE inst.op = "Suspend"
    <2>1. inst.io_type = "KvPut" => r[1] = f[1]
      BY <1>2 DEF Reads
    <2>2. IoRequest(inst.io_type, r) = IoRequest(inst.io_type, f)
      BY <1>1, <2>1 DEF IoRequest
    <2> QED
      BY <1>2, <2>2 DEF Requests
  <1>3. CASE inst.op = "SuspendMulti"
    <2>1. IoRequest("Fetch", r) = IoRequest("Fetch", f)
      BY <1>1 DEF IoRequest
    <2> QED
      BY <1>3, <2>1 DEF Requests
  <1> QED
    BY <1>2, <1>3 DEF IsSuspension

(* Suspension is transparent to every program whose live masks cover what  *)
(* it may still read and whose live registers a mask can name: the frame   *)
(* that from_continuation rebuilds and an uninterrupted one cannot be told *)
(* apart by the program, nor by whom it asks.                              *)
THEOREM SuspensionTransparent == Spec => [](MasksReach(prog) => ResumeTransparent)
  <1>1. TransparentInv => ResumeTransparent
    <2> SUFFICES ASSUME TransparentInv PROVE ResumeTransparent
      OBVIOUS
    <2>1. ASSUME status = "suspended" PROVE cont.requests = Requests(Inst, full)
      <3>1. IsSuspension(Inst) /\ cont.requests = Requests(Inst, regs)
        BY <2>1 DEF TransparentInv, SuspendedAgrees, ContinuationOf
      <3>2. \A x \in Reads(Inst) : regs[x] = full[x]
        BY <2>1, ProgramFacts DEF TransparentInv, FrameTypes, SuspendedAgrees, AgreeAt
      <3> QED
        BY <3>1, <3>2, RequestsAgree
    <2> QED
      BY <2>1 DEF TransparentInv, RunningAgrees, AgreeAt, ResumeTransparent
  <1> QED
    BY <1>1, TransparentInvariant, PTL

-----------------------------------------------------------------------------
(* The place of a compiled program: how far its resume_table is used up.   *)
Passed(i) == \A n \in DOMAIN prog.resume_table : n < suspensions <=> prog.resume_table[n] <= i

PlaceInv ==
  /\ prog \in Programs
  /\ suspensions \in Nat
  /\ status = "running" => ip \in Nat /\ Passed(ip)
  /\ status = "suspended" =>
       /\ ip \in Nat
       /\ cont.ip = ip + 1
       /\ Passed(ip + 1)
       /\ prog.resume_table[suspensions - 1] = cont.ip

(* What the order of the table says of the instruction at ip.              *)
LEMMA EntriesAreSuspends ==
  ASSUME prog \in Programs, InEmittedOrder(prog)
  PROVE  /\ Cardinality(SuspendsAt(prog)) \in Nat
         /\ \A n \in DOMAIN prog.resume_table :
              n \in Nat /\ prog.resume_table[n] \in 1 .. Len(prog.code)
         /\ InBounds => ip + 1 \in 1 .. Len(prog.code)
  <1>1. Len(prog.code) \in Nat
    BY VMAssumption DEF IsProgram
  <1>2. IsFiniteSet(SuspendsAt(prog))
    <2>1. IsFiniteSet(1 .. Len(prog.code))
      BY <1>1, FS_Interval
    <2> QED
      BY <2>1, FS_Subset DEF SuspendsAt
  <1>3. Cardinality(SuspendsAt(prog)) \in Nat
    BY <1>2, FS_CardinalityType
  <1>4. ASSUME NEW n \in DOMAIN prog.resume_table
        PROVE  n \in Nat /\ prog.resume_table[n] \in 1 .. Len(prog.code)
    <2>1. n \in Nat
      BY <1>4 DEF InEmittedOrder
    <2>2. prog.resume_table[n] \in SuspendsAt(prog)
      BY <1>4 DEF InEmittedOrder
    <2> QED
      BY <2>1, <2>2 DEF SuspendsAt
  <1>5. InBounds => ip + 1 \in 1 .. Len(prog.code)
    BY <1>1 DEF InBounds
  <1> QED
    BY <1>3, <1>4, <1>5

(* An instruction that is no suspension leaves the table where it is.      *)
LEMMA StepKeepsPlace ==
  ASSUME InEmittedOrder(prog), PlaceInv, status = "running", InBounds, Inst.op # "Suspend"
  PROVE  ip + 1 \in Nat /\ Passed(ip + 1)
  <1>1. ip + 1 \notin SuspendsAt(prog)
    BY DEF SuspendsAt, Inst
  <1>2. \A n \in DOMAIN prog.resume_table : prog.resume_table[n] # ip + 1
    BY <1>1 DEF InEmittedOrder
  <1>3. \A n \in DOMAIN prog.resume_table : prog.resume_table[n] \in Int
    BY EntriesAreSuspends DEF PlaceInv
  <1> QED
    BY <1>2, <1>3 DEF PlaceInv, Passed

(* A suspension uses up the next entry, which names its instruction.       *)
LEMMA SuspendTakesEntry ==
  ASSUME InEmittedOrder(prog), PlaceInv, Suspend
  PROVE  PlaceInv'
  <1>1. /\ status = "running" /\ InBounds /\ IsSuspension(Inst)
        /\ cont'.ip = ip + 1 /\ status' = "suspended"
        /\ suspensions' = suspensions + 1
        /\ UNCHANGED <<prog, ip>>
    BY DEF Suspend, Fetch, ContinueAt, IsSuspension
  <1>2. /\ ip \in Nat /\ suspensions \in Nat /\ Passed(ip)
        /\ \A n \in DOMAIN prog.resume_table : n \in Nat /\ prog.resume_table[n] \in Nat
    BY <1>1, EntriesAreSuspends DEF PlaceInv
  <1>3. Inst.op # "SuspendMulti"
    BY <1>1, EntriesAreSuspends DEF InEmittedOrder, Inst, PlaceInv
  <1>4. ip + 1 \in SuspendsAt(prog)
    BY <1>1, <1>3, EntriesAreSuspends DEF SuspendsAt, Inst, IsSuspension, PlaceInv
  <1>5. PICK m \in DOMAIN prog.resume_table : prog.resume_table[m] = ip + 1
    BY <1>4 DEF InEmittedOrder
  <1>6. m >= suspensions
    BY <1>2, <1>5 DEF Passed
  <1>7. m <= suspensions
    <2> SUFFICES ASSUME suspensions < m PROVE FALSE
      BY <1>2
    <2>1. suspensions \in DOMAIN prog.resume_table
      BY <1>2, EntriesAreSuspends DEF InEmittedOrder, PlaceInv
    <2>2. prog.resume_table[suspensions] < ip + 1
      BY <1>5, <2>1 DEF InEmittedOrder
    <2> QED
      BY <1>2, <2>1, <2>2 DEF Passed
  <1>8. m = suspensions
    BY <1>2, <1>6, <1>7
  <1>9. Passed(ip + 1)'
    <2> SUFFICES ASSUME NEW n \in DOMAIN prog.resume_table
                 PROVE  n < suspensions + 1 <=> prog.resume_table[n] <= ip + 1
      BY <1>1 DEF Passed
    <2>1. CASE n < m
      BY <1>2, <1>5, <1>8, <2>1 DEF InEmittedOrder
    <2>2. CASE n = m
      BY <1>2, <1>5, <1>8, <2>2
    <2>3. CASE m < n
      <3>1. ip + 1 < prog.resume_table[n]
        BY <1>5, <2>3 DEF InEmittedOrder
      <3> QED
        BY <1>2, <1>8, <2>3, <3>1
    <2> QED
      BY <1>2, <2>1, <2>2, <2>3
  <1> QED
    BY <1>1, <1>2, <1>5, <1>8, <1>9 DEF PlaceInv

LEMMA PlaceKept ==
  ASSUME InEmittedOrder(prog), PlaceInv, [Next]_vars
  PROVE  PlaceInv'
  <1>1. CASE Compute \/ TryCatch \/ EndTry
    <2>1. /\ status = "running" /\ InBounds /\ Inst.op # "Suspend" /\ ip' = ip + 1
          /\ UNCHANGED <<prog, suspensions, status>>
      BY <1>1 DEF Compute, TryCatch, EndTry, Fetch
    <2>2. ip + 1 \in Nat /\ Passed(ip + 1)
      BY <2>1, StepKeepsPlace
    <2> QED
      BY <2>1, <2>2 DEF PlaceInv, Passed
  <1>2. CASE Branch \/ ThrowCaught \/ ThrowUncaught
    <2>1. InBounds /\ Inst.op \in {"Jump", "JumpTrue", "JumpFalse", "Throw"}
      BY <1>2 DEF Branch, ThrowCaught, ThrowUncaught, Fetch
    <2> QED
      BY <2>1, EntriesAreSuspends DEF InEmittedOrder, Inst, PlaceInv
  <1>3. CASE Suspend
    BY <1>3, SuspendTakesEntry
  <1>4. CASE Resume
    <2>1. /\ status = "suspended" /\ status' = "running" /\ ip' = cont.ip
          /\ UNCHANGED <<prog, suspensions>>
      BY <1>4 DEF Resume
    <2> QED
      BY <2>1 DEF PlaceInv, Passed
  <1>5. CASE OutOfBounds \/ CpuLimit \/ Return
    <2>1. UNCHANGED <<prog, suspensions>> /\ status' \notin {"running", "suspended"}
      BY <1>5 DEF OutOfBounds, CpuLimit, Return, Fetch, frameVars, ghosts
    <2> QED
      BY <2>1 DEF PlaceInv
  <1>6. CASE Ended \/ UNCHANGED vars
    <2>1. UNCHANGED <<prog, suspensions, status, ip, cont>>
      BY <1>6 DEF Ended, vars, frameVars, ghosts
    <2> QED
      BY <2>1 DEF PlaceInv, Passed
  <1> QED
    BY <1>1, <1>2, <1>3, <1>4, <1>5, <1>6 DEF Next, Run

(* A compiled agent goes on after its n-th await where the n-th entry of   *)
(* resume_table says, although run never consults the table: its code does *)
(* not branch, and the table lists the places after its suspensions in     *)
(* their order (VMAssumption).                                             *)
THEOREM ResumeTableFollowed == Spec => []ResumesWhereNoted
  <1> DEFINE Inv == prog \in Programs /\ (InEmittedOrder(prog) => PlaceInv)
  <1>1. Init => Inv
    <2> SUFFICES ASSUME Init PROVE Inv
      OBVIOUS
    <2>1. prog \in Programs /\ suspensions = 0 /\ ip = 0 /\ status = "running"
      BY DEF Init
    <2> QED
      BY <2>1, EntriesAreSuspends DEF PlaceInv, Passed
  <1>2. Inv /\ [Next]_vars => Inv'
    <2> SUFFICES ASSUME Inv, [Next]_vars PROVE Inv'
      OBVIOUS
    <2>1. prog' = prog
      BY DEF Next, Run, OutOfBounds, CpuLimit, Compute, Branch, Return, Suspend, TryCatch,
             EndTry, ThrowCaught, ThrowUncaught, Resume, Ended, Fetch, vars
    <2> QED
      BY <2>1, PlaceKept
  <1>3. Inv => ResumesWhereNoted
    BY VMAssumption DEF PlaceInv, ResumesWhereNoted
  <1> QED
    BY <1>1, <1>2, <1>3, PTL DEF Spec
=============================================================================
