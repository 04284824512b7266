-------------------------- MODULE Rv32Interpreter ---------------------------
(***************************************************************************)
(* The golden instruction-set interpreter, one action per instruction      *)
(* group.  It is the abstract specification of the core: no pipeline, one  *)
(* instruction per step, a trap instead of the instruction that faults.    *)
(*                                                                         *)
(* Telemetry proxies and performance counters depend on timing; a load of  *)
(* one of them may return any word.                                        *)
(***************************************************************************)
EXTENDS CapabilityLite, Sequences

\* What the second part of one word and the first part of the next decode to when the pc is
\* so many bytes into the first.
CONSTANT StraddledInstr(_, _, _)

VARIABLES rom, pc, regs, caps, dmem, software, securityLog, trap

iVars == <<rom, pc, regs, caps, dmem, software, securityLog, trap>>

\* The instruction memory holds the program and nothing else; every address past
\* it is the one halted state of step().
Normalize(a) == IF a < 4 * Len(rom) THEN a ELSE 4 * Len(rom)

Running == pc < 4 * Len(rom)

\* The memory is zero past the program, and a zero word is no instruction.
Blank == [NOP EXCEPT !.class = "SYSTEM"]

WordAt(k) == IF k < Len(rom) THEN rom[k + 1] ELSE Blank

\* The four bytes at pc, which are no word of the program after a jump to half a word.
CurrentInstr ==
    LET k == pc \div 4
    IN  IF pc % 4 = 0 THEN WordAt(k) ELSE StraddledInstr(WordAt(k), WordAt(k + 1), pc % 4)

InterpreterInit ==
    /\ pc = Normalize(0)
    /\ regs = [r \in Reg |-> 0]
    /\ caps = [c \in Cap |-> CapResetValue(c)]
    /\ dmem = [a \in 0 .. (RamSize - 1) |-> 0]
    /\ software = [behaviorClass |-> 0, schedHint |-> 0, currentContext |-> 0]
    /\ securityLog = [pending |-> FALSE, pc |-> 0, address |-> 0,
                      accessType |-> 0, reason |-> 0, context |-> 0]
    /\ trap = [enable |-> FALSE, active |-> FALSE, doubleFault |-> FALSE,
               vector |-> TrapVectorReset, epc |-> 0, accessType |-> 0, reason |-> 0,
               address |-> 0, context |-> 0]

-----------------------------------------------------------------------------
GoTo(a) == pc' = Normalize(a)
Advance == GoTo(Wrap(pc + 4))

WriteReg(r, w) == regs' = IF r = 0 THEN regs ELSE [regs EXCEPT ![r] = w]
WriteCap(c, cap) == caps' = IF c >= 3 THEN [caps EXCEPT ![c] = cap] ELSE caps

NoEffect == Advance /\ UNCHANGED <<regs, caps, dmem, software, securityLog, trap>>

\* trigger_security_violation and the squash of the faulting instruction.
Violation(accessType, reason, address) ==
    LET takeTrap == trap.enable /\ ~trap.active
    IN  /\ securityLog' =
              IF securityLog.pending THEN securityLog
              ELSE [pending |-> TRUE, pc |-> pc, address |-> address,
                    accessType |-> accessType, reason |-> reason,
                    context |-> software.currentContext]
        /\ trap' = CASE takeTrap ->
                          [trap EXCEPT !.active = TRUE, !.epc = WordAligned(pc),
                                       !.accessType = accessType, !.reason = reason,
                                       !.address = address,
                                       !.context = software.currentContext]
                     [] ~takeTrap /\ trap.enable -> [trap EXCEPT !.doubleFault = TRUE]
                     [] OTHER -> trap
        /\ IF takeTrap THEN GoTo(trap.vector) ELSE Advance
        /\ UNCHANGED <<regs, caps, dmem, software>>

-----------------------------------------------------------------------------
(* Loads and stores, once the address is known and allowed.                *)

RegisterHit(i, address) == AccessSize(i) = 4 /\ address \in DOMAIN RegisterAt

\* The words a load of a register may return.
RegisterWords(name) ==
    CASE name \in {"PROCESS_BEHAVIOR_CLASS"} -> {software.behaviorClass}
      [] name = "SCHED_HINT"      -> {software.schedHint}
      [] name = "CURRENT_CONTEXT" -> {software.currentContext}
      [] name = "SEC_STATUS"      -> {AsWord(securityLog.pending)}
      [] name = "SEC_PC"          -> {securityLog.pc}
      [] name = "SEC_ADDR"        -> {securityLog.address}
      [] name = "SEC_INFO"        -> {16 * securityLog.accessType + securityLog.reason}
      [] name = "SEC_CONTEXT"     -> {securityLog.context}
      [] name = "TRAP_CONTROL"    -> {AsWord(trap.enable)}
      [] name = "TRAP_STATUS"     -> {AsWord(trap.active) + 2 * AsWord(trap.doubleFault)}
      [] name = "TRAP_VECTOR"     -> {WordAligned(trap.vector)}
      [] name = "TRAP_EPC"        -> {WordAligned(trap.epc)}
      [] name = "TRAP_CAUSE"      -> {16 * trap.accessType + trap.reason}
      [] name = "TRAP_ADDR"       -> {trap.address}
      [] name = "TRAP_CONTEXT"    -> {trap.context}
      [] name \in {"REV_ENERGY_ACC", "BRANCH_CONFIDENCE", "TRAP_RETURN"} -> {0}
      [] name = "EDP_CONFIG"      -> {1}
      [] OTHER                    -> Word

Load(i, address) ==
    IF WindowHit(address)
    THEN IF RegisterHit(i, address)
         THEN /\ \E w \in RegisterWords(RegisterAt[address]) : WriteReg(i.rd, w)
              /\ Advance /\ UNCHANGED <<caps, dmem, software, securityLog, trap>>
         ELSE NoEffect
    ELSE IF InBounds(address) /\ ~Misaligned(i, address)
         THEN /\ WriteReg(i.rd, LoadValue(dmem, i, address))
              /\ Advance /\ UNCHANGED <<caps, dmem, software, securityLog, trap>>
         ELSE NoEffect

StoreRegister(name, w) ==
    LET returns == name = "TRAP_RETURN" /\ trap.active /\ Odd(w)
    IN  /\ software' = CASE name = "PROCESS_BEHAVIOR_CLASS" -> [software EXCEPT !.behaviorClass = w]
                         [] name = "SCHED_HINT" -> [software EXCEPT !.schedHint = w]
                         [] name = "CURRENT_CONTEXT" -> [software EXCEPT !.currentContext = w]
                         [] OTHER -> software
        /\ securityLog' = IF name = "SEC_STATUS" /\ Odd(w)
                          THEN [securityLog EXCEPT !.pending = FALSE] ELSE securityLog
        /\ trap' = CASE name = "TRAP_CONTROL" -> [trap EXCEPT !.enable = Odd(w)]
                     [] name = "TRAP_STATUS" /\ Odd(w \div 2) -> [trap EXCEPT !.doubleFault = FALSE]
                     [] name = "TRAP_VECTOR" -> [trap EXCEPT !.vector = WordAligned(w)]
                     [] name = "TRAP_EPC" /\ trap.active -> [trap EXCEPT !.epc = WordAligned(w)]
                     [] returns -> [trap EXCEPT !.active = FALSE]
                     [] OTHER -> trap
        /\ IF returns THEN GoTo(trap.epc) ELSE Advance
        /\ UNCHANGED <<regs, caps, dmem>>

Store(i, address, w) ==
    IF WindowHit(address)
    THEN IF RegisterHit(i, address) THEN StoreRegister(RegisterAt[address], w) ELSE NoEffect
    ELSE IF InBounds(address) /\ ~Misaligned(i, address)
         THEN /\ dmem' = StoreValue(dmem, i, address, w)
              /\ Advance /\ UNCHANGED <<regs, caps, software, securityLog, trap>>
         ELSE NoEffect

-----------------------------------------------------------------------------
(* One action per instruction group; i is the instruction at pc.           *)

Rs1(i) == regs[i.rs1]
Rs2(i) == regs[i.rs2]

DivideResult(i) ==
    CASE i.fn = "DIV"  -> Quotient(TRUE, Rs1(i), Rs2(i))
      [] i.fn = "DIVU" -> Quotient(FALSE, Rs1(i), Rs2(i))
      [] i.fn = "REM"  -> Remainder(TRUE, Rs1(i), Rs2(i))
      [] OTHER         -> Remainder(FALSE, Rs1(i), Rs2(i))

RegisterResult(i) ==
    CASE IsMul(i)          -> Multiply(i.fn, Rs1(i), Rs2(i))
      [] IsDiv(i)          -> DivideResult(i)
      [] i.class = "LUI"   -> i.imm
      [] i.class = "AUIPC" -> Wrap(pc + i.imm)
      [] i.class = "R" /\ ~IsMul(i) /\ ~IsDiv(i) -> Alu(i.fn, Rs1(i), Rs2(i))
      [] i.class = "I"     -> Alu(i.fn, Rs1(i), i.imm)
      [] OTHER             -> Wrap(pc + 4)

StepIllegal(i) == Illegal(i) /\ NoEffect

StepCompute(i) ==
    /\ ~Illegal(i) /\ i.class \in {"R", "I", "LUI", "AUIPC"}
    /\ WriteReg(i.rd, RegisterResult(i))
    /\ Advance /\ UNCHANGED <<caps, dmem, software, securityLog, trap>>

StepJump(i) ==
    /\ IsJump(i)
    /\ WriteReg(i.rd, RegisterResult(i))
    /\ GoTo(TargetAddress(i, pc, Rs1(i)))
    /\ UNCHANGED <<caps, dmem, software, securityLog, trap>>

StepBranch(i) ==
    /\ IsBranch(i)
    /\ IF Compare(i.fn, Rs1(i), Rs2(i)) THEN GoTo(Wrap(pc + i.imm)) ELSE Advance
    /\ UNCHANGED <<regs, caps, dmem, software, securityLog, trap>>

StepLoad(i) ==
    ~Illegal(i) /\ i.class = "LOAD" /\ Load(i, Wrap(Rs1(i) + i.imm))

StepStore(i) ==
    ~Illegal(i) /\ i.class = "STORE" /\ Store(i, Wrap(Rs1(i) + i.imm), Rs2(i))

\* CSETBOUNDS compares the requested top with the parent's top, in integers.
StepSetBounds(i) ==
    /\ IsCapOp(i) /\ i.fn = "CSETBOUNDS"
    /\ LET cap     == caps[i.rs1]
           reqBase == Wrap(cap.base + cap.offset)
       IN  CASE ~cap.tag -> Violation(3, 1, reqBase)
             [] cap.tag /\ reqBase + Rs2(i) > cap.base + cap.length -> Violation(3, 6, reqBase)
             [] OTHER ->
                  /\ WriteCap(i.rd, [tag |-> TRUE, base |-> reqBase, length |-> Rs2(i),
                                     perms |-> cap.perms, offset |-> 0])
                  /\ Advance /\ UNCHANGED <<regs, dmem, software, securityLog, trap>>

StepAndPerm(i) ==
    /\ IsCapOp(i) /\ i.fn = "CANDPERM"
    /\ LET cap == caps[i.rs1]
       IN  IF ~cap.tag THEN Violation(3, 1, cap.base)
           ELSE /\ WriteCap(i.rd, [cap EXCEPT !.perms = @ \intersect PermsOfWord(Rs2(i))])
                /\ Advance /\ UNCHANGED <<regs, dmem, software, securityLog, trap>>

StepIncOffset(i) ==
    /\ IsCapOp(i) /\ i.fn = "CINCOFFSET"
    /\ LET cap       == caps[i.rs1]
           cursor    == Wrap(cap.base + cap.offset)
           newOffset == cap.offset + Signed(Rs2(i))
       IN  CASE ~cap.tag -> Violation(3, 1, cursor)
             [] cap.tag /\ (newOffset < 0 \/ newOffset > cap.length) -> Violation(3, 2, cursor)
             [] OTHER ->
                  /\ WriteCap(i.rd, [cap EXCEPT !.offset = newOffset])
                  /\ Advance /\ UNCHANGED <<regs, dmem, software, securityLog, trap>>

StepCapRead(i) ==
    /\ IsCapOp(i) /\ i.fn \in CapGetFns
    /\ WriteReg(i.rd, CapField(i.fn, caps[i.rs1]))
    /\ Advance /\ UNCHANGED <<caps, dmem, software, securityLog, trap>>

StepCapClear(i) ==
    /\ IsCapOp(i) /\ i.fn = "CCLEAR"
    /\ WriteCap(i.rd, NullCapability)
    /\ Advance /\ UNCHANGED <<regs, dmem, software, securityLog, trap>>

StepCapMem(i) ==
    /\ IsCapMem(i)
    /\ LET cap     == caps[i.rs1]
           isStore == i.class = "CAPSTORE"
           address == Wrap(cap.base + cap.offset + i.imm)
           refusal == CASE ~cap.tag -> 1
                        [] cap.tag /\ ~(/\ address >= cap.base
                                        /\ address + AccessSize(i) <= cap.base + cap.length) -> 2
                        [] OTHER -> IF isStore THEN (IF 2 \in cap.perms THEN 0 ELSE 4)
                                               ELSE (IF 1 \in cap.perms THEN 0 ELSE 3)
       IN  CASE refusal # 0 -> Violation(AsWord(isStore), refusal, address)
             [] refusal = 0 /\ isStore  -> Store(i, address, Rs2(i))
             [] refusal = 0 /\ ~isStore -> Load(i, address)

Step ==
    /\ Running
    /\ UNCHANGED rom
    /\ LET i == CurrentInstr
       IN  \/ StepIllegal(i)   \/ StepCompute(i)   \/ StepJump(i)      \/ StepBranch(i)
           \/ StepLoad(i)      \/ StepStore(i)     \/ StepSetBounds(i) \/ StepAndPerm(i)
           \/ StepIncOffset(i) \/ StepCapRead(i)   \/ StepCapClear(i)  \/ StepCapMem(i)

InterpreterSpec == InterpreterInit /\ [][Step]_iVars
=============================================================================
