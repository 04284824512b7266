--------------------------- MODULE PipelinedCore ----------------------------
(***************************************************************************)
(* The five-stage core.  Tick is one rising clock edge: every register of  *)
(* the core takes its next value from the values all registers have now,   *)
(* so the next-state relation is a conjunction with one conjunct per       *)
(* register, and the wires between them are state functions that keep the  *)
(* names they have in PipelinedCore.scala.                                 *)
(***************************************************************************)
EXTENDS DataMemory, CapabilityLite, SystemMMIO, IterativeDivider, Sequences

CONSTANT Programs       \* the instruction memories considered

ASSUME ProgramsAssumption ==
    \A p \in Programs : p \in Seq(Instruction) /\ 4 * Len(p) < WordModulus

VARIABLES
    rom,        \* the program loaded in instruction memory, fixed at reset
    pc,         \* program counter
    ifId, idEx, exMem, memWb,   \* pipeline registers
    regs,       \* x0 .. x31
    caps        \* c0 .. c7

coreVars == <<pc, ifId, idEx, exMem, memWb, regs, caps, dmem, divider>>
vars     == <<rom, coreVars, mmioVars>>

EmptyIfId == [valid |-> FALSE, pc |-> 0, instr |-> NOP]

EmptyIdEx == [valid |-> FALSE, pc |-> 0, instr |-> NOP,
              rs1Data |-> 0, rs2Data |-> 0, capRs1Data |-> NullCapability]

EmptyExMem == [valid |-> FALSE, pc |-> 0, instr |-> NOP, aluResult |-> 0, rs2Data |-> 0,
               capSource |-> NullCapability, derivation |-> NoDerivation,
               telemetryValid |-> FALSE]

EmptyMemWb == [valid |-> FALSE, pc |-> 0, instr |-> NOP, aluResult |-> 0, memReadData |-> 0,
               regWrite |-> FALSE, capRegWrite |-> FALSE,
               capWriteData |-> NullCapability, telemetryValid |-> FALSE]

Init ==
    /\ rom \in Programs
    /\ pc = 0
    /\ ifId = EmptyIfId /\ idEx = EmptyIdEx /\ exMem = EmptyExMem /\ memWb = EmptyMemWb
    /\ regs = [r \in Reg |-> 0]
    /\ caps = [c \in Cap |-> CapResetValue(c)]
    /\ DataMemoryInit
    /\ DividerInit
    /\ SystemMmioInit

-----------------------------------------------------------------------------
(* WB: the write port of the register files.                               *)

wbData ==
    CASE memWb.instr.class \in {"LOAD", "CAPLOAD"} -> memWb.memReadData
      [] memWb.instr.class \in {"JAL", "JALR"}     -> Wrap(memWb.pc + 4)
      [] memWb.instr.class = "LUI"                 -> memWb.instr.imm
      [] OTHER                                     -> memWb.aluResult

wbRegWrite == memWb.valid /\ memWb.regWrite /\ memWb.instr.rd # 0

capWen == memWb.valid /\ memWb.capRegWrite /\ Writable(CapRd(memWb.instr))

-----------------------------------------------------------------------------
(* MEM: authorization, the unified security event, the MMIO request and    *)
(* the redirects it decides.                                               *)

capReason ==
    CheckReason(exMem.capSource, exMem.aluResult, AccessSize(exMem.instr),
                MemWrite(exMem.instr))

isCapMemViolation == exMem.valid /\ IsCapMem(exMem.instr) /\ capReason # 0

capAccessAllow == ~isCapMemViolation

isDerivationViolation == exMem.valid /\ exMem.derivation.violation.valid

securityEvent ==
    [valid      |-> isCapMemViolation \/ isDerivationViolation,
     pc         |-> exMem.pc,
     address    |-> IF isCapMemViolation THEN exMem.aluResult
                    ELSE exMem.derivation.violation.address,
     accessType |-> CASE isCapMemViolation /\ MemWrite(exMem.instr)  -> AccessWrite
                      [] isCapMemViolation /\ ~MemWrite(exMem.instr) -> AccessRead
                      [] OTHER -> AccessCapabilityOperation,
     reason     |-> IF isCapMemViolation THEN capReason
                    ELSE exMem.derivation.violation.reason,
     context    |-> software.currentContext]

\* Fault: a refused access still reaches memory.
memRequestUnchecked ==
    [read    |-> exMem.valid /\ MemRead(exMem.instr),
     write   |-> exMem.valid /\ MemWrite(exMem.instr),
     address |-> exMem.aluResult,
     data    |-> exMem.rs2Data,
     width   |-> AccessSize(exMem.instr)]

memRequest ==
    [read    |-> exMem.valid /\ MemRead(exMem.instr) /\ capAccessAllow,
     write   |-> exMem.valid /\ MemWrite(exMem.instr) /\ capAccessAllow,
     address |-> exMem.aluResult,
     data    |-> exMem.rs2Data,
     width   |-> AccessSize(exMem.instr)]

takePreciseTrap == PreciseTrap(securityEvent)
takeTrapReturn  == TrapReturn(memRequest)

memWindowHit == WindowHit(exMem.aluResult)

loadAccepted ==
    /\ capAccessAllow
    /\ IF memWindowHit THEN ReadAccepted(memRequest)
                       ELSE ~Misaligned(exMem.instr, exMem.aluResult)

memReadData ==
    CASE memWindowHit -> ReadData(memRequest)
      [] ~memWindowHit /\ memRequest.read -> DataMemoryRead(exMem.instr, exMem.aluResult)
      [] OTHER -> 0

-----------------------------------------------------------------------------
(* EX: forwarding, the branch decision, capability derivation, the result. *)

isDivOp == IsDiv(idEx.instr)

\* The producers of a source register that EX can forward from; a load in MEM
\* has only its address yet.
FromExMem(rs) ==
    /\ exMem.valid /\ RegWrite(exMem.instr) /\ ~MemRead(exMem.instr)
    /\ exMem.instr.rd # 0 /\ exMem.instr.rd = rs

FromMemWb(rs) == wbRegWrite /\ memWb.instr.rd = rs

\* Fault: the older producer wins.
ForwardOldest(rs, latched) ==
    IF FromMemWb(rs) THEN wbData
    ELSE IF FromExMem(rs) THEN exMem.aluResult
    ELSE latched

Forward(rs, latched) ==
    IF FromExMem(rs) THEN exMem.aluResult
    ELSE IF FromMemWb(rs) THEN wbData
    ELSE latched

forwardedRs1 == Forward(idEx.instr.rs1, idEx.rs1Data)
forwardedRs2 == Forward(idEx.instr.rs2, idEx.rs2Data)

branchTaken    == idEx.valid /\ RedirectTaken(idEx.instr, forwardedRs1, forwardedRs2)
redirectTarget == TargetAddress(idEx.instr, idEx.pc, forwardedRs1)

exDerivation ==
    IF idEx.valid /\ IsCapOp(idEx.instr)
    THEN Derive(idEx.instr, idEx.capRs1Data, forwardedRs2)
    ELSE NoDerivation

exResult ==
    CASE IsCapMem(idEx.instr) -> Wrap(Cursor(idEx.capRs1Data) + idEx.instr.imm)
      [] IsCapOp(idEx.instr)  -> CapField(idEx.instr.fn, idEx.capRs1Data)
      [] IsMul(idEx.instr)    -> Multiply(idEx.instr.fn, forwardedRs1, forwardedRs2)
      [] isDivOp              -> IF idEx.instr.fn \in {"DIV", "DIVU"}
                                 THEN divider.finalQuotient ELSE divider.finalRemainder
      [] OTHER                -> AluResult(idEx.instr, idEx.pc, forwardedRs1, forwardedRs2)

divHold == idEx.valid /\ isDivOp /\ ~DividerDone /\ ~takePreciseTrap /\ ~takeTrapReturn

\* Fault: the divider is started once it is done.
divStartWhenDone == idEx.valid /\ isDivOp /\ DividerDone

divStart == idEx.valid /\ isDivOp /\ ~DividerBusy

\* Capability and divider operations leave the telemetry proxies alone, and so
\* do the instructions that do not write back the ALU result.
exTelemetryValid ==
    /\ idEx.valid /\ ~divHold
    /\ ~Illegal(idEx.instr) /\ ~IsDiv(idEx.instr)
    /\ idEx.instr.class \notin {"CAP", "CAPLOAD", "CAPSTORE", "JAL", "JALR", "LUI"}

-----------------------------------------------------------------------------
(* ID: hazards against the producers in EX and MEM, operand read.          *)

loadUseHazard ==
    /\ ifId.valid /\ idEx.valid /\ MemRead(idEx.instr) /\ idEx.instr.rd # 0
    /\ \/ UsesIntRs1(ifId.instr) /\ idEx.instr.rd = ifId.instr.rs1
       \/ UsesIntRs2(ifId.instr) /\ idEx.instr.rd = ifId.instr.rs2

\* Fault: only the producer in EX is looked at.
capHazardInExOnly ==
    /\ ifId.valid /\ UsesCapRs1(ifId.instr) /\ CapRs1(ifId.instr) # 0
    /\ idEx.valid /\ CapRegWrite(idEx.instr)
    /\ CapRd(idEx.instr) = CapRs1(ifId.instr)

capHazard ==
    /\ ifId.valid /\ UsesCapRs1(ifId.instr) /\ CapRs1(ifId.instr) # 0
    /\ \/ /\ idEx.valid /\ CapRegWrite(idEx.instr)
          /\ CapRd(idEx.instr) = CapRs1(ifId.instr)
       \/ /\ exMem.valid /\ exMem.derivation.write
          /\ CapRd(exMem.instr) = CapRs1(ifId.instr)

isFlush  == takePreciseTrap \/ takeTrapReturn \/ branchTaken

stallIF   == ((loadUseHazard \/ capHazard) /\ ~isFlush) \/ divHold
stallID   == stallIF

\* Fault: a taken branch does not squash the instruction being fetched.
flushIFIDOnTrapOnly == takePreciseTrap \/ takeTrapReturn

flushIFID == isFlush

\* Fault: the divider hold bubbles EX like the other stalls.
flushIDEXOnHold == isFlush \/ loadUseHazard \/ capHazard \/ divHold

flushIDEX == isFlush \/ loadUseHazard \/ capHazard

flushEXMEM == takePreciseTrap \/ takeTrapReturn

\* Register file reads, bypassed from the write of the same cycle.
ReadReg(r) == IF wbRegWrite /\ memWb.instr.rd = r THEN wbData ELSE regs[r]
ReadCap(c) == IF capWen /\ CapRd(memWb.instr) = c THEN memWb.capWriteData ELSE caps[c]

-----------------------------------------------------------------------------
(* IF                                                                      *)

ifValid == pc < 4 * Len(rom)

ifInstruction == IF pc \div 4 < Len(rom) THEN rom[(pc \div 4) + 1] ELSE NOP

-----------------------------------------------------------------------------
(* The clock edge, one register at a time.                                 *)

PcTick ==
    pc' = CASE takePreciseTrap -> trap.vector
            [] ~takePreciseTrap /\ takeTrapReturn -> trap.epc
            [] ~flushEXMEM /\ branchTaken -> redirectTarget
            [] ~isFlush /\ stallIF -> pc
            [] OTHER -> Wrap(pc + 4)

IfIdTick ==
    ifId' = CASE flushIFID -> EmptyIfId
              [] ~flushIFID /\ stallID -> ifId
              [] OTHER -> [valid |-> ifValid, pc |-> pc, instr |-> ifInstruction]

IdExTick ==
    idEx' = CASE flushIDEX -> EmptyIdEx
              [] ~flushIDEX /\ divHold -> idEx
              [] OTHER -> [valid      |-> ifId.valid,
                           pc         |-> ifId.pc,
                           instr      |-> ifId.instr,
                           rs1Data    |-> ReadReg(ifId.instr.rs1),
                           rs2Data    |-> ReadReg(ifId.instr.rs2),
                           capRs1Data |-> ReadCap(CapRs1(ifId.instr))]

ExMemTick ==
    exMem' = IF flushEXMEM
             THEN EmptyExMem
             ELSE [valid          |-> idEx.valid /\ ~divHold,
                   pc             |-> idEx.pc,
                   instr          |-> idEx.instr,
                   aluResult      |-> exResult,
                   rs2Data        |-> forwardedRs2,
                   capSource      |-> idEx.capRs1Data,
                   derivation     |-> exDerivation,
                   telemetryValid |-> exTelemetryValid]

MemWbTick ==
    memWb' = [valid          |-> exMem.valid /\ ~takePreciseTrap,
              pc             |-> exMem.pc,
              instr          |-> exMem.instr,
              aluResult      |-> exMem.aluResult,
              memReadData    |-> memReadData,
              regWrite       |-> /\ RegWrite(exMem.instr) /\ ~takePreciseTrap
                                 /\ MemRead(exMem.instr) => loadAccepted,
              capRegWrite    |-> exMem.derivation.write /\ capAccessAllow /\ ~takePreciseTrap,
              capWriteData   |-> exMem.derivation.cap,
              telemetryValid |-> exMem.telemetryValid /\ capAccessAllow /\ ~takePreciseTrap]

RegsTick == regs' = IF wbRegWrite THEN [regs EXCEPT ![memWb.instr.rd] = wbData] ELSE regs

CapsTick ==
    caps' = IF capWen THEN [caps EXCEPT ![CapRd(memWb.instr)] = memWb.capWriteData] ELSE caps

\* The events of the cycle that the performance counters see.
countedEvents ==
    [retire        |-> memWb.valid,
     commitPc      |-> memWb.pc,
     branchTaken   |-> branchTaken /\ IsBranch(idEx.instr),
     loadUseStall  |-> loadUseHazard,
     dividerBusy   |-> DividerBusy,
     pipelineStall |-> stallIF]

retiredOperation ==
    [valid            |-> memWb.valid /\ memWb.telemetryValid,
     claActive        |-> ~IsMul(memWb.instr) /\ AluFn(memWb.instr) \in {"ADD", "SUB"},
     multiplierActive |-> IsMul(memWb.instr),
     result           |-> memWb.aluResult]

Tick ==
    /\ PcTick /\ IfIdTick /\ IdExTick /\ ExMemTick /\ MemWbTick
    /\ RegsTick /\ CapsTick
    /\ DataMemoryTick(memRequest.write /\ ~memWindowHit, exMem.instr, exMem.aluResult,
                      exMem.rs2Data)
    /\ DividerTick(divStart, flushEXMEM, forwardedRs1, forwardedRs2,
                   idEx.instr.fn \in {"DIV", "REM"})
    /\ SystemMmioTick(memRequest, securityEvent, countedEvents, retiredOperation)
    /\ UNCHANGED rom

\* Past the end of the program the fetch stage only delivers invalid slots.  The
\* model stops there: the hardware would keep counting until the program counter
\* wraps around the address space.
drained ==
    /\ ~ifValid
    /\ ~ifId.valid /\ ~idEx.valid /\ ~exMem.valid /\ ~memWb.valid

Stopped == drained /\ UNCHANGED vars

Clock == ~drained /\ Tick

Next == Clock \/ Stopped

Spec == Init /\ [][Next]_vars

\* The clock never stops.
FairSpec == Spec /\ WF_vars(Clock)

-----------------------------------------------------------------------------
(* Properties.                                                             *)

\* The shape of every register of the core.
TypeOK ==
    /\ rom \in Seq(Instruction) /\ 4 * Len(rom) < WordModulus
    /\ pc \in Word
    /\ ifId \in [valid : BOOLEAN, pc : Word, instr : Instruction]
    /\ idEx \in [valid : BOOLEAN, pc : Word, instr : Instruction,
                 rs1Data : Word, rs2Data : Word, capRs1Data : Capability]
    /\ exMem \in [valid : BOOLEAN, pc : Word, instr : Instruction, aluResult : Word,
                  rs2Data : Word, capSource : Capability, derivation : DerivationSet,
                  telemetryValid : BOOLEAN]
    /\ memWb \in [valid : BOOLEAN, pc : Word, instr : Instruction, aluResult : Word,
                  memReadData : Word, regWrite : BOOLEAN, capRegWrite : BOOLEAN,
                  capWriteData : Capability, telemetryValid : BOOLEAN]
    /\ regs \in [Reg -> Word]
    /\ caps \in [Cap -> Capability]
    /\ DataMemoryTypeOK
    /\ DividerTypeOK
    /\ SystemMmioTypeOK

\* An instruction leaves EX with the operands program order gives it: what
\* forwarding, the load-use interlock and the register file bypass deliver is what the
\* register file will hold once every older instruction has written back, although
\* those are still in MEM and WB.  The divider latches its operands when it starts.
OperandsCurrent ==
    [][ idEx.valid /\ ~flushEXMEM /\ ~(isDivOp /\ DividerBusy) =>
          \A r \in Reg :
              /\ UsesIntRs1(idEx.instr) /\ idEx.instr.rs1 = r => forwardedRs1 = ReadReg(r)'
              /\ UsesIntRs2(idEx.instr) /\ idEx.instr.rs2 = r => forwardedRs2 = ReadReg(r)'
      ]_vars

\* Capabilities are not forwarded: the interlock alone makes the capability latched in
\* ID/EX the one that all older derivations, taken or refused, leave in the c-file.
CapOperandCurrent ==
    [][ idEx.valid /\ ~flushEXMEM /\ UsesCapRs1(idEx.instr) =>
          \A c \in Cap : CapRs1(idEx.instr) = c => idEx.capRs1Data = ReadCap(c)' ]_vars

\* A capability that authorizes anything stems from one of the two roots.
Confined(cap) ==
    cap.tag => /\ cap.offset <= cap.length
               /\ Within(cap, RamRoot) \/ Within(cap, MmioRoot)

\* No sequence of derivations, in the c-file or still in the pipeline, makes a tagged
\* capability that reaches beyond the root it was derived from or holds more rights.
CapConfined ==
    /\ \A c \in Cap : Confined(caps[c])
    /\ Confined(idEx.capRs1Data)
    /\ Confined(exMem.capSource) /\ Confined(exMem.derivation.cap)
    /\ Confined(memWb.capWriteData)

\* A capability load or store that MEM lets through touches only data memory or only
\* the system window, every byte of it, and needs a right the roots have.
CapAccessContained ==
    LET first == exMem.aluResult
        last  == exMem.aluResult + AccessSize(exMem.instr) - 1
    IN  exMem.valid /\ IsCapMem(exMem.instr) /\ capAccessAllow =>
            (InBounds(first) /\ InBounds(last)) \/ (WindowHit(first) /\ WindowHit(last))

\* An instruction that raises a security event has no other effect, whether it traps,
\* is a nested fault or traps are disabled: it issues no memory request and writes no
\* register, in MEM or later.
FaultHasNoEffect ==
    [][ securityEvent.valid =>
          /\ ~memRequest.read /\ ~memRequest.write
          /\ UNCHANGED <<dmem, software>>
          /\ ~(memWb'.valid /\ (memWb'.regWrite \/ memWb'.capRegWrite)) ]_vars

\* The two records of a violation never tell different stories: a trap is also
\* logged, with the same evidence unless the log still holds an earlier violation.
TrapAndLogAgree ==
    [][ takePreciseTrap =>
          /\ securityLog'.pending
          /\ trap'.epc = exMem.pc
          /\ securityLog.pending \/ /\ securityLog'.pc = trap'.epc
                                    /\ securityLog'.address = trap'.address
                                    /\ InfoWord(securityLog') = InfoWord(trap')
                                    /\ securityLog'.context = trap'.context ]_vars

\* The evidence of the open trap survives whatever the handler does, nested faults
\* included, until the handler returns; only the return address is the handler's.
TrapEvidenceKept ==
    [][ trap.active /\ trap'.active =>
          /\ InfoWord(trap') = InfoWord(trap)
          /\ trap'.address = trap.address /\ trap'.context = trap.context
          /\ trap'.epc = trap.epc \/ Stores(memRequest, "TRAP_EPC") ]_vars

\* When the divider answers, the answer is that of the instruction that waits in EX,
\* for the operands program order gives it, whichever requests were killed before.
DividerAnswersEx ==
    idEx.valid /\ isDivOp /\ DividerDone =>
        exResult = LET a == ReadReg(idEx.instr.rs1)
                       b == ReadReg(idEx.instr.rs2)
                   IN  CASE idEx.instr.fn = "DIV"  -> Quotient(TRUE, a, b)
                         [] idEx.instr.fn = "DIVU" -> Quotient(FALSE, a, b)
                         [] idEx.instr.fn = "REM"  -> Remainder(TRUE, a, b)
                         [] OTHER                  -> Remainder(FALSE, a, b)

\* A valid instruction in EX waits there or reaches MEM, unless a trap or a trap
\* return of the older instruction in MEM squashes it.
NoInstructionLost ==
    [][ idEx.valid /\ ~flushEXMEM => idEx' = idEx \/ (exMem'.valid /\ exMem'.pc = idEx.pc) ]_vars

\* The only other way to leave EX is a division that waits for the divider while ID
\* interlocks on a capability: that interlock flushes ID/EX.
LostOnlyByCapHazard ==
    [][ idEx.valid /\ ~flushEXMEM /\ ~(divHold /\ capHazard) =>
          idEx' = idEx \/ (exMem'.valid /\ exMem'.pc = idEx.pc) ]_vars

\* A program that divides between a derivation and the next use of the derived
\* capability, the three one after another, in the slots k, k + 1 and k + 2.
DerivesAcrossDivision(p, k) ==
    /\ CapRegWrite(p[k]) /\ IsDiv(p[k + 1]) /\ UsesCapRs1(p[k + 2])
    /\ CapRs1(p[k + 2]) # 0 /\ CapRd(p[k]) = CapRs1(p[k + 2])

KeepsDivisions(p) == \A k \in 1 .. (Len(p) - 2) : ~DerivesAcrossDivision(p, k)

\* The clock always brings the core to retire an instruction or to take a trap, until
\* the program ends: no interlock, hold or flush repeats forever.
AlwaysRetires == []<>(memWb.valid \/ takePreciseTrap \/ drained)
=============================================================================
