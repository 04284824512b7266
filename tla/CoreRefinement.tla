--------------------------- MODULE CoreRefinement ---------------------------
(***************************************************************************)
(* The pipelined core implements the golden interpreter.                   *)
(*                                                                         *)
(* The program point of the core is the oldest instruction that has not    *)
(* gone through MEM, because MEM is where an instruction takes effect or   *)
(* traps; what MEM/WB is about to write counts as written.  One tick with  *)
(* a valid MEM stage is one step of the interpreter, any other tick is a   *)
(* stuttering step.                                                        *)
(***************************************************************************)
EXTENDS PipelinedCore

CONSTANT StraddledInstr(_, _, _)   \* what the interpreter decodes at half a word

archPc ==
    LET next == CASE exMem.valid -> exMem.pc
                  [] ~exMem.valid /\ idEx.valid -> idEx.pc
                  [] ~exMem.valid /\ ~idEx.valid /\ ifId.valid -> ifId.pc
                  [] OTHER -> pc
    IN  IF next < 4 * Len(rom) THEN next ELSE 4 * Len(rom)

archRegs == [r \in Reg |-> ReadReg(r)]
archCaps == [c \in Cap |-> ReadCap(c)]

Golden == INSTANCE Rv32Interpreter WITH pc <- archPc, regs <- archRegs, caps <- archCaps

\* Every behaviour of the core is one of the golden interpreter: forwarding,
\* interlocks, divider holds, squashes, traps and trap returns are invisible to the
\* program.  This is what the differential harness samples on generated programs.
RefinesInterpreter == Golden!InterpreterSpec

\* Core and interpreter differ on a load that is neither in data memory nor in the
\* window, on a division lost to the capability interlock, on an instruction reached by a
\* jump to half a word (the core fetches the whole word around it, the interpreter decodes
\* the bytes that straddle two words and truncates the pc if they trap) and where the core's
\* program counter wraps around, which the interpreter has halted long before.  An
\* execution conforms that meets none of these.
LoadsUnmapped ==
    /\ exMem.valid /\ MemRead(exMem.instr) /\ loadAccepted
    /\ ~memWindowHit /\ ~InBounds(exMem.aluResult)

Conforming ==
    /\ ~LoadsUnmapped
    /\ ~(divHold /\ capHazard)
    /\ exMem.valid => exMem.pc % 4 = 0
    /\ pc + 4 < WordModulus
=============================================================================
