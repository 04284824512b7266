------------------------------- MODULE MCCore -------------------------------
(***************************************************************************)
(* Instances of the core for TLC: 8-bit words of four 2-bit bytes, five    *)
(* integer and four capability registers, 16 bytes of data memory, the     *)
(* whole register map at 128 .. 239, and families of programs.             *)
(***************************************************************************)
EXTENDS CoreRefinement

MCMmioBase == 128

MCRegisterNames ==
    <<"REV_ENERGY_ACC", "CLA_SWITCHING", "MUL_THERMAL", "EDP_CURRENT", "EDP_CONFIG",
      "BRANCH_CONFIDENCE", "PROCESS_BEHAVIOR_CLASS", "SCHED_HINT", "RETIRED_COUNT",
      "BRANCH_TAKEN_COUNT", "LOAD_USE_STALL_COUNT", "DIV_BUSY_CYCLES",
      "PIPELINE_STALL_COUNT", "LAST_COMMIT_PC", "CURRENT_CONTEXT",
      "SEC_STATUS", "SEC_PC", "SEC_ADDR", "SEC_INFO", "SEC_CONTEXT",
      "TRAP_CONTROL", "TRAP_STATUS", "TRAP_VECTOR", "TRAP_EPC", "TRAP_CAUSE",
      "TRAP_ADDR", "TRAP_CONTEXT", "TRAP_RETURN">>

MCAddressOf(name) ==
    MCMmioBase + 4 * ((CHOOSE k \in 1 .. 28 : MCRegisterNames[k] = name) - 1)

MCRegisterAt ==
    [a \in {MCMmioBase + 4 * k : k \in 0 .. 27} |->
        MCRegisterNames[((a - MCMmioBase) \div 4) + 1]]

\* Bitwise operations on 8-bit words, one bit at a time.
MCBitwise(op(_, _), a, b) ==
    LET bit(k) == op((a \div 2^k) % 2, (b \div 2^k) % 2) * 2^k
    IN  bit(0) + bit(1) + bit(2) + bit(3) + bit(4) + bit(5) + bit(6) + bit(7)

MCLogicAlu(fn, a, b) ==
    LET and(x, y) == x * y
        or(x, y)  == x + y - x * y
        xor(x, y) == (x + y) % 2
        shift     == 2^(b % 8)
    IN  CASE fn = "AND" -> MCBitwise(and, a, b)
          [] fn = "OR"  -> MCBitwise(or, a, b)
          [] fn = "XOR" -> MCBitwise(xor, a, b)
          [] fn = "SLL" -> (a * shift) % 256
          [] fn = "SRL" -> a \div shift
          [] OTHER      -> ((IF a < 128 THEN a ELSE a - 256) \div shift) % 256

-----------------------------------------------------------------------------
(* Writing programs.                                                       *)

\* No program of a run that asks about the interpreter jumps to half a word.
MCStraddledInstr(first, second, offset) ==
    [class |-> "SYSTEM", fn |-> "ADD", rd |-> 0, rs1 |-> 0, rs2 |-> 0, imm |-> 0]

Ins(class, fn, rd, rs1, rs2, imm) ==
    [class |-> class, fn |-> fn, rd |-> rd, rs1 |-> rs1, rs2 |-> rs2, imm |-> imm]

AddI(rd, rs1, imm)    == Ins("I", "ADD", rd, rs1, 0, imm % 256)
Add(rd, rs1, rs2)     == Ins("R", "ADD", rd, rs1, rs2, 0)
Div(fn, rd, rs1, rs2) == Ins("R", fn, rd, rs1, rs2, 0)
LoadI(fn, rd, rs1, imm)   == Ins("LOAD", fn, rd, rs1, 0, imm)
StoreI(fn, rs1, rs2, imm) == Ins("STORE", fn, 0, rs1, rs2, imm)
Beq(rs1, rs2, imm)    == Ins("BRANCH", "EQ", 0, rs1, rs2, imm % 256)
Bne(rs1, rs2, imm)    == Ins("BRANCH", "NE", 0, rs1, rs2, imm % 256)
Jal(rd, imm)          == Ins("JAL", "LINK", rd, 0, 0, imm % 256)
Jalr(rd, rs1, imm)    == Ins("JALR", "LINK", rd, rs1, 0, imm % 256)
CapDo(fn, cd, cs1, rs2)   == Ins("CAP", fn, cd, cs1, rs2, 0)
CapGet(fn, rd, cs1)       == Ins("CAP", fn, rd, cs1, 0, 0)
CapLoad(rd, cs1, imm)     == Ins("CAPLOAD", "W", rd, cs1, 0, imm)
CapStore(cs1, rs2, imm)   == Ins("CAPSTORE", "W", 0, cs1, rs2, imm)
ReadMmio(rd, name)    == LoadI("W", rd, 0, MCAddressOf(name))
WriteMmio(name, rs2)  == StoreI("W", 0, rs2, MCAddressOf(name))

-----------------------------------------------------------------------------
(* Forwarding: every sequence of four instructions that read and write x3  *)
(* and x4 in every way an operand can travel.  Values turn negative in one *)
(* family and are jump targets in the other, all of them whole words: no   *)
(* program meets an instruction that the interpreter would not find there, *)
(* nor leaves the instruction memory at the top of the address space,      *)
(* where the program counter would wrap around.                            *)

ForwardingChoices ==
    {Add(4, 3, 4), LoadI("W", 3, 0, 4), LoadI("BU", 4, 0, 4), StoreI("B", 4, 3, 0),
     Beq(3, 4, 8), Ins("LUI", "UPPER", 4, 0, 0, 8)}

NegativeChoices == ForwardingChoices \union {AddI(3, 3, -7), Ins("R", "MULH", 3, 4, 3, 0)}
JumpChoices     == ForwardingChoices \union {AddI(3, 3, 8), Jalr(4, 3, 20)}

ForwardingPrograms ==
    {<<AddI(3, 0, 4)>> \o f \o <<StoreI("W", 0, 3, 8), StoreI("W", 0, 4, 12)>> :
        f \in [1 .. 4 -> NegativeChoices] \union [1 .. 4 -> JumpChoices]}

-----------------------------------------------------------------------------
(* Traps: three instructions on the capability c3, with a handler at 36.   *)

MCTrapVector == 36

TrapChoices ==
    {CapLoad(3, 3, 0), CapLoad(3, 3, 8), CapStore(3, 2, 4),
     CapDo("CANDPERM", 3, 3, 1), CapDo("CINCOFFSET", 3, 3, 2), CapDo("CINCOFFSET", 3, 3, 3),
     CapDo("CSETBOUNDS", 3, 3, 3), CapDo("CCLEAR", 3, 0, 0),
     CapGet("CGETOFFSET", 3, 3), CapDo("CSETBOUNDS", 3, 2, 2),
     WriteMmio("CURRENT_CONTEXT", 2), WriteMmio("SEC_STATUS", 1), Beq(3, 0, 8)}

Prologue(enable) ==
    <<AddI(1, 0, 1), AddI(2, 0, 12), WriteMmio("TRAP_CONTROL", enable),
      CapDo("CSETBOUNDS", 3, 1, 2)>>

\* Handlers read what they need, resume after the faulting instruction and do one thing
\* of their own in between.
Handler(own) ==
    <<ReadMmio(4, "TRAP_EPC"), own, AddI(4, 4, 4), WriteMmio("TRAP_EPC", 4),
      WriteMmio("TRAP_RETURN", 1), NOP>>

Program(prologue, free, own) ==
    prologue \o free \o <<Add(4, 3, 4), Jal(0, 28)>> \o Handler(own)

\* Traps are enabled and the handler reads the cause, or it faults itself, or traps
\* are disabled.
TrapPrograms ==
    {Program(Prologue(v[1]), f, v[2]) :
        v \in {<<1, ReadMmio(3, "TRAP_CAUSE")>>, <<1, CapLoad(4, 0, 0)>>, <<0, NOP>>},
        f \in [1 .. 3 -> TrapChoices]}

-----------------------------------------------------------------------------
(* Divisions next to each other, to traps, to branches and to capability   *)
(* reads.  No capability is written: see ProgressPrograms for that.        *)

DividerPrologue(dividend, divisor) ==
    <<AddI(1, 0, 1), WriteMmio("TRAP_CONTROL", 1), AddI(3, 0, dividend), AddI(4, 0, divisor)>>

DividerChoices ==
    {Div("DIV", 3, 3, 4), Div("REM", 4, 3, 4), Div("DIVU", 3, 4, 3), Div("REMU", 4, 3, 4),
     AddI(4, 4, -1), CapStore(0, 2, 0), Bne(3, 4, 8), CapGet("CGETBASE", 4, 2)}

DividerPrograms ==
    {Program(DividerPrologue(operands[1], operands[2]), f, Div("REM", 3, 3, 1)) :
        operands \in {<<-121, 7>>, <<-128, -1>>, <<100, 0>>}, f \in [1 .. 3 -> DividerChoices]}

\* What the core computes, whatever the program does.
CorePrograms == ForwardingPrograms \union TrapPrograms \union DividerPrograms

-----------------------------------------------------------------------------
(* Everything that makes the core wait or start over: divisions next to    *)
(* derivations and uses of c3, loads and branches, once, in endless loops  *)
(* and after a jump to half a word.  Some of these programs lose an        *)
(* instruction.                                                            *)

LossChoices ==
    {Div("DIV", 3, 2, 1), CapDo("CANDPERM", 3, 3, 2), CapLoad(4, 3, 0), LoadI("W", 2, 0, 8),
     Beq(3, 4, 8)}

InterlockChoices == LossChoices \union {CapDo("CSETBOUNDS", 3, 1, 2), Add(4, 2, 3)}

ProgressPrograms ==
    {Program(Prologue(1), f, Div("REM", 3, 3, 1)) : f \in [1 .. 3 -> LossChoices]}
    \union
    {Program(Prologue(1), <<a, b, NOP>>, CapLoad(4, 0, 0)) : a, b \in InterlockChoices}
    \union
    {Program(Prologue(1), <<a, b, Jal(0, -8)>>, NOP) : a \in InterlockChoices,
        b \in {CapLoad(4, 0, 0), CapLoad(4, 3, 0)}}
    \union
    {Program(Prologue(1), <<Jalr(4, 2, 10), a, b>>, NOP) : a, b \in InterlockChoices}

-----------------------------------------------------------------------------
(* Programs on which the code and what is said of it disagree.             *)

\* A division between the derivation of a capability and its use.
LostDivisionPrograms ==
    {Program(Prologue(1), <<CapDo("CANDPERM", 3, 3, 2), Div("DIV", 3, 2, 1), CapLoad(4, 3, 0)>>,
             NOP)}

\* A load of an address that is neither data memory nor a register.
UnmappedLoadPrograms ==
    {Program(Prologue(1), <<AddI(3, 0, 5), LoadI("W", 3, 0, 64)>>, NOP)}
=============================================================================
