------------------------------ MODULE An32Isa -------------------------------
(***************************************************************************)
(* Instructions of the core and what Decoder.scala makes of them.          *)
(*                                                                         *)
(* An instruction is a record: its major opcode (class), the operation     *)
(* selected by funct3/funct7 (fn), its register fields and its decoded     *)
(* immediate.  A class and an fn that do not belong together stand for an  *)
(* encoding the decoder rejects; "SYSTEM" is always rejected.              *)
(***************************************************************************)
EXTENDS An32Word

CONSTANTS
    NumRegs,    \* integer registers (32)
    NumCaps     \* capability registers (8)

ASSUME RegisterAssumption ==
    /\ NumRegs \in Nat /\ NumCaps \in Nat
    /\ 3 <= NumCaps /\ NumCaps <= NumRegs

Reg == 0 .. (NumRegs - 1)
Cap == 0 .. (NumCaps - 1)

MulFns  == {"MUL", "MULH", "MULHSU", "MULHU"}
DivFns  == {"DIV", "DIVU", "REM", "REMU"}
CmpFns  == {"EQ", "NE", "LT", "GE", "LTU", "GEU"}
CapDeriveFns == {"CSETBOUNDS", "CANDPERM", "CINCOFFSET"}
CapGetFns    == {"CGETBASE", "CGETLEN", "CGETTAG", "CGETPERM", "CGETOFFSET"}
LoadFns  == {"B", "H", "W", "BU", "HU"}
StoreFns == {"B", "H", "W"}
ImmAluFns == {"ADD", "SLT", "SLTU"} \union LogicFns

\* The operations each major opcode decodes to.
LegalFns ==
    [R        |-> ImmAluFns \union {"SUB"} \union MulFns \union DivFns,
     I        |-> ImmAluFns,
     LOAD     |-> LoadFns,
     STORE    |-> StoreFns,
     BRANCH   |-> CmpFns,
     JAL      |-> {"LINK"},
     JALR     |-> {"LINK"},
     LUI      |-> {"UPPER"},
     AUIPC    |-> {"UPPER"},
     CAP      |-> CapDeriveFns \union CapGetFns \union {"CCLEAR"},
     CAPLOAD  |-> StoreFns,
     CAPSTORE |-> StoreFns,
     SYSTEM   |-> {}]

Class == DOMAIN LegalFns
Fn    == UNION {LegalFns[c] : c \in Class}

Instruction == [class : Class, fn : Fn, rd : Reg, rs1 : Reg, rs2 : Reg, imm : Word]

NOP == [class |-> "I", fn |-> "ADD", rd |-> 0, rs1 |-> 0, rs2 |-> 0, imm |-> 0]

-----------------------------------------------------------------------------
\* Control signals of an instruction.

\* Capability register fields are five bits wide and only c0..c7 exist.
BadCapIndex(i) ==
    \/ /\ i.class \in {"CAPLOAD", "CAPSTORE"}
       /\ i.rs1 \notin Cap
    \/ /\ i.class = "CAP" /\ i.fn # "CCLEAR"
       /\ i.rs1 \notin Cap
    \/ /\ i.class = "CAP" /\ i.fn \notin CapGetFns
       /\ i.rd \notin Cap

Illegal(i) == i.fn \notin LegalFns[i.class] \/ BadCapIndex(i)

IsCapOp(i)  == ~Illegal(i) /\ i.class = "CAP"
IsCapMem(i) == ~Illegal(i) /\ i.class \in {"CAPLOAD", "CAPSTORE"}
IsMul(i)    == ~Illegal(i) /\ i.class = "R" /\ i.fn \in MulFns
IsDiv(i)    == ~Illegal(i) /\ i.class = "R" /\ i.fn \in DivFns
IsBranch(i) == ~Illegal(i) /\ i.class = "BRANCH"
IsJump(i)   == ~Illegal(i) /\ i.class \in {"JAL", "JALR"}

MemRead(i)  == ~Illegal(i) /\ i.class \in {"LOAD", "CAPLOAD"}
MemWrite(i) == ~Illegal(i) /\ i.class \in {"STORE", "CAPSTORE"}

RegWrite(i) ==
    /\ ~Illegal(i)
    /\ \/ i.class \in {"R", "I", "LOAD", "JAL", "JALR", "LUI", "AUIPC", "CAPLOAD"}
       \/ i.class = "CAP" /\ i.fn \in CapGetFns

CapRegWrite(i) == IsCapOp(i) /\ i.fn \notin CapGetFns
UsesCapRs1(i)  == IsCapMem(i) \/ (IsCapOp(i) /\ i.fn # "CCLEAR")
UsesIntRs1(i)  ==
    ~Illegal(i) /\ i.class \in {"R", "I", "LOAD", "STORE", "BRANCH", "JALR"}
UsesIntRs2(i)  ==
    /\ ~Illegal(i)
    /\ \/ i.class \in {"R", "STORE", "BRANCH", "CAPSTORE"}
       \/ i.class = "CAP" /\ i.fn \in CapDeriveFns

\* The three-bit capability fields that the hazard unit and c-file use.
CapRs1(i) == i.rs1 % NumCaps
CapRd(i)  == i.rd % NumCaps

\* ALU operation and operands.
AluFn(i) ==
    CASE i.class \in {"R", "I"} /\ i.fn \in LegalFns["R"] \ (MulFns \union DivFns) -> i.fn
      [] i.class = "BRANCH" /\ i.fn \in {"EQ", "NE"}   -> "SUB"
      [] i.class = "BRANCH" /\ i.fn \in {"LT", "GE"}   -> "SLT"
      [] i.class = "BRANCH" /\ i.fn \in {"LTU", "GEU"} -> "SLTU"
      [] OTHER -> "ADD"

AluOperandA(i, pc, rs1) ==
    CASE i.class \in {"JAL", "JALR", "AUIPC"} -> pc
      [] i.class = "LUI" -> 0
      [] OTHER -> rs1

AluOperandB(i, rs2) ==
    CASE i.class \in {"JAL", "JALR"} -> 4
      [] i.class \in {"I", "LOAD", "STORE", "LUI", "AUIPC"} -> i.imm
      [] OTHER -> rs2

AluResult(i, pc, rs1, rs2) == Alu(AluFn(i), AluOperandA(i, pc, rs1), AluOperandB(i, rs2))

\* BranchJumpUnit: is the redirect taken, and where to.
Compare(fn, a, b) ==
    CASE fn = "EQ"  -> a = b
      [] fn = "NE"  -> a # b
      [] fn = "LT"  -> Less(a, b)
      [] fn = "GE"  -> ~Less(a, b)
      [] fn = "LTU" -> LessUnsigned(a, b)
      [] OTHER      -> ~LessUnsigned(a, b)

RedirectTaken(i, a, b) == IsJump(i) \/ (IsBranch(i) /\ Compare(i.fn, a, b))

TargetAddress(i, pc, a) ==
    IF i.class = "JALR"
    THEN LET t == Wrap(a + i.imm) IN t - (t % 2)
    ELSE Wrap(pc + i.imm)

\* Bytes moved by a memory operation, and the natural alignment it needs.
AccessSize(i) == CASE i.fn \in {"B", "BU"} -> 1 [] i.fn \in {"H", "HU"} -> 2 [] OTHER -> 4
=============================================================================
