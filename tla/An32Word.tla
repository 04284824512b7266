------------------------------ MODULE An32Word ------------------------------
(***************************************************************************)
(* Words of the AN32 core and the arithmetic of its execute stage.         *)
(*                                                                         *)
(* The core is a 32-bit machine: XLEN = 32 and ByteModulus = 2^8.  Both    *)
(* are parameters, so that the same definitions are proved for every       *)
(* width and model-checked on 8-bit words made of four 2-bit bytes.        *)
(***************************************************************************)
EXTENDS Integers, FiniteSets

CONSTANTS
    XLEN,               \* bits in a word
    ByteModulus,        \* values of a byte; a word is four byte lanes
    LogicAlu(_, _, _)   \* bitwise and shift results of the ALU: (fn, a, b)

WordModulus == ByteModulus * ByteModulus * ByteModulus * ByteModulus

Word == 0 .. (WordModulus - 1)

LogicFns == {"AND", "OR", "XOR", "SLL", "SRL", "SRA"}

ASSUME WidthAssumption ==
    /\ XLEN \in Nat /\ XLEN > 0
    /\ ByteModulus \in Nat /\ ByteModulus >= 4 /\ ByteModulus % 2 = 0
    /\ 2^XLEN = WordModulus

ASSUME LogicAluAssumption ==
    \A fn \in LogicFns, a, b \in Word : LogicAlu(fn, a, b) \in Word

-----------------------------------------------------------------------------
\* Truncation of an integer to a word; the two's complement reading of one.
Wrap(n) == n % WordModulus

Negative(w) == 2 * w >= WordModulus

Signed(w) == IF Negative(w) THEN w - WordModulus ELSE w

Bit(w, k) == (w \div 2^k) % 2

\* PopCount(a ^ b).
HammingDistance(a, b) == Cardinality({k \in 0 .. (XLEN - 1) : Bit(a, k) # Bit(b, k)})

AsWord(condition) == IF condition THEN 1 ELSE 0

Less(a, b)         == Signed(a) < Signed(b)
LessUnsigned(a, b) == a < b

\* The ALU's result multiplexer.
Alu(fn, a, b) ==
    CASE fn = "ADD"  -> Wrap(a + b)
      [] fn = "SUB"  -> Wrap(a - b)
      [] fn = "SLT"  -> AsWord(Less(a, b))
      [] fn = "SLTU" -> AsWord(LessUnsigned(a, b))
      [] OTHER       -> LogicAlu(fn, a, b)

\* Fault: the high word of a signed product keeps its sign outside the word.
MultiplyUntruncated(fn, a, b) ==
    CASE fn = "MUL"    -> Wrap(Signed(a) * Signed(b))
      [] fn = "MULH"   -> (Signed(a) * Signed(b)) \div WordModulus
      [] fn = "MULHSU" -> Wrap((Signed(a) * b) \div WordModulus)
      [] OTHER         -> Wrap((a * b) \div WordModulus)

\* RV32M multiplication: the low word, or the high word of the product of the
\* operands extended as the operation says.
Multiply(fn, a, b) ==
    CASE fn = "MUL"    -> Wrap(Signed(a) * Signed(b))
      [] fn = "MULH"   -> Wrap((Signed(a) * Signed(b)) \div WordModulus)
      [] fn = "MULHSU" -> Wrap((Signed(a) * b) \div WordModulus)
      [] OTHER         -> Wrap((a * b) \div WordModulus)

Abs(n) == IF n < 0 THEN 0 - n ELSE n

\* RV32M division as the golden interpreter computes it.
Quotient(isSigned, a, b) ==
    LET sa == IF isSigned THEN Signed(a) ELSE a
        sb == IF isSigned THEN Signed(b) ELSE b
        q  == Abs(sa) \div Abs(sb)
    IN  IF b = 0 THEN WordModulus - 1
        ELSE Wrap(IF (sa < 0) # (sb < 0) THEN 0 - q ELSE q)

Remainder(isSigned, a, b) ==
    LET sa == IF isSigned THEN Signed(a) ELSE a
        sb == IF isSigned THEN Signed(b) ELSE b
        r  == Abs(sa) % Abs(sb)
    IN  IF b = 0 THEN a
        ELSE Wrap(IF sa < 0 THEN 0 - r ELSE r)
=============================================================================
