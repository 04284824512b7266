----------------------------- MODULE AddressMap -----------------------------
(***************************************************************************)
(* The physical address space of a load or a store: data memory from       *)
(* address 0, and one window of word registers.                            *)
(***************************************************************************)
EXTENDS An32Isa

CONSTANTS
    RamSize,            \* bytes of data memory
    MmioBase,           \* first address of the system MMIO window
    MmioSize,           \* its size in bytes
    RegisterAt,         \* register name at each mapped address of the window
    TrapVectorReset     \* trap handler address after reset

MmioRegister ==
    {"REV_ENERGY_ACC", "CLA_SWITCHING", "MUL_THERMAL", "EDP_CURRENT", "EDP_CONFIG",
     "BRANCH_CONFIDENCE", "PROCESS_BEHAVIOR_CLASS", "SCHED_HINT", "RETIRED_COUNT",
     "BRANCH_TAKEN_COUNT", "LOAD_USE_STALL_COUNT", "DIV_BUSY_CYCLES",
     "PIPELINE_STALL_COUNT", "LAST_COMMIT_PC", "CURRENT_CONTEXT",
     "SEC_STATUS", "SEC_PC", "SEC_ADDR", "SEC_INFO", "SEC_CONTEXT",
     "TRAP_CONTROL", "TRAP_STATUS", "TRAP_VECTOR", "TRAP_EPC", "TRAP_CAUSE",
     "TRAP_ADDR", "TRAP_CONTEXT", "TRAP_RETURN"}

ASSUME AddressMapAssumption ==
    /\ RamSize \in Nat /\ RamSize % 4 = 0 /\ 0 < RamSize
    /\ MmioBase \in Nat /\ MmioSize \in Nat
    /\ RamSize <= MmioBase
    /\ MmioBase + MmioSize < WordModulus

ASSUME RegisterMapAssumption ==
    /\ DOMAIN RegisterAt \subseteq MmioBase .. (MmioBase + MmioSize - 1)
    /\ \A a \in DOMAIN RegisterAt : a % 4 = 0 /\ RegisterAt[a] \in MmioRegister
    /\ TrapVectorReset \in Word /\ TrapVectorReset % 4 = 0

-----------------------------------------------------------------------------
WindowHit(address) == MmioBase <= address /\ address < MmioBase + MmioSize

InBounds(address) == address < RamSize

\* A halfword needs an even address, a word one that is a multiple of four.
Misaligned(i, address) == address % AccessSize(i) # 0

WordAligned(w) == w - (w % 4)
Odd(w) == w % 2 = 1

Byte == 0 .. (ByteModulus - 1)

\* The k-th byte lane of a word.
Lane(w, k) == CASE k = 0 -> w % ByteModulus
                [] k = 1 -> (w \div ByteModulus) % ByteModulus
                [] k = 2 -> (w \div (ByteModulus * ByteModulus)) % ByteModulus
                [] OTHER -> w \div (ByteModulus * ByteModulus * ByteModulus)

\* Little-endian value of the n bytes (n = 1, 2, 4) at an address of memory m.
LoadUnsigned(m, address, n) ==
    CASE n = 1 -> m[address]
      [] n = 2 -> m[address] + ByteModulus * m[address + 1]
      [] OTHER -> m[address] + ByteModulus * (m[address + 1]
                    + ByteModulus * (m[address + 2] + ByteModulus * m[address + 3]))

\* Sign extension of a value of the given modulus.
SignExtend(v, modulus) == IF 2 * v >= modulus THEN Wrap(v - modulus) ELSE v

LoadValue(m, i, address) ==
    LET raw == LoadUnsigned(m, address, AccessSize(i))
    IN  CASE i.fn = "B" -> SignExtend(raw, ByteModulus)
          [] i.fn = "H" -> SignExtend(raw, ByteModulus * ByteModulus)
          [] OTHER      -> raw

\* The memory after storing the low bytes of w.
StoreValue(m, i, address, w) ==
    [a \in DOMAIN m |->
        IF a \in address .. (address + AccessSize(i) - 1) THEN Lane(w, a - address) ELSE m[a]]
=============================================================================
