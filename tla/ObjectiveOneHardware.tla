------------------------ MODULE ObjectiveOneHardware ------------------------
(***************************************************************************)
(* The arithmetic hardware of Objective 1 down to its gates: adders, the   *)
(* Booth and Wallace multipliers, the ALU over them, reversible gates.     *)
(* A word is a number; a wire of it is a bit, a vector of wires a function *)
(* from positions to Booleans.                                             *)
(***************************************************************************)
EXTENDS Integers, Sequences, FiniteSets, SequencesExt, FiniteSetsExt

CONSTANT Width      \* 32 in the design

ASSUME WidthAssumption == Width \in {8, 16, 32}

\* What the proofs use of powers of two.
ASSUME PowersAssumption ==
    /\ 2^0 = 1 /\ 2^1 = 2
    /\ \A j \in 0 .. 2 * Width + 2 : 2^j \in Nat \ {0}
    /\ \A j, k \in 0 .. 2 * Width + 2 : j + k <= 2 * Width + 2 => 2^(j + k) = 2^j * 2^k
    /\ \A k \in 0 .. Width : 4^k = 2^(2 * k)
    /\ \A k \in 0 .. Width \div 4 : 16^k = 2^(4 * k)

Word   == 0 .. 2^Width - 1
Wires  == 0 .. Width - 1
BitOf(x, i) == (x \div 2^i) % 2 = 1
SignedOf(x) == IF x < 2^(Width - 1) THEN x ELSE x - 2^Width
WordOf(n) == n % 2^Width
ComplementOf(x) == 2^Width - 1 - x

\* f[0] + ... + f[n - 1]
SumBelow(f, n) ==
    LET partial[k \in 0 .. n] == IF k = 0 THEN 0 ELSE partial[k - 1] + f[k - 1]
    IN  partial[n]

\* The number on the wires 0 to n - 1.
NumberOn(wires, n) == SumBelow([i \in 0 .. n - 1 |-> IF wires[i] THEN 2^i ELSE 0], n)

\* Bit by bit, on words and on the rows of a multiplier, which have 2 * Width + 2 bits.
BitByBit(gate, x, y) ==
    NumberOn([i \in 0 .. 2 * Width + 1 |-> gate[BitOf(x, i)][BitOf(y, i)]], 2 * Width + 2)

x & y  == BitByBit([a \in BOOLEAN |-> [b \in BOOLEAN |-> a /\ b]], x, y)
x | y  == BitByBit([a \in BOOLEAN |-> [b \in BOOLEAN |-> a \/ b]], x, y)
x ^^ y == BitByBit([a \in BOOLEAN |-> [b \in BOOLEAN |-> a # b]], x, y)

-----------------------------------------------------------------------------
(* Adders.                                                                 *)

FullAdderSum(a, b, c)   == (a # b) # c
FullAdderCarry(a, b, c) == (a /\ b) \/ (c /\ (a # b))

RippleCarries(a, b, cin) ==
    LET carries[i \in 0 .. Width] ==
            IF i = 0 THEN cin
            ELSE FullAdderCarry(BitOf(a, i - 1), BitOf(b, i - 1), carries[i - 1])
    IN  carries

RippleCarryAdder(a, b, cin) ==
    LET carries == RippleCarries(a, b, cin)
    IN  [sum |-> NumberOn([i \in Wires |->
                    FullAdderSum(BitOf(a, i), BitOf(b, i), carries[i])], Width),
         carryOut |-> carries[Width]]

\* The carry into position i from what the positions below generate and propagate.
Lookahead(generate, propagate, cin, i) ==
    \/ cin /\ \A k \in 0 .. i - 1 : propagate[k]
    \/ \E s \in 0 .. i - 1 : generate[s] /\ \A k \in s + 1 .. i - 1 : propagate[k]

CLA4(a, b, cin) ==
    LET propagate == [i \in 0 .. 3 |-> BitOf(a, i) # BitOf(b, i)]
        generate  == [i \in 0 .. 3 |-> BitOf(a, i) /\ BitOf(b, i)]
    IN  [sum |-> NumberOn([i \in 0 .. 3 |->
                    propagate[i] # Lookahead(generate, propagate, cin, i)], 4),
         groupPropagate |-> \A i \in 0 .. 3 : propagate[i],
         groupGenerate  |-> Lookahead(generate, propagate, FALSE, 4)]

Blocks == 0 .. Width \div 4 - 1
Nibble(x, k) == (x \div 16^k) % 16

HierarchicalCarryLookaheadAdder(a, b, cin) ==
    LET group == [k \in Blocks |-> CLA4(Nibble(a, k), Nibble(b, k), FALSE)]
        generate  == [k \in Blocks |-> group[k].groupGenerate]
        propagate == [k \in Blocks |-> group[k].groupPropagate]
        block(k) == CLA4(Nibble(a, k), Nibble(b, k), Lookahead(generate, propagate, cin, k))
    IN  [sum |-> SumBelow([k \in Blocks |-> block(k).sum * 16^k], Width \div 4),
         carryOut |-> Lookahead(generate, propagate, cin, Width \div 4),
         groupPropagate |-> propagate, groupGenerate |-> generate]

-----------------------------------------------------------------------------
(* Multipliers.                                                            *)

Groups == 0 .. Width \div 2 - 1
Accumulator == 2^(2 * Width + 2)

\* The three bits a group looks at; below the lowest bit there is a zero.
BoothCode(b, g) == ((2 * b) \div 4^g) % 8

BoothMultiple(code, a) ==
    CASE code \in {1, 2} -> a
      [] code = 3        -> 2 * a
      [] code = 4        -> -(2 * a)
      [] code \in {5, 6} -> -a
      [] OTHER           -> 0

BoothRows(a, b) ==
    [g \in Groups |-> (BoothMultiple(BoothCode(b, g), SignedOf(a)) * 4^g) % Accumulator]

CarrySaveCompressor(x, y, z) ==
    <<(x ^^ y) ^^ z, (2 * (((x & y) | (x & z)) | (y & z))) % Accumulator>>

\* One layer: rows in groups of three become two, what is left over passes.
WallaceLayer(rows) ==
    LET n == Len(rows) \div 3
        pair(k) == CarrySaveCompressor(rows[3 * k + 1], rows[3 * k + 2], rows[3 * k + 3])
    IN  [i \in 1 .. Len(rows) - n |->
            IF i <= 2 * n THEN pair((i - 1) \div 2)[((i - 1) % 2) + 1] ELSE rows[i + n]]

\* As many layers as it takes, which is fewer than there are rows.
WallaceTree(rows) ==
    LET layer[k \in 0 .. Len(rows)] ==
            IF k = 0 THEN rows
            ELSE LET above == layer[k - 1]
                 IN  IF Len(above) > 2 THEN WallaceLayer(above) ELSE above
        last == layer[Len(rows)]
    IN  last[1] + last[2]

BoothMultiplier(a, b) == SumBelow(BoothRows(a, b), Width \div 2) % 4^Width

BoothWallaceMultiplier(a, b) ==
    WallaceTree([i \in 1 .. Width \div 2 |-> BoothRows(a, b)[i - 1]]) % 4^Width

-----------------------------------------------------------------------------
(* The ALU: result and flags.                                              *)

ALUOpcode ==
    <<"ADD", "SUB", "AND", "OR", "XOR", "SLL", "SRL", "SRA", "SLT", "SLTU", "MUL">>

ALU(opcode, a, b) ==
    LET adder      == HierarchicalCarryLookaheadAdder(a, b, FALSE)
        subtractor == HierarchicalCarryLookaheadAdder(a, ComplementOf(b), TRUE)
        shift      == b % Width
        bool(p)    == IF p THEN 1 ELSE 0
        fn         == ALUOpcode[opcode + 1]
        result     ==
            CASE fn = "ADD"  -> adder.sum
              [] fn = "SUB"  -> subtractor.sum
              [] fn = "AND"  -> a & b
              [] fn = "OR"   -> a | b
              [] fn = "XOR"  -> a ^^ b
              [] fn = "SLL"  -> WordOf(a * 2^shift)
              [] fn = "SRL"  -> a \div 2^shift
              [] fn = "SRA"  -> WordOf(SignedOf(a) \div 2^shift)
              [] fn = "SLT"  -> bool(SignedOf(a) < SignedOf(b))
              [] fn = "SLTU" -> bool(a < b)
              [] fn = "MUL"  -> WordOf(BoothWallaceMultiplier(a, b))
        aSign == BitOf(a, Width - 1)
        bSign == BitOf(b, Width - 1)
        sign  == BitOf(result, Width - 1)
    IN  [result |-> result, zero |-> result = 0, negative |-> sign,
         carry |-> CASE fn = "ADD" -> adder.carryOut
                     [] fn = "SUB" -> subtractor.carryOut
                     [] OTHER -> FALSE,
         overflow |-> CASE fn = "ADD" -> aSign = bSign /\ sign # aSign
                        [] fn = "SUB" -> aSign # bSign /\ sign # aSign
                        [] OTHER -> FALSE]

-----------------------------------------------------------------------------
(* Reversible gates.                                                       *)

Fredkin(control, b, c) ==
    [p |-> control, q |-> IF control THEN c ELSE b, r |-> IF control THEN b ELSE c]

Toffoli(a, b, c) == [p |-> a, q |-> b, r |-> c # (a /\ b)]

-----------------------------------------------------------------------------
(* The telemetry block and the subsystem around it.  Its counters stay far *)
(* below the 32 bits they have.                                            *)

TelemetryAddress ==
    [RevEnergyAcc |-> 0, ClaSwitching |-> 4, MulThermal |-> 8, EdpCurrent |-> 12,
     EdpConfig |-> 16]

TelemetryReset ==
    [reversibleEnergy |-> 0, claSwitching |-> 0, multiplierThermal |-> 0, edpConfig |-> 1,
     previousResult |-> 0]

PopCount(x) == Cardinality({i \in Wires : BitOf(x, i)})

\* A clock edge with a valid operation; the subsystem wires no reversible one.
TelemetryBlock(t, opcode, result) ==
    LET activity == PopCount(result ^^ t.previousResult)
        fn == ALUOpcode[opcode + 1]
    IN  [t EXCEPT !.claSwitching = @ + (IF fn \in {"ADD", "SUB"} THEN activity ELSE 0),
                  !.multiplierThermal = @ + (IF fn = "MUL" THEN activity ELSE 0),
                  !.previousResult = result]

\* readData, for a byte offset in the block.
TelemetryRead(t, address) ==
    CASE address = TelemetryAddress.RevEnergyAcc -> t.reversibleEnergy
      [] address = TelemetryAddress.ClaSwitching -> t.claSwitching
      [] address = TelemetryAddress.MulThermal   -> t.multiplierThermal
      [] address = TelemetryAddress.EdpCurrent   ->
             (t.reversibleEnergy + t.claSwitching + t.multiplierThermal) * t.edpConfig
      [] address = TelemetryAddress.EdpConfig    -> t.edpConfig
      [] OTHER -> 0
=============================================================================
