--------------------------- MODULE ArithmeticLabs ---------------------------
(***************************************************************************)
(* The labs of the Objective 1 workbench that compute in the browser what  *)
(* the hardware would: gates, adders, ALU and multipliers.  They never ask *)
(* the simulator, so nothing but their code ties them to the hardware.     *)
(* The telemetry lab and panel show what the simulator reads, by addresses *)
(* of their own.                                                           *)
(* Numbers of JavaScript are integers here, and & | ^ are its operators on *)
(* words; a field without a digit in it is the word 0.                     *)
(***************************************************************************)
EXTENDS ObjectiveOneHardware, LabPage

CONSTANTS
    Operand,            \* the words a user types
    Vector,             \* the operations of a benchmark sequence: opcode, a, b
    MaxOperations       \* bound on the operations executed while the telemetry is on screen

ASSUME OperandAssumption ==
    /\ Operand \subseteq Word
    /\ Vector \subseteq [opcode : 0 .. 10, a : Word, b : Word]
    /\ MaxOperations \in Nat

Flag(p) == IF p THEN 1 ELSE 0
Bit(x, i) == (x \div 2^i) % 2

-----------------------------------------------------------------------------
(* Reversible gates.  Inputs are in the order of the truth table's columns. *)

GatesLab ==
    [lab |-> "gates", fredkin |-> <<1, 1, 0>>, toffoli |-> <<1, 1, 0>>,
     activeGateView |-> "fredkin"]

ToggleInput(gate) ==
    /\ On("gates")
    /\ \E i \in 1 .. 3 : Set(gate, [page[gate] EXCEPT ![i] = 1 - @])

SelectGateView == Pick("gates", "activeGateView", {"fredkin", "toffoli"})

FredkinOutputs(in) ==
    <<in[1], IF in[1] = 1 THEN in[3] ELSE in[2], IF in[1] = 1 THEN in[2] ELSE in[3]>>

ToffoliOutputs(in) == <<in[1], in[2], in[3] ^^ (in[1] & in[2])>>

FredkinTable ==
    {<<0,0,0, 0,0,0>>, <<0,0,1, 0,0,1>>, <<0,1,0, 0,1,0>>, <<0,1,1, 0,1,1>>,
     <<1,0,0, 1,0,0>>, <<1,0,1, 1,1,0>>, <<1,1,0, 1,0,1>>, <<1,1,1, 1,1,1>>}

ToffoliTable ==
    {<<0,0,0, 0,0,0>>, <<0,0,1, 0,0,1>>, <<0,1,0, 0,1,0>>, <<0,1,1, 0,1,1>>,
     <<1,0,0, 1,0,0>>, <<1,0,1, 1,0,1>>, <<1,1,0, 1,1,1>>, <<1,1,1, 1,1,0>>}

ActiveRows(table, in) == {row \in table : SubSeq(row, 1, 3) = in}

-----------------------------------------------------------------------------
(* Fields that three labs share.                                           *)

EditOperand ==
    /\ page.lab \in {"adders", "alu", "multipliers"}
    /\ \E hook \in {"a", "b"}, x \in Operand : x # page[hook] /\ Set(hook, x)

-----------------------------------------------------------------------------
(* Adders.                                                                 *)

AddersLab ==
    [lab |-> "adders", a |-> 2^(Width \div 2) - 1, b |-> 1, cin |-> 0,
     activeSchematic |-> "hcla"]

ToggleCin == On("adders") /\ Set("cin", 1 - page.cin)

SelectAdderSchematic == Pick("adders", "activeSchematic", {"hcla", "cla4", "rca"})

\* The sum box: sum32 and cout.
ArchitectureSum(p) ==
    LET rawSum == p.a + p.b + p.cin
    IN  [sum |-> WordOf(rawSum), cout |-> rawSum >= 2^Width]

\* On single bits & is a conjunction and | a disjunction.
rippleCarries(p) ==
    LET carries[i \in 0 .. Width] ==
            IF i = 0 THEN p.cin
            ELSE LET ai == Bit(p.a, i - 1) = 1
                     bi == Bit(p.b, i - 1) = 1
                     c  == carries[i - 1] = 1
                 IN  Flag((ai /\ bi) \/ (ai /\ c) \/ (bi /\ c))
    IN  carries

\* The chain of four-bit groups: the value in the box of group k, and the position that its
\* label C4, C8, ... names.
ChainCarry(p, k) == rippleCarries(p)[4 * k + 1]
ChainLabel(k)    == 4 * k + 4

\* Fault: the term of the two highest propagates is missing.
GroupGenerate_Short(g, q) ==
    ((Bit(g, 3) | (Bit(q, 3) & Bit(g, 2))))
        | (((Bit(q, 3) & Bit(q, 2)) & Bit(q, 1)) & Bit(g, 0))

\* gG of a block from its nibbles of gVec and pVec.
GroupGenerate(g, q) ==
    ((Bit(g, 3) | (Bit(q, 3) & Bit(g, 2)))
        | ((Bit(q, 3) & Bit(q, 2)) & Bit(g, 1)))
        | (((Bit(q, 3) & Bit(q, 2)) & Bit(q, 1)) & Bit(g, 0))

\* The cards of the CLA4 blocks.
blocks(p) ==
    [k \in Blocks |->
        [pG |-> Flag(Nibble(p.a ^^ p.b, k) = 15),
         gG |-> GroupGenerate(Nibble(p.a & p.b, k), Nibble(p.a ^^ p.b, k)),
         sumNibble |-> Nibble(ArchitectureSum(p).sum, k)]]

-----------------------------------------------------------------------------
(* ALU.                                                                    *)

AluLab ==
    [lab |-> "alu", a |-> 42, b |-> 2, selectedOpcode |-> 0, activeSchematic |-> "alu_arch"]

SelectOpcode == Pick("alu", "selectedOpcode", 0 .. 10)

SelectAluSchematic == Pick("alu", "activeSchematic", {"alu_arch", "shifter", "yosys"})

shiftAmt(p) == p.b % Width

\* The switch: resultVal, carryOut, overflowFlag.
Evaluated(p) ==
    LET a == p.a
        b == p.b
        top(x)  == Bit(x, Width - 1)
        plain(x) == [result |-> x, carry |-> FALSE, overflow |-> FALSE]
        add == WordOf(a + b)
        sub == WordOf(a - b)
    IN  CASE p.selectedOpcode = 0 ->
                [result |-> add, carry |-> a + b >= 2^Width,
                 overflow |-> top(a) = top(b) /\ top(a) # top(add)]
          [] p.selectedOpcode = 1 ->
                [result |-> sub, carry |-> a >= b,
                 overflow |-> top(a) # top(b) /\ top(a) # top(sub)]
          [] p.selectedOpcode = 2 -> plain(a & b)
          [] p.selectedOpcode = 3 -> plain(a | b)
          [] p.selectedOpcode = 4 -> plain(a ^^ b)
          [] p.selectedOpcode = 5 -> plain(WordOf(a * 2^shiftAmt(p)))
          [] p.selectedOpcode = 6 -> plain(a \div 2^shiftAmt(p))
          [] p.selectedOpcode = 7 -> plain(WordOf(SignedOf(a) \div 2^shiftAmt(p)))
          [] p.selectedOpcode = 8 -> plain(Flag(SignedOf(a) < SignedOf(b)))
          [] p.selectedOpcode = 9 -> plain(Flag(a < b))
          [] OTHER -> plain(WordOf(SignedOf(a) * SignedOf(b)))

\* The result box with its flags.
ArchitectureResult(p) ==
    LET e == Evaluated(p)
    IN  [result |-> e.result, zero |-> e.result = 0, negative |-> Bit(e.result, Width - 1) = 1,
         carry |-> e.carry, overflow |-> e.overflow]

\* The multiplexer stages and the two comparisons, shown for every opcode.
ShifterStages(p) == {k \in 0 .. 4 : 2^k < Width /\ Bit(shiftAmt(p), k) = 1}
Comparisons(p) == [SLT |-> SignedOf(p.a) < SignedOf(p.b), SLTU |-> p.a < p.b]

-----------------------------------------------------------------------------
(* Multipliers.                                                            *)

MultipliersLab ==
    [lab |-> "multipliers", a |-> 7, b |-> 2^Width - 5, activeSchematic |-> "clean"]

SelectMultiplierSchematic == Pick("multipliers", "activeSchematic", {"clean", "yosys"})

product32(p) == WordOf(SignedOf(p.a) * SignedOf(p.b))

Factor(code) ==
    CASE code \in {1, 2} -> 1
      [] code = 3 -> 2
      [] code = 4 -> -2
      [] code \in {5, 6} -> -1
      [] OTHER -> 0

\* The recoding of the lowest eight bits.
boothGroups(p) ==
    [g \in 0 .. 3 |->
        LET bitMinus1 == IF g = 0 THEN 0 ELSE Bit(p.b, 2 * g - 1)
            code == 4 * Bit(p.b, 2 * g + 1) + 2 * Bit(p.b, 2 * g) + bitMinus1
        IN  [code |-> code, partialVal |-> WordOf(Factor(code) * SignedOf(p.a))]]

-----------------------------------------------------------------------------
(* Telemetry.  A benchmark sequence goes on executing on the device while  *)
(* the lab is open; its answers replace the telemetry shown.               *)

\* The keys of an answer, as the simulator reads them off the device.
Telemetry(t) ==
    [rev_energy_acc |-> TelemetryRead(t, 0), cla_switching |-> TelemetryRead(t, 4),
     mul_thermal |-> TelemetryRead(t, 8), edp_current |-> TelemetryRead(t, 12),
     edp_config |-> TelemetryRead(t, 16)]

\* The cards of the lab, and the rows of the panel below the datapath.
MMIO_REGS ==
    <<[address |-> 0, key |-> "rev_energy_acc"], [address |-> 4, key |-> "cla_switching"],
      [address |-> 8, key |-> "mul_thermal"], [address |-> 12, key |-> "edp_current"],
      [address |-> 16, key |-> "edp_config"]>>

REGISTERS ==
    <<[addrOffset |-> 0, key |-> "rev_energy_acc"], [addrOffset |-> 4, key |-> "cla_switching"],
      [addrOffset |-> 8, key |-> "mul_thermal"], [addrOffset |-> 12, key |-> "edp_current"],
      [addrOffset |-> 16, key |-> "edp_config"]>>

TelemetryLab ==
    [lab |-> "telemetry", selectedAddress |-> 0, activeSchematic |-> "clean",
     telemetry |-> Telemetry(TelemetryReset), device |-> TelemetryReset, operations |-> 0]

SelectAddress == Pick("telemetry", "selectedAddress", {r.address : r \in ToSet(MMIO_REGS)})

SelectTelemetrySchematic == Pick("telemetry", "activeSchematic", {"clean", "yosys"})

Execute(v) ==
    /\ On("telemetry") /\ page.operations < MaxOperations
    /\ LET after == TelemetryBlock(page.device, v.opcode, ALU(v.opcode, v.a, v.b).result)
       IN  page' = [page EXCEPT !.device = after, !.telemetry = Telemetry(after),
                                !.operations = @ + 1]

selectedReg(p) == CHOOSE r \in ToSet(MMIO_REGS) : r.address = p.selectedAddress

\* The meter of a row, in percent of the largest register.
Meter(telemetry, key) ==
    LET most == Max({1} \union {telemetry[r.key] : r \in ToSet(REGISTERS)})
    IN  Max({3, (telemetry[key] * 100) \div most})

-----------------------------------------------------------------------------

ArithmeticStep ==
    \/ ToggleInput("fredkin") \/ ToggleInput("toffoli") \/ SelectGateView
    \/ EditOperand
    \/ ToggleCin \/ SelectAdderSchematic
    \/ SelectOpcode \/ SelectAluSchematic
    \/ SelectMultiplierSchematic
    \/ SelectAddress \/ SelectTelemetrySchematic \/ \E v \in Vector : Execute(v)

ArithmeticLab == {GatesLab, AddersLab, AluLab, MultipliersLab, TelemetryLab}

-----------------------------------------------------------------------------
(* Properties.                                                             *)

\* The gates shown are those of the hardware, the highlighted row of the truth table shows
\* the same outputs, the tables are one to one and Fredkin's keeps the number of ones.
GatesMatch(p) ==
    LET bits(in) == [i \in 1 .. 3 |-> in[i] = 1]
        out(record) == <<Flag(record.p), Flag(record.q), Flag(record.r)>>
        fredkin == FredkinOutputs(p.fredkin)
        toffoli == ToffoliOutputs(p.toffoli)
        inverse(table) == \A r, s \in table : SubSeq(r, 4, 6) = SubSeq(s, 4, 6) => r = s
    IN  /\ LET in == bits(p.fredkin) IN fredkin = out(Fredkin(in[1], in[2], in[3]))
        /\ LET in == bits(p.toffoli) IN toffoli = out(Toffoli(in[1], in[2], in[3]))
        /\ ActiveRows(FredkinTable, p.fredkin) = {p.fredkin \o fredkin}
        /\ ActiveRows(ToffoliTable, p.toffoli) = {p.toffoli \o toffoli}
        /\ inverse(FredkinTable) /\ inverse(ToffoliTable)
        /\ fredkin[1] + fredkin[2] + fredkin[3] = p.fredkin[1] + p.fredkin[2] + p.fredkin[3]

\* Sum and block signals are those of both adders of the hardware.  The boxes of the carry
\* chain show what its lowest full adder passes on in each group, which is not what their
\* labels say: see ChainMislabelled.
AddersMatch(p) ==
    LET cin    == p.cin = 1
        ripple == RippleCarryAdder(p.a, p.b, cin)
        hcla   == HierarchicalCarryLookaheadAdder(p.a, p.b, cin)
        shown  == ArchitectureSum(p)
    IN  /\ shown.sum = ripple.sum /\ shown.sum = hcla.sum
        /\ shown.cout = ripple.carryOut /\ shown.cout = hcla.carryOut
        /\ \A k \in Blocks :
              ChainCarry(p, k) = Flag(RippleCarries(p.a, p.b, cin)[4 * k + 1])
        /\ \A k \in Blocks :
              /\ blocks(p)[k].pG = Flag(hcla.groupPropagate[k])
              /\ blocks(p)[k].gG = Flag(hcla.groupGenerate[k])
              /\ blocks(p)[k].sumNibble = Nibble(hcla.sum, k)

\* Result and flags are those of the ALU; the highlighted stages shift by as much as the
\* shifter; the identities the page states of a subtraction hold of its flags.
AluMatches(p) ==
    LET shown == ArchitectureResult(p)
    IN  /\ shown = ALU(p.selectedOpcode, p.a, p.b)
        /\ p.selectedOpcode = 6 =>
               shown.result = p.a \div 2^NumberOn([k \in 0 .. 4 |-> k \in ShifterStages(p)], 5)
        /\ p.selectedOpcode = 1 =>
               /\ Comparisons(p).SLT  = (shown.negative # shown.overflow)
               /\ Comparisons(p).SLTU = ~shown.carry
        /\ p.selectedOpcode \in {8, 9} =>
               shown.result = Flag(IF p.selectedOpcode = 8 THEN Comparisons(p).SLT
                                   ELSE Comparisons(p).SLTU)

\* The product and the rows of the first groups are those of both multipliers.
MultipliersMatch(p) ==
    /\ product32(p) = WordOf(BoothMultiplier(p.a, p.b))
    /\ BoothWallaceMultiplier(p.a, p.b) = BoothMultiplier(p.a, p.b)
    /\ \A g \in 0 .. 3 :
          /\ boothGroups(p)[g].code = BoothCode(p.b, g)
          /\ WordOf(boothGroups(p)[g].partialVal * 4^g) = WordOf(BoothRows(p.a, p.b)[g])

\* Every address on screen stands next to what the device answers at that address, the
\* energy-delay product is that of the counters beside it, and a meter is longer the more its
\* register holds and never longer than its track.
TelemetryMatches(p) ==
    LET t == p.telemetry
    IN  /\ t[selectedReg(p).key] = TelemetryRead(p.device, p.selectedAddress)
        /\ \A r \in ToSet(REGISTERS) : t[r.key] = TelemetryRead(p.device, r.addrOffset)
        /\ t.edp_current = (t.rev_energy_acc + t.cla_switching + t.mul_thermal) * t.edp_config
        /\ \A r, s \in ToSet(REGISTERS) :
              /\ Meter(t, r.key) \in 3 .. 100
              /\ t[r.key] <= t[s.key] => Meter(t, r.key) <= Meter(t, s.key)

\* Whatever is typed, picked and toggled, the labs that compute in the browser show what
\* the hardware would, under the right labels but in the carry chain of the adders.
LabsMatchHardware ==
    /\ On("gates")       => GatesMatch(page)
    /\ On("adders")      => AddersMatch(page)
    /\ On("alu")         => AluMatches(page)
    /\ On("multipliers") => MultipliersMatch(page)
    /\ On("telemetry")   => TelemetryMatches(page)
=============================================================================
