------------------------- MODULE PipelinedCore_proofs -----------------------
(***************************************************************************)
(* Theorems about the core: for every width, register file, memory map and *)
(* set of programs, not only the small instances that are model-checked.   *)
(***************************************************************************)
EXTENDS PipelinedCore, Hardware_proofs, TLAPS

-----------------------------------------------------------------------------
(* Type correctness.  TypeOK alone is not inductive: the divider's step    *)
(* counter stays in range only because it is not zero while it computes.   *)

IfIdSet == [valid : BOOLEAN, pc : Word, instr : Instruction]

IdExSet == [valid : BOOLEAN, pc : Word, instr : Instruction,
            rs1Data : Word, rs2Data : Word, capRs1Data : Capability]

ExMemSet == [valid : BOOLEAN, pc : Word, instr : Instruction, aluResult : Word,
             rs2Data : Word, capSource : Capability, derivation : DerivationSet,
             telemetryValid : BOOLEAN]

MemWbSet == [valid : BOOLEAN, pc : Word, instr : Instruction, aluResult : Word,
             memReadData : Word, regWrite : BOOLEAN, capRegWrite : BOOLEAN,
             capWriteData : Capability, telemetryValid : BOOLEAN]

TypeInv == TypeOK /\ Counting

\* The parts of TypeOK, under the names the proofs use.
LEMMA TypeParts ==
    ASSUME TypeOK
    PROVE  /\ rom \in Seq(Instruction) /\ 4 * Len(rom) < WordModulus
           /\ pc \in Word /\ ifId \in IfIdSet /\ idEx \in IdExSet
           /\ exMem \in ExMemSet /\ memWb \in MemWbSet
           /\ regs \in [Reg -> Word] /\ caps \in [Cap -> Capability]
           /\ dmem \in Memory /\ DividerTypeOK /\ SystemMmioTypeOK
  BY DEF TypeOK, IfIdSet, IdExSet, ExMemSet, MemWbSet, Memory, DataMemoryTypeOK

\* Flushed pipeline registers have the shape of filled ones.
LEMMA EmptyTypes ==
    /\ EmptyIfId \in IfIdSet /\ EmptyIdEx \in IdExSet
    /\ EmptyExMem \in ExMemSet /\ EmptyMemWb \in MemWbSet
<1>1. 0 \in Word /\ NOP \in Instruction /\ NullCapability \in Capability
      /\ NoDerivation \in DerivationSet
  BY SmallWord, NopType, NullCapabilityType, NoDerivationType
<1>2. QED
  BY <1>1 DEF EmptyIfId, EmptyIdEx, EmptyExMem, EmptyMemWb, IfIdSet, IdExSet, ExMemSet, MemWbSet

\* What the stages hand to one another.
LEMMA WbDataType == TypeOK => wbData \in Word
<1> SUFFICES ASSUME TypeOK PROVE wbData \in Word
  OBVIOUS
<1>1. memWb \in MemWbSet
  BY TypeParts
<1>2. Wrap(memWb.pc + 4) \in Word
  <2>1. memWb.pc + 4 \in Int
    BY <1>1, WordIsInt DEF MemWbSet
  <2>2. QED
    BY <2>1, WrapType
<1>3. memWb.instr.imm \in Word
  BY <1>1 DEF MemWbSet, Instruction
<1>4. QED
  BY <1>1, <1>2, <1>3 DEF wbData, MemWbSet

LEMMA ForwardType ==
    ASSUME TypeOK, NEW rs, NEW latched \in Word
    PROVE  Forward(rs, latched) \in Word
  BY TypeParts, WbDataType DEF Forward, ExMemSet

LEMMA ForwardedType == TypeOK => forwardedRs1 \in Word /\ forwardedRs2 \in Word
  BY TypeParts, ForwardType DEF forwardedRs1, forwardedRs2, IdExSet

LEMMA ExDerivationType == TypeOK => exDerivation \in DerivationSet
<1> SUFFICES ASSUME TypeOK PROVE exDerivation \in DerivationSet
  OBVIOUS
<1>1. idEx.instr \in Instruction /\ idEx.capRs1Data \in Capability
  BY TypeParts DEF IdExSet
<1>2. QED
  BY <1>1, ForwardedType, DeriveType, NoDerivationType DEF exDerivation

LEMMA ExResultType == TypeOK => exResult \in Word
<1> SUFFICES ASSUME TypeOK PROVE exResult \in Word
  OBVIOUS
<1>1. idEx.instr \in Instruction /\ idEx.capRs1Data \in Capability /\ idEx.pc \in Word
  BY TypeParts DEF IdExSet
<1>2. forwardedRs1 \in Word /\ forwardedRs2 \in Word
  BY ForwardedType
<1>3. Wrap(Cursor(idEx.capRs1Data) + idEx.instr.imm) \in Word
  <2>1. Cursor(idEx.capRs1Data) + idEx.instr.imm \in Int
    BY <1>1, CursorType, WordIsInt DEF Instruction
  <2>2. QED
    BY <2>1, WrapType
<1>4. CapField(idEx.instr.fn, idEx.capRs1Data) \in Word
  BY <1>1, CapFieldType
<1>5. Multiply(idEx.instr.fn, forwardedRs1, forwardedRs2) \in Word
  BY <1>2, MultiplyType
<1>6. divider.finalQuotient \in Word /\ divider.finalRemainder \in Word
  BY TypeParts DEF DividerTypeOK, DividerRegisters
<1>7. AluResult(idEx.instr, idEx.pc, forwardedRs1, forwardedRs2) \in Word
  BY <1>1, <1>2, AluResultType
<1>8. QED
  BY <1>3, <1>4, <1>5, <1>6, <1>7 DEF exResult

LEMMA RedirectTargetType == TypeOK => redirectTarget \in Word
  BY TypeParts, ForwardedType, TargetAddressType DEF redirectTarget, IdExSet

LEMMA ReadRegType == ASSUME TypeOK, NEW r \in Reg PROVE ReadReg(r) \in Word
  BY TypeParts, WbDataType DEF ReadReg

LEMMA ReadCapType == ASSUME TypeOK, NEW c \in Cap PROVE ReadCap(c) \in Capability
  BY TypeParts DEF ReadCap, MemWbSet

LEMMA IfInstructionType == TypeOK => ifInstruction \in Instruction
<1> SUFFICES ASSUME TypeOK PROVE ifInstruction \in Instruction
  OBVIOUS
<1>1. rom \in Seq(Instruction) /\ pc \in Nat
  BY TypeParts, WordIsInt
<1>2. pc \div 4 < Len(rom) => (pc \div 4) + 1 \in 1 .. Len(rom)
  BY <1>1
<1>3. QED
  BY <1>1, <1>2, NopType DEF ifInstruction

LEMMA MemRequestType == TypeOK => memRequest \in BusRequest
<1> SUFFICES ASSUME TypeOK PROVE memRequest \in BusRequest
  OBVIOUS
<1>1. exMem \in ExMemSet
  BY TypeParts
<1>2. AccessSize(exMem.instr) \in {1, 2, 4}
  BY DEF AccessSize
<1>3. /\ (exMem.valid /\ MemRead(exMem.instr) /\ capAccessAllow) \in BOOLEAN
      /\ (exMem.valid /\ MemWrite(exMem.instr) /\ capAccessAllow) \in BOOLEAN
  BY <1>1 DEF ExMemSet, MemRead, MemWrite, capAccessAllow
<1>4. QED
  BY <1>1, <1>2, <1>3 DEF memRequest, BusRequest, ExMemSet

LEMMA SecurityEventType == TypeOK => securityEvent \in SecurityEvent
<1> SUFFICES ASSUME TypeOK PROVE securityEvent \in SecurityEvent
  OBVIOUS
<1>1. exMem \in ExMemSet /\ software.currentContext \in Word
  BY TypeParts DEF SystemMmioTypeOK
<1>2. capReason \in Reason
  BY CheckReasonType DEF capReason
<1>3. AccessWrite \in AccessType /\ AccessRead \in AccessType
      /\ AccessCapabilityOperation \in AccessType
  BY DEF AccessWrite, AccessRead, AccessCapabilityOperation, AccessType
<1>4. (isCapMemViolation \/ isDerivationViolation) \in BOOLEAN
  BY DEF isCapMemViolation, isDerivationViolation
<1>5. /\ exMem.pc \in Word /\ exMem.aluResult \in Word
      /\ exMem.derivation.violation.address \in Word
      /\ exMem.derivation.violation.reason \in Reason
  BY <1>1 DEF ExMemSet, DerivationSet
<1>6. (CASE isCapMemViolation /\ MemWrite(exMem.instr)  -> AccessWrite
         [] isCapMemViolation /\ ~MemWrite(exMem.instr) -> AccessRead
         [] OTHER -> AccessCapabilityOperation) \in AccessType
  BY <1>3
<1>7. QED
  BY <1>1, <1>2, <1>4, <1>5, <1>6 DEF securityEvent, SecurityEvent

LEMMA MemReadDataType == TypeOK => memReadData \in Word
<1> SUFFICES ASSUME TypeOK PROVE memReadData \in Word
  OBVIOUS
<1>1. exMem.aluResult \in Word /\ dmem \in Memory /\ SystemMmioTypeOK /\ 0 \in Word
  BY TypeParts, SmallWord DEF ExMemSet
<1>2. ReadData(memRequest) \in Word
  BY <1>1, ReadDataType
<1>3. DataMemoryRead(exMem.instr, exMem.aluResult) \in Word
  BY <1>1, LoadValueType DEF DataMemoryRead
<1>4. QED
  BY <1>1, <1>2, <1>3 DEF memReadData

-----------------------------------------------------------------------------
\* Every state a run starts in has the shape.
LEMMA InitTypeInv == Init => TypeInv
<1> SUFFICES ASSUME Init PROVE TypeInv
  OBVIOUS
<1>1. rom \in Seq(Instruction) /\ 4 * Len(rom) < WordModulus
  BY ProgramsAssumption DEF Init
<1>2. pc \in Word
  BY SmallWord DEF Init
<1>3. ifId \in IfIdSet /\ idEx \in IdExSet /\ exMem \in ExMemSet /\ memWb \in MemWbSet
  BY EmptyTypes DEF Init
<1>4. regs \in [Reg -> Word] /\ caps \in [Cap -> Capability]
  BY SmallWord, CapResetValueType DEF Init
<1>5. DataMemoryTypeOK
  BY WordModulusType DEF Init, DataMemoryInit, DataMemoryTypeOK, Byte
<1>6. DividerTypeOK /\ Counting
  BY DividerInitType DEF Init, DividerInit, Counting
<1>7. SystemMmioTypeOK
  BY SystemMmioInitType DEF Init
<1>8. QED
  BY <1>1, <1>2, <1>3, <1>4, <1>5, <1>6, <1>7
  DEF TypeInv, TypeOK, IfIdSet, IdExSet, ExMemSet, MemWbSet

\* One lemma for each register of the core.
LEMMA PcTickType == TypeOK /\ PcTick => pc' \in Word
<1> SUFFICES ASSUME TypeOK, PcTick PROVE pc' \in Word
  OBVIOUS
<1>1. pc \in Word /\ trap.vector \in Word /\ trap.epc \in Word
  BY TypeParts DEF SystemMmioTypeOK
<1>2. Wrap(pc + 4) \in Word
  <2>1. pc + 4 \in Int
    BY <1>1, WordIsInt
  <2>2. QED
    BY <2>1, WrapType
<1>3. redirectTarget \in Word
  BY RedirectTargetType
<1>4. QED
  BY <1>1, <1>2, <1>3 DEF PcTick

LEMMA IfIdTickType == TypeOK /\ IfIdTick => ifId' \in IfIdSet
<1> SUFFICES ASSUME TypeOK, IfIdTick PROVE ifId' \in IfIdSet
  OBVIOUS
<1>1. [valid |-> ifValid, pc |-> pc, instr |-> ifInstruction] \in IfIdSet
  BY TypeParts, IfInstructionType DEF IfIdSet, ifValid
<1>2. ifId \in IfIdSet /\ EmptyIfId \in IfIdSet
  BY TypeParts, EmptyTypes
<1>3. QED
  BY <1>1, <1>2 DEF IfIdTick

LEMMA IdExTickType == TypeOK /\ IdExTick => idEx' \in IdExSet
<1> SUFFICES ASSUME TypeOK, IdExTick PROVE idEx' \in IdExSet
  OBVIOUS
<1> DEFINE latched == [valid      |-> ifId.valid,
                       pc         |-> ifId.pc,
                       instr      |-> ifId.instr,
                       rs1Data    |-> ReadReg(ifId.instr.rs1),
                       rs2Data    |-> ReadReg(ifId.instr.rs2),
                       capRs1Data |-> ReadCap(CapRs1(ifId.instr))]
<1>1. ifId \in IfIdSet
  BY TypeParts
<1>2. ifId.instr \in Instruction
  BY <1>1 DEF IfIdSet
<1>3. ifId.instr.rs1 \in Reg /\ ifId.instr.rs2 \in Reg /\ CapRs1(ifId.instr) \in Cap
  BY <1>2, CapFieldIndex DEF Instruction
<1>4. ReadReg(ifId.instr.rs1) \in Word /\ ReadReg(ifId.instr.rs2) \in Word
      /\ ReadCap(CapRs1(ifId.instr)) \in Capability
  BY <1>3, ReadRegType, ReadCapType
<1>5. latched \in IdExSet
  BY <1>1, <1>4 DEF IfIdSet, IdExSet
<1>6. idEx \in IdExSet /\ EmptyIdEx \in IdExSet
  BY TypeParts, EmptyTypes
<1> HIDE DEF latched
<1>7. idEx' \in {latched, idEx, EmptyIdEx}
  BY DEF IdExTick, latched
<1>8. QED
  BY <1>5, <1>6, <1>7

LEMMA ExMemTickType == TypeOK /\ ExMemTick => exMem' \in ExMemSet
<1> SUFFICES ASSUME TypeOK, ExMemTick PROVE exMem' \in ExMemSet
  OBVIOUS
<1>1. idEx \in IdExSet
  BY TypeParts
<1>2. (idEx.valid /\ ~divHold) \in BOOLEAN /\ exTelemetryValid \in BOOLEAN
  BY <1>1 DEF IdExSet, exTelemetryValid
<1>3. exResult \in Word /\ forwardedRs2 \in Word /\ exDerivation \in DerivationSet
  BY ExResultType, ForwardedType, ExDerivationType
<1>4. EmptyExMem \in ExMemSet
  BY EmptyTypes
<1>5. QED
  BY <1>1, <1>2, <1>3, <1>4 DEF ExMemTick, ExMemSet, IdExSet

LEMMA MemWbTickType == TypeOK /\ MemWbTick => memWb' \in MemWbSet
<1> SUFFICES ASSUME TypeOK, MemWbTick PROVE memWb' \in MemWbSet
  OBVIOUS
<1>1. exMem \in ExMemSet
  BY TypeParts
<1>2. /\ (exMem.valid /\ ~takePreciseTrap) \in BOOLEAN
      /\ (RegWrite(exMem.instr) /\ ~takePreciseTrap
            /\ (MemRead(exMem.instr) => loadAccepted)) \in BOOLEAN
      /\ (exMem.derivation.write /\ capAccessAllow /\ ~takePreciseTrap) \in BOOLEAN
      /\ (exMem.telemetryValid /\ capAccessAllow /\ ~takePreciseTrap) \in BOOLEAN
  OBVIOUS
<1>3. memReadData \in Word
  BY MemReadDataType
<1>4. exMem.derivation.cap \in Capability
  BY <1>1 DEF ExMemSet, DerivationSet
<1>5. QED
  BY <1>1, <1>2, <1>3, <1>4 DEF MemWbTick, MemWbSet, ExMemSet

LEMMA RegsTickType == TypeOK /\ RegsTick => regs' \in [Reg -> Word]
  BY TypeParts, WbDataType DEF RegsTick

LEMMA CapsTickType == TypeOK /\ CapsTick => caps' \in [Cap -> Capability]
  BY TypeParts DEF CapsTick, MemWbSet

LEMMA DataMemoryTickType ==
    TypeOK /\ DataMemoryTick(memRequest.write /\ ~memWindowHit, exMem.instr,
                             exMem.aluResult, exMem.rs2Data) => DataMemoryTypeOK'
<1> SUFFICES ASSUME TypeOK, DataMemoryTick(memRequest.write /\ ~memWindowHit, exMem.instr,
                                           exMem.aluResult, exMem.rs2Data)
             PROVE  DataMemoryTypeOK'
  OBVIOUS
<1>1. dmem \in Memory /\ exMem.rs2Data \in Word
  BY TypeParts DEF ExMemSet
<1>2. StoreValue(dmem, exMem.instr, exMem.aluResult, exMem.rs2Data) \in Memory
  BY <1>1, StoreValueType
<1>3. QED
  BY <1>1, <1>2 DEF DataMemoryTick, DataMemoryTypeOK, Memory

LEMMA TickTypeInv == TypeInv /\ Tick => TypeInv'
<1> SUFFICES ASSUME TypeInv, Tick PROVE TypeInv'
  OBVIOUS
<1>1. TypeOK /\ Counting
  BY DEF TypeInv
<1>2. rom' = rom
  BY DEF Tick
<1>3. pc' \in Word /\ ifId' \in IfIdSet /\ idEx' \in IdExSet
      /\ exMem' \in ExMemSet /\ memWb' \in MemWbSet
  BY <1>1, PcTickType, IfIdTickType, IdExTickType, ExMemTickType, MemWbTickType DEF Tick
<1>4. regs' \in [Reg -> Word] /\ caps' \in [Cap -> Capability] /\ DataMemoryTypeOK'
  BY <1>1, RegsTickType, CapsTickType, DataMemoryTickType DEF Tick
<1>5. DividerTypeOK' /\ Counting'
  <2> DEFINE isSigned == idEx.instr.fn \in {"DIV", "REM"}
  <2>1. divStart \in BOOLEAN /\ flushEXMEM \in BOOLEAN /\ isSigned \in BOOLEAN
    BY DEF divStart, flushEXMEM
  <2>2. DividerTick(divStart, flushEXMEM, forwardedRs1, forwardedRs2, isSigned)
    BY DEF Tick
  <2>3. DividerTypeOK /\ forwardedRs1 \in Word /\ forwardedRs2 \in Word
    BY <1>1, TypeParts, ForwardedType
  <2> HIDE DEF isSigned
  <2>4. QED
    BY <1>1, <2>1, <2>2, <2>3, DividerTickType
<1>6. SystemMmioTypeOK'
  <2>1. countedEvents \in CountedEvents
    <3>1. memWb.valid \in BOOLEAN /\ memWb.pc \in Word
      BY <1>1, TypeParts DEF MemWbSet
    <3>2. /\ (branchTaken /\ IsBranch(idEx.instr)) \in BOOLEAN /\ loadUseHazard \in BOOLEAN
          /\ DividerBusy \in BOOLEAN /\ stallIF \in BOOLEAN
      BY DEF loadUseHazard, DividerBusy, stallIF
    <3>3. QED
      BY <3>1, <3>2 DEF countedEvents, CountedEvents
  <2>2. retiredOperation \in RetiredOperation
    <3>1. memWb \in MemWbSet
      BY <1>1, TypeParts
    <3>2. /\ (memWb.valid /\ memWb.telemetryValid) \in BOOLEAN
          /\ (~IsMul(memWb.instr) /\ AluFn(memWb.instr) \in {"ADD", "SUB"}) \in BOOLEAN
          /\ IsMul(memWb.instr) \in BOOLEAN
      BY DEF IsMul
    <3>3. memWb.aluResult \in Word
      BY <3>1 DEF MemWbSet
    <3>4. QED
      BY <3>2, <3>3 DEF retiredOperation, RetiredOperation
  <2>3. QED
    BY <1>1, <2>1, <2>2, TypeParts, MemRequestType, SecurityEventType, SystemMmioTickType
    DEF Tick
<1>7. QED
  BY <1>1, <1>2, <1>3, <1>4, <1>5, <1>6
  DEF TypeInv, TypeOK, IfIdSet, IdExSet, ExMemSet, MemWbSet

\* Every register keeps its shape, in every behaviour of the core.
LEMMA TypeInvStep == TypeInv /\ [Next]_vars => TypeInv'
<1>1. ASSUME TypeInv, Clock PROVE TypeInv'
  BY <1>1, TickTypeInv DEF Clock
<1>2. ASSUME TypeInv, UNCHANGED vars PROVE TypeInv'
  BY <1>2
  DEF vars, coreVars, mmioVars, TypeInv, TypeOK, Counting, DataMemoryTypeOK, DividerTypeOK,
      SystemMmioTypeOK
<1>3. QED
  BY <1>1, <1>2 DEF Next, Stopped

LEMMA TypeInvariance == Spec => []TypeInv
  BY InitTypeInv, TypeInvStep, PTL DEF Spec

\* Every register of the core holds a value of its width, whatever the program.
THEOREM TypeCorrectness == Spec => []TypeOK
<1>1. TypeInv => TypeOK
  BY DEF TypeInv
<1>2. QED
  BY <1>1, TypeInvariance, PTL

-----------------------------------------------------------------------------
(* Capability confinement.  CapConfined is inductive once the registers    *)
(* have their shape: a derivation of a confined capability is confined,    *)
(* because bounds that lie within a root cannot wrap around.               *)

LEMMA NullConfined == Confined(NullCapability)
  BY DEF Confined, NullCapability

LEMMA SetBoundsConfined ==
    ASSUME NEW cap \in Capability, Confined(cap), NEW len \in Word
    PROVE  Confined(SetBounds(cap, len).cap)
<1> DEFINE new == [cap EXCEPT !.base = Cursor(cap), !.length = len, !.offset = 0]
<1>1. CASE ~(cap.tag /\ cap.offset <= cap.length /\ len <= cap.length - cap.offset)
  BY <1>1, NullConfined DEF SetBounds, Refused, Derivation
<1>2. CASE cap.tag /\ cap.offset <= cap.length /\ len <= cap.length - cap.offset
  <2>1. cap.base \in Nat /\ cap.length \in Nat /\ cap.offset \in Nat /\ len \in Nat
    BY WordIsInt DEF Capability
  <2>2. Top(cap) < WordModulus
    BY <1>2, <2>1, RootType, AddressMapAssumption, WordModulusType
    DEF Confined, Within, Top, RamRoot, MmioRoot
  <2>3. Cursor(cap) = cap.base + cap.offset
    <3>1. cap.base + cap.offset \in Word
      BY <1>2, <2>1, <2>2, WordModulusType DEF Top, Word
    <3>2. QED
      BY <3>1, WrapWord DEF Cursor
  <2>4. new.base = cap.base + cap.offset /\ new.length = len /\ new.offset = 0
        /\ new.perms = cap.perms
    BY <2>3 DEF Capability
  <2>5. new.offset <= new.length /\ cap.base <= new.base /\ Top(new) <= Top(cap)
    BY <1>2, <2>1, <2>4 DEF Top
  <2>6. ASSUME NEW root \in Capability, Within(cap, root) PROVE Within(new, root)
    <3>1. root.base \in Nat /\ Top(root) \in Nat /\ Top(new) \in Nat /\ Top(cap) \in Nat
          /\ new.base \in Nat
      BY <2>1, <2>4, WordIsInt DEF Capability, Top
    <3>2. QED
      BY <2>1, <2>4, <2>5, <2>6, <3>1 DEF Within
  <2>7. Confined(new)
    BY <1>2, <2>5, <2>6, RootType DEF Confined
  <2>8. QED
    BY <1>2, <2>7 DEF SetBounds, Derived, Derivation
<1>3. QED
  BY <1>1, <1>2

LEMMA AndPermConfined ==
    ASSUME NEW cap \in Capability, Confined(cap), NEW mask \in Word
    PROVE  Confined(AndPerm(cap, mask).cap)
<1> DEFINE new == [cap EXCEPT !.perms = @ \intersect PermsOfWord(mask)]
<1>1. /\ new.tag = cap.tag /\ new.base = cap.base /\ new.length = cap.length
      /\ new.offset = cap.offset /\ new.perms \subseteq cap.perms
  BY DEF Capability
<1>2. Confined(new)
  BY <1>1 DEF Confined, Within, Top
<1>3. QED
  BY <1>2, NullConfined DEF AndPerm, Derived, Refused, Derivation

LEMMA IncOffsetConfined ==
    ASSUME NEW cap \in Capability, Confined(cap), NEW delta \in Word
    PROVE  Confined(IncOffset(cap, delta).cap)
<1> DEFINE newOffset == cap.offset + Signed(delta)
           new == [cap EXCEPT !.offset = newOffset]
<1>1. /\ new.tag = cap.tag /\ new.base = cap.base /\ new.length = cap.length
      /\ new.offset = newOffset /\ new.perms = cap.perms
  BY DEF Capability
<1> HIDE DEF new, newOffset
<1>2. newOffset <= cap.length => Confined(new)
  BY <1>1 DEF Confined, Within, Top
<1>3. QED
  BY <1>2, NullConfined DEF IncOffset, Derived, Refused, Derivation, new, newOffset

\* No derivation leaves the root of the capability it starts from.
LEMMA DeriveConfined ==
    ASSUME NEW i \in Instruction, NEW cap \in Capability, Confined(cap), NEW w \in Word
    PROVE  Confined(Derive(i, cap, w).cap)
<1>1. Confined(Derived(NullCapability).cap) /\ Confined(NoDerivation.cap)
  BY NullConfined DEF Derived, NoDerivation, Derivation
<1>2. QED
  BY <1>1, SetBoundsConfined, AndPermConfined, IncOffsetConfined DEF Derive

LEMMA InitConfined == Init => CapConfined
<1>1. Confined(RamRoot) /\ Confined(MmioRoot)
  BY AddressMapAssumption DEF Confined, Within, Top, RamRoot, MmioRoot
<1>2. \A c : Confined(CapResetValue(c))
  BY <1>1, NullConfined DEF CapResetValue
<1>3. QED
  BY <1>2, NullConfined
  DEF Init, CapConfined, EmptyIdEx, EmptyExMem, EmptyMemWb, NoDerivation, Derivation

LEMMA TickConfined == TypeInv /\ CapConfined /\ Tick => CapConfined'
<1> SUFFICES ASSUME TypeInv, CapConfined, Tick PROVE CapConfined'
  OBVIOUS
<1>1. TypeOK /\ ifId \in IfIdSet /\ idEx \in IdExSet /\ exMem \in ExMemSet
      /\ memWb \in MemWbSet /\ caps \in [Cap -> Capability]
  BY TypeParts DEF TypeInv
<1>2. \A c \in Cap : Confined(caps[c])'
  BY <1>1 DEF CapConfined, Tick, CapsTick, Confined
<1>3. Confined(idEx.capRs1Data)'
  <2>1. ASSUME NEW c \in Cap PROVE Confined(ReadCap(c))
    BY <2>1 DEF ReadCap, CapConfined
  <2>2. CapRs1(ifId.instr) \in Cap
    BY <1>1, CapFieldIndex DEF IfIdSet
  <2>3. idEx'.capRs1Data \in {NullCapability, idEx.capRs1Data, ReadCap(CapRs1(ifId.instr))}
    BY DEF Tick, IdExTick, EmptyIdEx
  <2>4. Confined(idEx'.capRs1Data)
    BY <2>1, <2>2, <2>3, NullConfined DEF CapConfined
  <2>5. QED
    BY <2>4 DEF Confined
<1>4. Confined(exMem.capSource)' /\ Confined(exMem.derivation.cap)'
  <2>1. exMem'.capSource \in {NullCapability, idEx.capRs1Data}
        /\ exMem'.derivation \in {NoDerivation, exDerivation}
    BY DEF Tick, ExMemTick, EmptyExMem
  <2>2. Confined(exDerivation.cap) /\ Confined(NoDerivation.cap)
    <3>1. Confined(NoDerivation.cap)
      BY NullConfined DEF NoDerivation, Derivation
    <3>2. Confined(Derive(idEx.instr, idEx.capRs1Data, forwardedRs2).cap)
      BY <1>1, ForwardedType, DeriveConfined DEF IdExSet, CapConfined
    <3>3. QED
      BY <3>1, <3>2 DEF exDerivation
  <2>3. Confined(exMem'.capSource) /\ Confined(exMem'.derivation.cap)
    BY <2>1, <2>2, NullConfined DEF CapConfined
  <2>4. QED
    BY <2>3 DEF Confined
<1>5. Confined(memWb.capWriteData)'
  BY DEF Tick, MemWbTick, CapConfined, Confined
<1>6. QED
  BY <1>2, <1>3, <1>4, <1>5 DEF CapConfined

\* However long a chain of derivations, whatever traps in between: no capability of
\* the core reaches beyond the data memory or the system window, nor gains a right.
THEOREM CapabilityConfinement == Spec => []CapConfined
<1>1. TypeInv /\ CapConfined /\ [Next]_vars => CapConfined'
  <2>1. ASSUME CapConfined, UNCHANGED vars PROVE CapConfined'
    BY <2>1 DEF vars, coreVars, CapConfined, Confined
  <2>2. QED
    BY <2>1, TickConfined DEF Next, Clock, Stopped
<1>2. QED
  BY <1>1, InitConfined, TypeInvariance, PTL DEF Spec

\* So every access that the checker lets through stays within one of the two regions.
THEOREM CapabilityAccessContainment == Spec => []CapAccessContained
<1>1. ASSUME TypeOK, CapConfined PROVE CapAccessContained
  <2> SUFFICES ASSUME exMem.valid, IsCapMem(exMem.instr), capAccessAllow
               PROVE  LET first == exMem.aluResult
                          last  == exMem.aluResult + AccessSize(exMem.instr) - 1
                      IN  \/ InBounds(first) /\ InBounds(last)
                          \/ WindowHit(first) /\ WindowHit(last)
    BY DEF CapAccessContained
  <2> DEFINE cap  == exMem.capSource
             size == AccessSize(exMem.instr)
             addr == exMem.aluResult
  <2>1. capReason = 0
    BY DEF capAccessAllow, isCapMemViolation
  <2>2. cap.tag /\ cap.base <= addr /\ addr + size <= Top(cap)
    BY <2>1 DEF capReason, CheckReason, InvalidCapability, BoundsViolation
  <2>3. cap \in Capability /\ addr \in Nat /\ size \in {1, 2, 4}
    BY <1>1, TypeParts, WordIsInt DEF ExMemSet, AccessSize
  <2>4. cap.base \in Nat /\ cap.length \in Nat
    BY <2>3, WordIsInt DEF Capability
  <2>5. Within(cap, RamRoot) \/ Within(cap, MmioRoot)
    BY <1>1, <2>2 DEF CapConfined, Confined
  <2> HIDE DEF cap, size, addr
  <2>6. CASE Within(cap, RamRoot)
    BY <2>2, <2>3, <2>4, <2>6, AddressMapAssumption
    DEF Within, RamRoot, Top, InBounds, addr, size
  <2>7. CASE Within(cap, MmioRoot)
    BY <2>2, <2>3, <2>4, <2>7, AddressMapAssumption
    DEF Within, MmioRoot, Top, WindowHit, addr, size
  <2>8. QED
    BY <2>5, <2>6, <2>7
<1>2. QED
  BY <1>1, TypeCorrectness, CapabilityConfinement, PTL

-----------------------------------------------------------------------------
(* Violations.  A refused derivation is that of a deriving instruction,    *)
(* which neither reads nor writes memory or integer registers, and it      *)
(* derives nothing: with this, an instruction that raises a security event *)
(* has no other effect.                                                    *)

RefusalFits ==
    exMem.derivation.violation.valid =>
        /\ IsCapOp(exMem.instr) /\ exMem.instr.fn \in CapDeriveFns
        /\ ~exMem.derivation.write

LEMMA DeriveRefuses ==
    ASSUME NEW i, NEW cap, NEW w, Derive(i, cap, w).violation.valid
    PROVE  i.fn \in CapDeriveFns /\ ~Derive(i, cap, w).write
<1>1. \A x : ~Derived(x).violation.valid
  BY DEF Derived, Derivation, NoViolation
<1>2. ~NoDerivation.violation.valid
  BY DEF NoDerivation, Derivation, NoViolation
<1>3. \A r, a : ~Refused(r, a).write
  BY DEF Refused, Derivation
<1>4. CASE i.fn = "CSETBOUNDS"
  BY <1>1, <1>3, <1>4 DEF Derive, SetBounds, CapDeriveFns
<1>5. CASE i.fn = "CANDPERM"
  BY <1>1, <1>3, <1>5 DEF Derive, AndPerm, CapDeriveFns
<1>6. CASE i.fn = "CINCOFFSET"
  BY <1>1, <1>3, <1>6 DEF Derive, IncOffset, CapDeriveFns
<1>7. CASE i.fn \notin CapDeriveFns
  BY <1>1, <1>2, <1>7 DEF Derive, CapDeriveFns
<1>8. QED
  BY <1>4, <1>5, <1>6, <1>7 DEF CapDeriveFns

LEMMA RefusalInvariance == Spec => []RefusalFits
<1>1. ~NoDerivation.violation.valid
  BY DEF NoDerivation, Derivation, NoViolation
<1>2. Init => RefusalFits
  BY <1>1 DEF Init, EmptyExMem, RefusalFits
<1>3. ASSUME Tick PROVE RefusalFits'
  <2>1. CASE flushEXMEM
    BY <1>1, <1>3, <2>1 DEF Tick, ExMemTick, EmptyExMem, RefusalFits
  <2>2. CASE ~flushEXMEM
    <3>1. exMem'.derivation = exDerivation /\ exMem'.instr = idEx.instr
      BY <1>3, <2>2 DEF Tick, ExMemTick
    <3>2. exDerivation.violation.valid =>
             /\ IsCapOp(idEx.instr) /\ idEx.instr.fn \in CapDeriveFns
             /\ ~exDerivation.write
      BY <1>1, DeriveRefuses DEF exDerivation
    <3>3. QED
      BY <3>1, <3>2 DEF RefusalFits
  <2>3. QED
    BY <2>1, <2>2
<1>4. ASSUME RefusalFits, UNCHANGED vars PROVE RefusalFits'
  BY <1>4 DEF vars, coreVars, RefusalFits
<1>5. RefusalFits /\ [Next]_vars => RefusalFits'
  BY <1>3, <1>4 DEF Next, Clock, Stopped
<1>6. QED
  BY <1>2, <1>5, PTL DEF Spec

\* The classes of instructions do not overlap.
LEMMA DerivingInstruction ==
    ASSUME NEW i, IsCapOp(i), i.fn \in CapDeriveFns
    PROVE  ~MemRead(i) /\ ~MemWrite(i) /\ ~RegWrite(i) /\ ~IsCapMem(i)
  BY DEF IsCapOp, MemRead, MemWrite, RegWrite, IsCapMem, CapDeriveFns, CapGetFns

\* In the cycle of a security event MEM asks nothing of memory.
LEMMA EventMakesNoRequest ==
    ASSUME RefusalFits, securityEvent.valid
    PROVE  ~memRequest.read /\ ~memRequest.write
<1>1. CASE isCapMemViolation
  BY <1>1 DEF memRequest, capAccessAllow
<1>2. CASE isDerivationViolation
  BY <1>2, DerivingInstruction DEF isDerivationViolation, RefusalFits, memRequest
<1>3. QED
  BY <1>1, <1>2 DEF securityEvent

\* An instruction that raises a security event changes neither memory nor registers.
THEOREM FaultIsolation == Spec => FaultHasNoEffect
<1>1. ASSUME TypeOK, RefusalFits, Tick, securityEvent.valid
      PROVE  /\ ~memRequest.read /\ ~memRequest.write
             /\ UNCHANGED <<dmem, software>>
             /\ ~(memWb'.valid /\ (memWb'.regWrite \/ memWb'.capRegWrite))
  <2>1. ~memRequest.read /\ ~memRequest.write
    BY <1>1, EventMakesNoRequest
  <2>2. dmem' = dmem
    BY <1>1, <2>1 DEF Tick, DataMemoryTick
  <2>3. software' = software
    BY <1>1, <2>1, TypeParts DEF Tick, SystemMmioTick, SoftwareTick, Stores, SystemMmioTypeOK
  <2>4. ~memWb'.regWrite /\ ~memWb'.capRegWrite
    <3>1. CASE isCapMemViolation
      <4>1. ~capAccessAllow /\ ~loadAccepted
        BY <3>1 DEF capAccessAllow, loadAccepted
      <4>2. RegWrite(exMem.instr) => MemRead(exMem.instr)
        BY <3>1 DEF isCapMemViolation, IsCapMem, RegWrite, MemRead
      <4>3. QED
        BY <1>1, <4>1, <4>2 DEF Tick, MemWbTick
    <3>2. CASE isDerivationViolation
      <4>1. ~RegWrite(exMem.instr) /\ ~exMem.derivation.write
        BY <1>1, <3>2, DerivingInstruction DEF isDerivationViolation, RefusalFits
      <4>2. QED
        BY <1>1, <4>1 DEF Tick, MemWbTick
    <3>3. QED
      BY <1>1, <3>1, <3>2 DEF securityEvent
  <2>5. QED
    BY <2>1, <2>2, <2>3, <2>4
<1> DEFINE Isolated ==
            securityEvent.valid =>
               /\ ~memRequest.read /\ ~memRequest.write
               /\ UNCHANGED <<dmem, software>>
               /\ ~(memWb'.valid /\ (memWb'.regWrite \/ memWb'.capRegWrite))
<1>2. TypeOK /\ RefusalFits /\ [Next]_vars => [Isolated]_vars
  <2>1. Stopped => UNCHANGED vars
    BY DEF Stopped
  <2>2. QED
    BY <1>1, <2>1 DEF Next, Clock
<1>3. Spec => [][Isolated]_vars
  BY <1>2, TypeCorrectness, RefusalInvariance, PTL DEF Spec
<1>4. QED
  BY <1>3 DEF FaultHasNoEffect

\* A trap and the log tell the same story.
THEOREM TrapAgreement == Spec => TrapAndLogAgree
<1> DEFINE Agree ==
            takePreciseTrap =>
               /\ securityLog'.pending
               /\ trap'.epc = exMem.pc
               /\ securityLog.pending \/ /\ securityLog'.pc = trap'.epc
                                         /\ securityLog'.address = trap'.address
                                         /\ InfoWord(securityLog') = InfoWord(trap')
                                         /\ securityLog'.context = trap'.context
<1>1. ASSUME TypeOK, RefusalFits, Tick, takePreciseTrap
      PROVE  Agree
  <2>1. securityEvent.valid /\ PreciseTrap(securityEvent)
    BY <1>1 DEF takePreciseTrap, PreciseTrap
  <2>2. ~ClearsLog(memRequest) /\ ~Stores(memRequest, "TRAP_EPC")
    BY <1>1, <2>1, EventMakesNoRequest DEF ClearsLog, Stores
  <2>3. /\ trap'.epc = securityEvent.pc /\ trap'.address = securityEvent.address
        /\ trap'.accessType = securityEvent.accessType
        /\ trap'.reason = securityEvent.reason /\ trap'.context = securityEvent.context
    BY <1>1, <2>1, <2>2 DEF Tick, SystemMmioTick, TrapTick, NextEpc
  <2>4. securityLog'.pending
    BY <1>1, <2>1, <2>2, TypeParts
    DEF Tick, SystemMmioTick, SecurityLogTick, LogEntry, SystemMmioTypeOK
  <2>5. ~securityLog.pending => securityLog' = LogEntry(securityEvent)
    BY <1>1, <2>1 DEF Tick, SystemMmioTick, SecurityLogTick
  <2>6. securityEvent.pc = exMem.pc
    BY DEF securityEvent
  <2>7. QED
    BY <2>3, <2>4, <2>5, <2>6 DEF LogEntry, InfoWord
<1>2. TypeOK /\ RefusalFits /\ [Next]_vars => [Agree]_vars
  <2>1. Stopped => UNCHANGED vars
    BY DEF Stopped
  <2>2. QED
    BY <1>1, <2>1 DEF Next, Clock
<1>3. Spec => [][Agree]_vars
  BY <1>2, TypeCorrectness, RefusalInvariance, PTL DEF Spec
<1>4. QED
  BY <1>3 DEF TrapAndLogAgree

\* Nothing a handler does, faults of its own included, changes the evidence of the
\* trap it handles.
THEOREM TrapEvidence == Spec => TrapEvidenceKept
<1> DEFINE Kept ==
            trap.active /\ trap'.active =>
               /\ InfoWord(trap') = InfoWord(trap)
               /\ trap'.address = trap.address /\ trap'.context = trap.context
               /\ trap'.epc = trap.epc \/ Stores(memRequest, "TRAP_EPC")
<1>1. ASSUME Tick, trap.active
      PROVE  Kept
  <2>1. ~PreciseTrap(securityEvent)
    BY <1>1 DEF PreciseTrap
  <2>2. /\ trap'.address = trap.address /\ trap'.context = trap.context
        /\ trap'.accessType = trap.accessType /\ trap'.reason = trap.reason
    BY <1>1, <2>1 DEF Tick, SystemMmioTick, TrapTick
  <2>3. trap'.epc = trap.epc \/ Stores(memRequest, "TRAP_EPC")
    BY <1>1, <2>1 DEF Tick, SystemMmioTick, TrapTick, NextEpc
  <2>4. QED
    BY <2>2, <2>3 DEF InfoWord
<1>2. [Next]_vars => [Kept]_vars
  <2>1. Stopped => UNCHANGED vars
    BY DEF Stopped
  <2>2. QED
    BY <1>1, <2>1 DEF Next, Clock
<1>3. Spec => [][Kept]_vars
  BY <1>2, PTL DEF Spec
<1>4. QED
  BY <1>3 DEF TrapEvidenceKept

-----------------------------------------------------------------------------
(* Capability operands.  The capability latched in ID/EX is what the       *)
(* c-file holds, and the instruction in MEM is not about to replace it.    *)

ReplacesCap(c) ==
    exMem.valid /\ exMem.derivation.write /\ CapRd(exMem.instr) = c /\ Writable(c)

CapLatched ==
    idEx.valid /\ UsesCapRs1(idEx.instr) =>
        \A c \in Cap : CapRs1(idEx.instr) = c =>
            idEx.capRs1Data = ReadCap(c) /\ ~ReplacesCap(c)

\* A c-register that MEM does not replace reads the same after the clock edge.
LEMMA ReadCapStable ==
    ASSUME TypeOK, Tick, NEW c \in Cap, ~ReplacesCap(c)
    PROVE  ReadCap(c)' = ReadCap(c)
<1>1. caps'[c] = ReadCap(c)
  BY TypeParts DEF Tick, CapsTick, ReadCap
<1>2. ~(capWen' /\ CapRd(memWb'.instr) = c)
  BY DEF Tick, MemWbTick, capWen, ReplacesCap
<1>3. QED
  BY <1>1, <1>2 DEF ReadCap

\* Only an instruction that the interlock sees as a producer derives anything.
LEMMA OnlyProducersDerive ==
    exDerivation.write => idEx.valid /\ CapRegWrite(idEx.instr)
<1>1. ~NoDerivation.write
  BY DEF NoDerivation, Derivation
<1>2. ASSUME idEx.instr.fn \in CapGetFns
      PROVE  Derive(idEx.instr, idEx.capRs1Data, forwardedRs2) = NoDerivation
  BY <1>2 DEF Derive, CapGetFns
<1>3. QED
  BY <1>1, <1>2 DEF exDerivation, CapRegWrite

LEMMA CapLatchedStep == TypeInv /\ CapLatched /\ Tick => CapLatched'
<1> SUFFICES ASSUME TypeOK, CapLatched, Tick PROVE CapLatched'
  BY DEF TypeInv
<1>1. CASE flushIDEX
  BY <1>1 DEF Tick, IdExTick, EmptyIdEx, CapLatched
<1>2. CASE ~flushIDEX /\ divHold
  <2>1. idEx' = idEx /\ ~UsesCapRs1(idEx.instr)
    BY <1>2 DEF Tick, IdExTick, divHold, isDivOp, IsDiv, UsesCapRs1, IsCapMem, IsCapOp
  <2>2. QED
    BY <2>1 DEF CapLatched
<1>3. CASE ~flushIDEX /\ ~divHold
  <2>1. /\ idEx'.valid = ifId.valid /\ idEx'.instr = ifId.instr
        /\ idEx'.capRs1Data = ReadCap(CapRs1(ifId.instr))
    BY <1>3 DEF Tick, IdExTick
  <2> SUFFICES ASSUME ifId.valid, UsesCapRs1(ifId.instr),
                      NEW c \in Cap, CapRs1(ifId.instr) = c
               PROVE  ReadCap(c)' = ReadCap(c) /\ ~ReplacesCap(c)'
    BY <2>1 DEF CapLatched
  <2>2. ~capHazard /\ ~flushEXMEM
    BY <1>3 DEF flushIDEX, isFlush, flushEXMEM
  <2>3. ~ReplacesCap(c)
    BY <2>2 DEF capHazard, ReplacesCap, Writable
  <2>4. ReadCap(c)' = ReadCap(c)
    BY <2>3, ReadCapStable
  <2>5. ~ReplacesCap(c)'
    <3>1. exMem'.instr = idEx.instr /\ exMem'.derivation = exDerivation
      BY <2>2 DEF Tick, ExMemTick
    <3>2. ~(exDerivation.write /\ CapRd(idEx.instr) = c /\ Writable(c))
      BY <2>2, OnlyProducersDerive DEF capHazard, Writable
    <3>3. QED
      BY <3>1, <3>2 DEF ReplacesCap
  <2>6. QED
    BY <2>4, <2>5
<1>4. QED
  BY <1>1, <1>2, <1>3

LEMMA CapLatchedInvariance == Spec => []CapLatched
<1>1. Init => CapLatched
  BY DEF Init, EmptyIdEx, CapLatched
<1>2. ASSUME CapLatched, UNCHANGED vars PROVE CapLatched'
  BY <1>2 DEF vars, coreVars, CapLatched, ReadCap, ReplacesCap, capWen
<1>3. TypeInv /\ CapLatched /\ [Next]_vars => CapLatched'
  BY <1>2, CapLatchedStep DEF Next, Clock, Stopped
<1>4. QED
  BY <1>1, <1>3, TypeInvariance, PTL DEF Spec

\* The interlock is enough: no instruction uses a capability that an older derivation
\* has replaced or is about to replace.
THEOREM CapabilityOperands == Spec => CapOperandCurrent
<1> DEFINE Current ==
            idEx.valid /\ ~flushEXMEM /\ UsesCapRs1(idEx.instr) =>
                \A c \in Cap : CapRs1(idEx.instr) = c => idEx.capRs1Data = ReadCap(c)'
<1>1. ASSUME TypeOK, CapLatched, Tick PROVE Current
  BY <1>1, ReadCapStable DEF CapLatched
<1>2. TypeOK /\ CapLatched /\ [Next]_vars => [Current]_vars
  <2>1. Stopped => UNCHANGED vars
    BY DEF Stopped
  <2>2. QED
    BY <1>1, <2>1 DEF Next, Clock
<1>3. Spec => [][Current]_vars
  BY <1>2, TypeCorrectness, CapLatchedInvariance, PTL DEF Spec
<1>4. QED
  BY <1>3 DEF CapOperandCurrent

\* While a division waits, only the capability interlock can take it out of EX.
THEOREM OnlyCapHazardLoses == Spec => LostOnlyByCapHazard
<1> DEFINE Kept ==
            idEx.valid /\ ~flushEXMEM /\ ~(divHold /\ capHazard) =>
                idEx' = idEx \/ (exMem'.valid /\ exMem'.pc = idEx.pc)
<1>1. ASSUME Tick PROVE Kept
  <2> SUFFICES ASSUME idEx.valid, ~flushEXMEM, ~(divHold /\ capHazard)
               PROVE  idEx' = idEx \/ (exMem'.valid /\ exMem'.pc = idEx.pc)
    OBVIOUS
  <2>1. CASE divHold
    <3>1. ~branchTaken /\ ~loadUseHazard
      BY <2>1 DEF divHold, isDivOp, IsDiv, branchTaken, RedirectTaken, IsJump, IsBranch,
                  loadUseHazard, MemRead
    <3>2. ~flushIDEX
      BY <2>1, <3>1 DEF flushIDEX, isFlush, flushEXMEM
    <3>3. QED
      BY <1>1, <2>1, <3>2 DEF Tick, IdExTick
  <2>2. CASE ~divHold
    BY <1>1, <2>2 DEF Tick, ExMemTick
  <2>3. QED
    BY <2>1, <2>2
<1>2. [Next]_vars => [Kept]_vars
  <2>1. Stopped => UNCHANGED vars
    BY DEF Stopped
  <2>2. QED
    BY <1>1, <2>1 DEF Next, Clock
<1>3. Spec => [][Kept]_vars
  BY <1>2, PTL DEF Spec
<1>4. QED
  BY <1>3 DEF LostOnlyByCapHazard

-----------------------------------------------------------------------------
(* Integer operands.  An instruction that enters EX holds the registers of *)
(* that moment, a load that it needs is not in MEM, and the instruction in *)
(* MEM carries on its ALU bus what it will write back.  A division whose   *)
(* divider is busy has its operands latched there already.                 *)

Reads(r) ==
    idEx.valid /\ ~(isDivOp /\ DividerBusy)
    /\ (\/ UsesIntRs1(idEx.instr) /\ idEx.instr.rs1 = r
        \/ UsesIntRs2(idEx.instr) /\ idEx.instr.rs2 = r)

OperandsLatched ==
    idEx.valid /\ ~(isDivOp /\ DividerBusy) =>
        \A r \in Reg :
            /\ UsesIntRs1(idEx.instr) /\ idEx.instr.rs1 = r => idEx.rs1Data = regs[r]
            /\ UsesIntRs2(idEx.instr) /\ idEx.instr.rs2 = r => idEx.rs2Data = regs[r]

LoadsApart ==
    exMem.valid /\ MemRead(exMem.instr) =>
        \A r \in Reg : Reads(r) => exMem.instr.rd # r \/ r = 0

BusCarriesResult ==
    /\ exMem.instr.class \in {"JAL", "JALR"} => exMem.aluResult = Wrap(exMem.pc + 4)
    /\ exMem.instr.class = "LUI" => exMem.aluResult = exMem.instr.imm

OperandInv == OperandsLatched /\ LoadsApart /\ BusCarriesResult

\* What the register file holds after the clock edge is what the bypass reads now.
LEMMA RegsTickBypass ==
    ASSUME TypeOK, Tick, NEW r \in Reg
    PROVE  regs'[r] = ReadReg(r)
  BY TypeParts DEF Tick, RegsTick, ReadReg

\* A division that waits finds the divider busy: it has been started.
LEMMA HoldStarts == TypeOK /\ Tick /\ divHold /\ ~flushEXMEM => DividerBusy'
<1> SUFFICES ASSUME TypeOK, Tick, divHold, ~flushEXMEM PROVE divider'.state # "IDLE"
  BY DEF DividerBusy
<1> DEFINE isSigned == idEx.instr.fn \in {"DIV", "REM"}
<1>1. DividerTick(divStart, flushEXMEM, forwardedRs1, forwardedRs2, isSigned)
  BY DEF Tick
<1>2. DividerTypeOK /\ forwardedRs1 \in Word /\ forwardedRs2 \in Word /\ isSigned \in BOOLEAN
  BY TypeParts, ForwardedType
<1> HIDE DEF isSigned
<1>3. CASE divider.state = "IDLE"
  <2>1. divStart
    BY <1>3 DEF divStart, divHold, DividerBusy
  <2>2. divider' = Accept(forwardedRs1, forwardedRs2, isSigned)
    BY <1>1, <1>3, <2>1 DEF DividerTick
  <2>3. QED
    BY <1>2, <2>2, AcceptType
<1>4. CASE divider.state = "COMPUTE"
  <2>1. divider' = Compute
    BY <1>1, <1>4 DEF DividerTick
  <2>2. QED
    BY <1>2, <1>4, <2>1 DEF Compute, DividerTypeOK, DividerRegisters
<1>5. divider.state # "DONE"
  BY DEF divHold, DividerDone
<1>6. QED
  BY <1>2, <1>3, <1>4, <1>5 DEF DividerTypeOK, DividerRegisters

LEMMA OperandsLatchedStep == TypeOK /\ Tick => (OperandsLatched /\ LoadsApart)' \/ divHold
<1> SUFFICES ASSUME TypeOK, Tick, ~divHold PROVE OperandsLatched' /\ LoadsApart'
  OBVIOUS
<1>1. CASE flushIDEX
  BY <1>1 DEF Tick, IdExTick, EmptyIdEx, OperandsLatched, LoadsApart, Reads
<1>2. CASE ~flushIDEX
  <2>1. /\ idEx'.valid = ifId.valid /\ idEx'.instr = ifId.instr
        /\ idEx'.rs1Data = ReadReg(ifId.instr.rs1)
        /\ idEx'.rs2Data = ReadReg(ifId.instr.rs2)
    BY <1>2 DEF Tick, IdExTick
  <2>2. ~loadUseHazard
    BY <1>2 DEF flushIDEX
  <2>3. exMem'.valid => idEx.valid /\ exMem'.instr = idEx.instr
    BY DEF Tick, ExMemTick, EmptyExMem
  <2>4. OperandsLatched'
    BY <2>1, RegsTickBypass DEF OperandsLatched
  <2>5. LoadsApart'
    <3> SUFFICES ASSUME exMem'.valid, MemRead(exMem'.instr), NEW r \in Reg, Reads(r)',
                        exMem'.instr.rd = r, r # 0
                 PROVE  FALSE
      BY DEF LoadsApart
    <3>1. idEx.valid /\ MemRead(idEx.instr) /\ idEx.instr.rd = r
      BY <2>3
    <3>2. ifId.valid /\ (\/ UsesIntRs1(ifId.instr) /\ ifId.instr.rs1 = r
                         \/ UsesIntRs2(ifId.instr) /\ ifId.instr.rs2 = r)
      BY <2>1 DEF Reads
    <3>3. QED
      BY <2>2, <3>1, <3>2 DEF loadUseHazard
  <2>6. QED
    BY <2>4, <2>5
<1>3. QED
  BY <1>1, <1>2

LEMMA BusStep == TypeOK /\ BusCarriesResult /\ Tick => BusCarriesResult'
<1> SUFFICES ASSUME TypeOK, Tick PROVE BusCarriesResult'
  OBVIOUS
<1>1. CASE flushEXMEM
  BY <1>1 DEF Tick, ExMemTick, EmptyExMem, NOP, BusCarriesResult
<1>2. CASE ~flushEXMEM
  <2>1. exMem'.instr = idEx.instr /\ exMem'.aluResult = exResult /\ exMem'.pc = idEx.pc
    BY <1>2 DEF Tick, ExMemTick
  <2>2. idEx.pc \in Int /\ idEx.instr.imm \in Word
    BY TypeParts, WordIsInt DEF IdExSet, Instruction
  <2>3. ASSUME idEx.instr.class \in {"JAL", "JALR", "LUI"}
        PROVE  exResult = AluResult(idEx.instr, idEx.pc, forwardedRs1, forwardedRs2)
               /\ AluFn(idEx.instr) = "ADD"
    BY <2>3 DEF exResult, IsCapMem, IsCapOp, IsMul, isDivOp, IsDiv, AluFn
  <2>4. ASSUME idEx.instr.class \in {"JAL", "JALR"}
        PROVE  exResult = Wrap(idEx.pc + 4)
    BY <2>3, <2>4 DEF AluResult, Alu, AluOperandA, AluOperandB
  <2>5. ASSUME idEx.instr.class = "LUI"
        PROVE  exResult = idEx.instr.imm
    <3>1. exResult = Wrap(0 + idEx.instr.imm)
      BY <2>3, <2>5 DEF AluResult, Alu, AluOperandA, AluOperandB
    <3>2. 0 + idEx.instr.imm = idEx.instr.imm
      BY <2>2, WordIsInt
    <3>3. QED
      BY <2>2, <3>1, <3>2, WrapWord
  <2>6. QED
    BY <2>1, <2>4, <2>5 DEF BusCarriesResult
<1>3. QED
  BY <1>1, <1>2

\* A division that is held stays in EX with its divider busy, or is squashed.
LEMMA HeldOperandsStep == TypeOK /\ Tick /\ divHold => (OperandsLatched /\ LoadsApart)'
<1> SUFFICES ASSUME TypeOK, Tick, divHold PROVE OperandsLatched' /\ LoadsApart'
  OBVIOUS
<1>1. CASE flushIDEX
  BY <1>1 DEF Tick, IdExTick, EmptyIdEx, OperandsLatched, LoadsApart, Reads
<1>2. CASE ~flushIDEX
  <2>1. idEx' = idEx
    BY <1>2 DEF Tick, IdExTick
  <2>2. isDivOp'
    BY <2>1 DEF divHold, isDivOp
  <2>3. DividerBusy'
    BY HoldStarts DEF divHold, flushEXMEM
  <2>4. QED
    BY <2>2, <2>3 DEF OperandsLatched, LoadsApart, Reads
<1>3. QED
  BY <1>1, <1>2

LEMMA OperandInvariance == Spec => []OperandInv
<1>1. Init => OperandInv
  BY DEF Init, EmptyIdEx, EmptyExMem, NOP, OperandInv, OperandsLatched, LoadsApart,
         BusCarriesResult
<1>2. ASSUME OperandInv, UNCHANGED vars PROVE OperandInv'
  BY <1>2 DEF vars, coreVars, OperandInv, OperandsLatched, LoadsApart, Reads,
              BusCarriesResult, isDivOp, DividerBusy
<1>3. TypeOK /\ OperandInv /\ Tick => OperandInv'
  BY OperandsLatchedStep, HeldOperandsStep, BusStep DEF OperandInv
<1>4. TypeOK /\ OperandInv /\ [Next]_vars => OperandInv'
  BY <1>2, <1>3 DEF Next, Clock, Stopped
<1>5. QED
  BY <1>1, <1>4, TypeCorrectness, PTL DEF Spec

\* The value that forwarding delivers is what WB and the register file hold for that
\* register after the edge.
LEMMA ForwardCurrent ==
    ASSUME TypeOK, OperandInv, Tick, ~flushEXMEM, NEW r \in Reg, Reads(r),
           NEW latched, latched = regs[r]
    PROVE  Forward(r, latched) = ReadReg(r)'
<1>1. /\ memWb'.instr = exMem.instr /\ memWb'.aluResult = exMem.aluResult
      /\ memWb'.pc = exMem.pc
      /\ memWb'.valid <=> exMem.valid
      /\ memWb'.regWrite <=> RegWrite(exMem.instr)
                             /\ (MemRead(exMem.instr) => loadAccepted)
  BY DEF Tick, MemWbTick, flushEXMEM
<1>2. regs'[r] = ReadReg(r)
  BY RegsTickBypass
<1>3. CASE FromExMem(r)
  <2>1. wbRegWrite' /\ memWb'.instr.rd = r
    BY <1>1, <1>3 DEF FromExMem, wbRegWrite
  <2>2. exMem.instr.class \notin {"LOAD", "CAPLOAD"}
    BY <1>3 DEF FromExMem, RegWrite, MemRead
  <2>3. wbData' = exMem.aluResult
    BY <1>1, <2>2 DEF wbData, OperandInv, BusCarriesResult
  <2>4. ReadReg(r)' = wbData'
    BY <2>1 DEF ReadReg
  <2>5. QED
    BY <1>3, <2>3, <2>4 DEF Forward
<1>4. CASE ~FromExMem(r)
  <2>1. ~(wbRegWrite' /\ memWb'.instr.rd = r)
    BY <1>1, <1>4 DEF FromExMem, wbRegWrite, OperandInv, LoadsApart
  <2>2. ReadReg(r)' = ReadReg(r)
    BY <1>2, <2>1 DEF ReadReg
  <2>3. QED
    BY <1>4, <2>2 DEF Forward, FromMemWb, ReadReg
<1>5. QED
  BY <1>3, <1>4

\* Forwarding, the load-use interlock and the bypass together are enough: an
\* instruction leaves EX with the registers that program order gives it.
THEOREM OperandForwarding == Spec => OperandsCurrent
<1> DEFINE Current ==
            idEx.valid /\ ~flushEXMEM /\ ~(isDivOp /\ DividerBusy) =>
                \A r \in Reg :
                    /\ UsesIntRs1(idEx.instr) /\ idEx.instr.rs1 = r =>
                           forwardedRs1 = ReadReg(r)'
                    /\ UsesIntRs2(idEx.instr) /\ idEx.instr.rs2 = r =>
                           forwardedRs2 = ReadReg(r)'
<1>1. ASSUME TypeOK, OperandInv, Tick PROVE Current
  <2> SUFFICES ASSUME idEx.valid, ~flushEXMEM, ~(isDivOp /\ DividerBusy), NEW r \in Reg
               PROVE  /\ UsesIntRs1(idEx.instr) /\ idEx.instr.rs1 = r =>
                             forwardedRs1 = ReadReg(r)'
                      /\ UsesIntRs2(idEx.instr) /\ idEx.instr.rs2 = r =>
                             forwardedRs2 = ReadReg(r)'
    OBVIOUS
  <2>1. ASSUME UsesIntRs1(idEx.instr), idEx.instr.rs1 = r
        PROVE  forwardedRs1 = ReadReg(r)'
    <3>1. Reads(r) /\ idEx.rs1Data = regs[r]
      BY <1>1, <2>1 DEF Reads, OperandInv, OperandsLatched
    <3>2. QED
      BY <1>1, <2>1, <3>1, ForwardCurrent DEF forwardedRs1
  <2>2. ASSUME UsesIntRs2(idEx.instr), idEx.instr.rs2 = r
        PROVE  forwardedRs2 = ReadReg(r)'
    <3>1. Reads(r) /\ idEx.rs2Data = regs[r]
      BY <1>1, <2>2 DEF Reads, OperandInv, OperandsLatched
    <3>2. QED
      BY <1>1, <2>2, <3>1, ForwardCurrent DEF forwardedRs2
  <2>3. QED
    BY <2>1, <2>2
<1>2. TypeOK /\ OperandInv /\ [Next]_vars => [Current]_vars
  <2>1. Stopped => UNCHANGED vars
    BY DEF Stopped
  <2>2. QED
    BY <1>1, <2>1 DEF Next, Clock
<1>3. Spec => [][Current]_vars
  BY <1>2, TypeCorrectness, OperandInvariance, PTL DEF Spec
<1>4. QED
  BY <1>3 DEF OperandsCurrent

-----------------------------------------------------------------------------
(* The divider answers the division in EX.  A busy divider belongs to the  *)
(* division that is held there: the pipeline behind it has drained into    *)
(* the register file, so the operands it latched stay those of program     *)
(* order.  This needs that no division is lost to the capability           *)
(* interlock, which leaves the divider at work for nobody.                 *)

LosesDivision == divHold /\ capHazard

\* The division in EX, with the operands of program order.
ExDivision ==
    [dividend |-> ReadReg(idEx.instr.rs1), divisor |-> ReadReg(idEx.instr.rs2),
     isSigned |-> idEx.instr.fn \in {"DIV", "REM"}]

Answered(r) ==
    /\ divider.finalQuotient = Quotient(r.isSigned, r.dividend, r.divisor)
    /\ divider.finalRemainder = Remainder(r.isSigned, r.dividend, r.divisor)

DividerServesEx ==
    DividerBusy =>
        /\ idEx.valid /\ isDivOp /\ ~exMem.valid
        /\ divider.state = "COMPUTE" => Computing(ExDivision)
        /\ DividerDone => Answered(ExDivision)

LEMMA HeldDivisionStays ==
    ASSUME Tick, divHold, ~capHazard
    PROVE  idEx' = idEx /\ ~exMem'.valid
<1>1. ~branchTaken /\ ~loadUseHazard
  BY DEF divHold, isDivOp, IsDiv, branchTaken, RedirectTaken, IsJump, IsBranch, loadUseHazard,
         MemRead
<1>2. ~flushIDEX /\ ~flushEXMEM
  BY <1>1 DEF flushIDEX, isFlush, flushEXMEM, divHold
<1>3. QED
  BY <1>2 DEF Tick, IdExTick, ExMemTick

\* With nothing in MEM no register changes its value in program order.
LEMMA ReadRegStable ==
    ASSUME TypeOK, Tick, ~exMem.valid, NEW r \in Reg
    PROVE  ReadReg(r)' = ReadReg(r)
<1>1. ~wbRegWrite'
  BY DEF Tick, MemWbTick, wbRegWrite
<1>2. QED
  BY <1>1, RegsTickBypass DEF ReadReg

LEMMA ExDivisionType == ASSUME TypeOK PROVE ExDivision \in Division
<1>1. idEx.instr.rs1 \in Reg /\ idEx.instr.rs2 \in Reg
  BY TypeParts DEF IdExSet, Instruction
<1>2. QED
  BY <1>1, ReadRegType DEF ExDivision, Division

LEMMA DividerServesStep ==
    ASSUME TypeInv, OperandInv, DividerServesEx, Tick, ~LosesDivision
    PROVE  DividerServesEx'
<1> DEFINE isSigned == idEx.instr.fn \in {"DIV", "REM"}
<1>0. /\ TypeOK /\ DividerTypeOK /\ Counting
      /\ idEx.instr.rs1 \in Reg /\ idEx.instr.rs2 \in Reg
  BY TypeParts DEF TypeInv, IdExSet, Instruction
<1>1. DividerTick(divStart, flushEXMEM, forwardedRs1, forwardedRs2, isSigned)
  BY DEF Tick
<1>2. CASE flushEXMEM
  BY <1>0, <1>1, <1>2
  DEF DividerTick, DividerServesEx, DividerBusy, DividerTypeOK, DividerRegisters
<1>3. CASE ~flushEXMEM /\ divider.state = "DONE"
  BY <1>0, <1>1, <1>3
  DEF DividerTick, DividerServesEx, DividerBusy, DividerTypeOK, DividerRegisters
<1>4. CASE ~flushEXMEM /\ divider.state = "IDLE" /\ ~divStart
  BY <1>1, <1>4 DEF DividerTick, DividerServesEx, DividerBusy
<1>5. CASE ~flushEXMEM /\ divider.state = "IDLE" /\ divStart
  <2>1. idEx.valid /\ isDivOp /\ ~DividerBusy /\ divHold
    BY <1>5 DEF divStart, divHold, DividerBusy, DividerDone, flushEXMEM
  <2>2. idEx' = idEx /\ ~exMem'.valid
    BY <2>1, HeldDivisionStays DEF LosesDivision
  <2>3. PICK r : r = [dividend |-> forwardedRs1, divisor |-> forwardedRs2,
                      isSigned |-> isSigned]
    OBVIOUS
  <2>4. /\ r \in Division /\ r.dividend = forwardedRs1 /\ r.divisor = forwardedRs2
        /\ r.isSigned = isSigned
    BY <1>0, <2>3, ForwardedType DEF Division
  <2>5. forwardedRs1 = ReadReg(idEx.instr.rs1)' /\ forwardedRs2 = ReadReg(idEx.instr.rs2)'
    <3>1. UsesIntRs1(idEx.instr) /\ UsesIntRs2(idEx.instr)
      BY <2>1 DEF isDivOp, IsDiv, UsesIntRs1, UsesIntRs2
    <3>2. Reads(idEx.instr.rs1) /\ Reads(idEx.instr.rs2)
      BY <2>1, <3>1 DEF Reads
    <3>3. idEx.rs1Data = regs[idEx.instr.rs1] /\ idEx.rs2Data = regs[idEx.instr.rs2]
      BY <1>0, <2>1, <3>1 DEF OperandInv, OperandsLatched
    <3>4. PICK a \in Reg, b \in Reg : a = idEx.instr.rs1 /\ b = idEx.instr.rs2
      BY <1>0
    <3>5. forwardedRs1 = ReadReg(a)' /\ forwardedRs2 = ReadReg(b)'
      BY <1>0, <1>5, <3>2, <3>3, <3>4, ForwardCurrent DEF forwardedRs1, forwardedRs2
    <3>6. QED
      BY <2>2, <3>4, <3>5
  <2>6. ExDivision' = r
    BY <2>2, <2>3, <2>5 DEF ExDivision
  <2>7. divider' = Accept(r.dividend, r.divisor, r.isSigned)
    BY <1>1, <1>5, <2>4 DEF DividerTick
  <2>8. /\ DividerDone' => Answered(r)'
        /\ divider'.state = "COMPUTE" => Computing(r)'
    BY <1>0, <2>4, <2>7, AcceptComputes DEF Answered
  <2>9. QED
    BY <2>1, <2>2, <2>6, <2>8 DEF DividerServesEx, isDivOp, Computing, Answered
<1>6. CASE ~flushEXMEM /\ divider.state = "COMPUTE"
  <2>1. idEx.valid /\ isDivOp /\ ~exMem.valid /\ Computing(ExDivision) /\ divHold
    BY <1>6 DEF DividerServesEx, divHold, DividerBusy, DividerDone, flushEXMEM
  <2>2. idEx' = idEx /\ ~exMem'.valid
    BY <2>1, HeldDivisionStays DEF LosesDivision
  <2>3. PICK r \in Division : r = ExDivision
    BY <1>0, ExDivisionType
  <2>4. ExDivision' = r
    <3>1. PICK a \in Reg, b \in Reg : a = idEx.instr.rs1 /\ b = idEx.instr.rs2
      BY <1>0
    <3>2. ReadReg(a)' = ReadReg(a) /\ ReadReg(b)' = ReadReg(b)
      BY <1>0, <2>1, ReadRegStable
    <3>3. QED
      BY <2>2, <2>3, <3>1, <3>2 DEF ExDivision
  <2>5. divider' = Compute
    BY <1>1, <1>6 DEF DividerTick
  <2>6. /\ DividerDone' => Answered(r)'
        /\ divider'.state = "COMPUTE" => Computing(r)'
    <3>1. Computing(r)
      BY <2>1, <2>3
    <3>2. divider.count = 1 => DividerDone' /\ Answered(r)'
      BY <1>0, <1>6, <2>5, <3>1, ComputeDivides DEF Answered
    <3>3. divider.count # 1 => divider'.state = "COMPUTE" /\ Computing(r)'
      BY <1>0, <1>6, <2>5, <3>1, ComputeDivides
    <3>4. QED
      BY <3>2, <3>3 DEF DividerDone
  <2>7. QED
    BY <2>1, <2>2, <2>4, <2>6 DEF DividerServesEx, isDivOp, Computing, Answered
<1>7. QED
  BY <1>0, <1>2, <1>3, <1>4, <1>5, <1>6 DEF DividerTypeOK, DividerRegisters

LEMMA ServedAnswers ==
    ASSUME TypeOK, DividerServesEx
    PROVE  DividerAnswersEx
<1> SUFFICES ASSUME idEx.valid, isDivOp, DividerDone PROVE DividerAnswersEx
  BY DEF DividerAnswersEx
<1>1. Answered(ExDivision)
  BY DEF DividerServesEx, DividerDone, DividerBusy
<1>2. exResult = IF idEx.instr.fn \in {"DIV", "DIVU"} THEN divider.finalQuotient
                 ELSE divider.finalRemainder
  BY DEF exResult, isDivOp, IsDiv, IsMul, IsCapMem, IsCapOp, MulFns, DivFns
<1>3. idEx.instr.fn \in {"DIV", "DIVU", "REM", "REMU"}
  BY DEF isDivOp, IsDiv, DivFns
<1>4. PICK a, b : a = ReadReg(idEx.instr.rs1) /\ b = ReadReg(idEx.instr.rs2)
  OBVIOUS
<1>5. PICK fn : fn = idEx.instr.fn
  OBVIOUS
<1>6. /\ ExDivision.dividend = a /\ ExDivision.divisor = b
      /\ ExDivision.isSigned = (fn \in {"DIV", "REM"})
  BY <1>4, <1>5 DEF ExDivision
<1>7. /\ divider.finalQuotient = Quotient(fn \in {"DIV", "REM"}, a, b)
      /\ divider.finalRemainder = Remainder(fn \in {"DIV", "REM"}, a, b)
  BY <1>1, <1>6 DEF Answered
<1>8. exResult = CASE fn = "DIV"  -> Quotient(TRUE, a, b)
                   [] fn = "DIVU" -> Quotient(FALSE, a, b)
                   [] fn = "REM"  -> Remainder(TRUE, a, b)
                   [] OTHER       -> Remainder(FALSE, a, b)
  <2>1. CASE fn = "DIV"
    BY <1>2, <1>5, <1>7, <2>1
  <2>2. CASE fn = "DIVU"
    <3>1. (fn \in {"DIV", "REM"}) = FALSE
      BY <2>2
    <3>2. divider.finalQuotient = Quotient(FALSE, a, b)
      BY <1>7, <3>1, Zenon
    <3>3. QED
      BY <1>2, <1>5, <2>2, <3>2
  <2>3. CASE fn = "REM"
    BY <1>2, <1>5, <1>7, <2>3
  <2>4. CASE fn = "REMU"
    <3>1. (fn \in {"DIV", "REM"}) = FALSE
      BY <2>4
    <3>2. divider.finalRemainder = Remainder(FALSE, a, b)
      BY <1>7, <3>1, Zenon
    <3>3. QED
      BY <1>2, <1>5, <2>4, <3>2
  <2>5. QED
    BY <1>3, <1>5, <2>1, <2>2, <2>3, <2>4
<1>9. QED
  BY <1>4, <1>5, <1>8 DEF DividerAnswersEx

LEMMA DividerServed == Spec /\ []~LosesDivision => []DividerServesEx
<1>1. Init => DividerServesEx
  BY DEF Init, DividerInit, DividerServesEx, DividerBusy
<1>2. ASSUME DividerServesEx, UNCHANGED vars PROVE DividerServesEx'
  BY <1>2 DEF vars, coreVars, DividerServesEx, DividerBusy, DividerDone, isDivOp, Computing,
              ExDivision, Answered, ReadReg, wbRegWrite, wbData
<1>3. TypeInv /\ OperandInv /\ DividerServesEx /\ ~LosesDivision /\ [Next]_vars =>
          DividerServesEx'
  BY <1>2, DividerServesStep DEF Next, Clock, Stopped
<1>4. QED
  BY <1>1, <1>3, TypeInvariance, OperandInvariance, PTL DEF Spec

\* Unless the capability interlock takes a division out of EX, whatever the divider
\* answers is quotient or remainder of the registers that program order gives the
\* instruction waiting for it, whichever requests were killed by traps before.
THEOREM DividerAnswers == Spec /\ []~LosesDivision => []DividerAnswersEx
<1>1. TypeOK /\ DividerServesEx => DividerAnswersEx
  BY ServedAnswers
<1>2. QED
  BY <1>1, DividerServed, TypeCorrectness, PTL

-----------------------------------------------------------------------------
(* Programs that lose no division.  Valid instructions in adjacent stages  *)
(* come from adjacent slots of the program, so a division is lost only     *)
(* where the program has a derivation, the division and a use of the       *)
(* derived capability in a row: KeepsDivisions rules that out.             *)

FetchedAt(stage) ==
    stage.valid => /\ stage.pc \div 4 < Len(rom)
                   /\ stage.instr = rom[(stage.pc \div 4) + 1]

Follows(older, younger) == older.valid /\ younger.valid => younger.pc = Wrap(older.pc + 4)

InProgramOrder ==
    /\ FetchedAt(ifId) /\ FetchedAt(idEx) /\ FetchedAt(exMem)
    /\ ifId.valid => pc = Wrap(ifId.pc + 4)
    /\ Follows(idEx, ifId) /\ Follows(exMem, idEx)
    /\ exMem.derivation.write => CapRegWrite(exMem.instr)

LEMMA FetchStep ==
    ASSUME TypeOK, InProgramOrder, Tick
    PROVE  FetchedAt(ifId)' /\ (ifId.valid => pc = Wrap(ifId.pc + 4))'
<1>0. rom' = rom /\ pc \in Int /\ Len(rom) \in Int
  BY TypeParts, WordIsInt DEF Tick
<1>1. CASE isFlush
  BY <1>1 DEF Tick, IfIdTick, flushIFID, EmptyIfId, FetchedAt
<1>2. CASE ~isFlush /\ stallIF
  <2>1. ifId' = ifId /\ pc' = pc
    BY <1>2 DEF Tick, IfIdTick, PcTick, flushIFID, stallID, isFlush
  <2>2. QED
    BY <1>0, <2>1 DEF InProgramOrder, FetchedAt
<1>3. CASE ~isFlush /\ ~stallIF
  <2>1. /\ ifId'.pc = pc /\ ifId'.instr = ifInstruction
        /\ ifId'.valid <=> ifValid
        /\ pc' = Wrap(pc + 4)
    BY <1>3 DEF Tick, IfIdTick, PcTick, flushIFID, stallID, isFlush
  <2>2. ifValid => pc \div 4 < Len(rom)
    BY <1>0 DEF ifValid
  <2>3. QED
    BY <1>0, <2>1, <2>2 DEF FetchedAt, ifInstruction
<1>4. QED
  BY <1>1, <1>2, <1>3

LEMMA DecodeStep ==
    ASSUME TypeOK, InProgramOrder, Tick
    PROVE  FetchedAt(idEx)' /\ Follows(idEx, ifId)'
<1>0. rom' = rom
  BY DEF Tick
<1>1. CASE flushIDEX
  BY <1>1 DEF Tick, IdExTick, EmptyIdEx, FetchedAt, Follows
<1>2. CASE ~flushIDEX /\ divHold
  <2>1. idEx' = idEx /\ ifId' = ifId
    BY <1>2 DEF Tick, IdExTick, IfIdTick, flushIDEX, flushIFID, stallID, stallIF
  <2>2. QED
    BY <1>0, <2>1 DEF InProgramOrder, FetchedAt, Follows
<1>3. CASE ~flushIDEX /\ ~divHold
  <2>1. /\ idEx'.pc = ifId.pc /\ idEx'.instr = ifId.instr
        /\ idEx'.valid <=> ifId.valid
    BY <1>3 DEF Tick, IdExTick
  <2>2. ifId'.pc = pc
    BY <1>3 DEF Tick, IfIdTick, flushIDEX, flushIFID, stallID, stallIF
  <2>3. QED
    BY <1>0, <2>1, <2>2 DEF InProgramOrder, FetchedAt, Follows
<1>4. QED
  BY <1>1, <1>2, <1>3

LEMMA ExecuteStep ==
    ASSUME TypeOK, InProgramOrder, Tick
    PROVE  /\ FetchedAt(exMem)' /\ Follows(exMem, idEx)'
           /\ (exMem.derivation.write => CapRegWrite(exMem.instr))'
<1>0. rom' = rom
  BY DEF Tick
<1>1. CASE flushEXMEM
  BY <1>1 DEF Tick, ExMemTick, EmptyExMem, NoDerivation, Derivation, FetchedAt, Follows
<1>2. CASE ~flushEXMEM
  <2>1. /\ exMem'.pc = idEx.pc /\ exMem'.instr = idEx.instr
        /\ exMem'.valid <=> idEx.valid /\ ~divHold
        /\ exMem'.derivation = exDerivation
    BY <1>2 DEF Tick, ExMemTick
  <2>2. exMem'.valid /\ idEx'.valid => ifId.valid /\ idEx'.pc = ifId.pc
    BY <2>1 DEF Tick, IdExTick, EmptyIdEx
  <2>3. QED
    BY <1>0, <2>1, <2>2, OnlyProducersDerive DEF InProgramOrder, FetchedAt, Follows
<1>3. QED
  BY <1>1, <1>2

LEMMA ProgramOrder == Spec => []InProgramOrder
<1>1. Init => InProgramOrder
  BY DEF Init, EmptyIfId, EmptyIdEx, EmptyExMem, NoDerivation, Derivation, InProgramOrder,
         FetchedAt, Follows
<1>2. ASSUME InProgramOrder, UNCHANGED vars PROVE InProgramOrder'
  BY <1>2 DEF vars, coreVars, InProgramOrder, FetchedAt, Follows
<1>3. TypeOK /\ InProgramOrder /\ Tick => InProgramOrder'
  BY FetchStep, DecodeStep, ExecuteStep DEF InProgramOrder
<1>4. TypeOK /\ InProgramOrder /\ [Next]_vars => InProgramOrder'
  BY <1>2, <1>3 DEF Next, Clock, Stopped
<1>5. QED
  BY <1>1, <1>4, TypeCorrectness, PTL DEF Spec

\* The slot after one of the program: the address does not wrap around.
LEMMA NextSlot ==
    ASSUME NEW a \in Word, NEW length \in Nat, 4 * length < WordModulus, a \div 4 < length
    PROVE  Wrap(a + 4) \div 4 = (a \div 4) + 1
<1>1. PICK h \in Int : ByteModulus = 2 * h
  BY WidthAssumption
<1>2. PICK c \in Int : c = h * h * ByteModulus * ByteModulus
  BY <1>1, WidthAssumption
<1>3. WordModulus = 4 * c
  BY <1>1, <1>2, WidthAssumption DEF WordModulus
<1>4. a \in Int /\ 0 <= a
  BY WordIsInt DEF Word
<1>5. a + 4 < 4 * length + 4 /\ 4 * length + 4 <= WordModulus
  BY <1>2, <1>3, <1>4
<1>6. Wrap(a + 4) = a + 4
  BY <1>2, <1>3, <1>4, <1>5 DEF Wrap
<1>7. QED
  BY <1>4, <1>6

LEMMA LossInProgram ==
    ASSUME TypeOK, InProgramOrder, LosesDivision
    PROVE  ~KeepsDivisions(rom)
<1>1. /\ exMem.valid /\ exMem.derivation.write /\ CapRd(exMem.instr) = CapRs1(ifId.instr)
      /\ idEx.valid /\ IsDiv(idEx.instr)
      /\ ifId.valid /\ UsesCapRs1(ifId.instr) /\ CapRs1(ifId.instr) # 0
  BY DEF LosesDivision, divHold, isDivOp, capHazard, CapRegWrite, IsCapOp, IsDiv
<1>2. PICK k : k = (exMem.pc \div 4) + 1
  OBVIOUS
<1>3. /\ exMem.pc \in Word /\ idEx.pc \in Word /\ Len(rom) \in Nat
      /\ 4 * Len(rom) < WordModulus
  BY TypeParts DEF ExMemSet, IdExSet
<1>4. /\ exMem.pc \div 4 < Len(rom) /\ exMem.instr = rom[k]
      /\ idEx.pc \div 4 < Len(rom) /\ idEx.instr = rom[(idEx.pc \div 4) + 1]
      /\ ifId.pc \div 4 < Len(rom) /\ ifId.instr = rom[(ifId.pc \div 4) + 1]
  BY <1>1, <1>2 DEF InProgramOrder, FetchedAt
<1>5. idEx.pc \div 4 = (exMem.pc \div 4) + 1 /\ ifId.pc \div 4 = (idEx.pc \div 4) + 1
  BY <1>1, <1>3, <1>4, NextSlot DEF InProgramOrder, Follows
<1>6. exMem.pc \div 4 \in Nat
  BY <1>3, WordIsInt DEF Word
<1>7. /\ k \in 1 .. (Len(rom) - 2)
      /\ (idEx.pc \div 4) + 1 = k + 1 /\ (ifId.pc \div 4) + 1 = k + 2
  BY <1>2, <1>3, <1>4, <1>5, <1>6
<1>8. DerivesAcrossDivision(rom, k)
  BY <1>1, <1>4, <1>7 DEF DerivesAcrossDivision, InProgramOrder
<1>9. QED
  BY <1>7, <1>8 DEF KeepsDivisions

LEMMA NoDivisionLost == Spec /\ KeepsDivisions(rom) => []~LosesDivision
<1>1. KeepsDivisions(rom) /\ [Next]_vars => KeepsDivisions(rom)'
  BY DEF Next, Clock, Stopped, Tick, vars, KeepsDivisions
<1>2. TypeOK /\ InProgramOrder /\ KeepsDivisions(rom) => ~LosesDivision
  BY LossInProgram
<1>3. QED
  BY <1>1, <1>2, TypeCorrectness, ProgramOrder, PTL DEF Spec

\* In a program without such a sequence the divider answers every division with the
\* result for the operands of program order.
THEOREM DividerAnswersProgram == Spec /\ KeepsDivisions(rom) => []DividerAnswersEx
  BY NoDivisionLost, DividerAnswers, PTL

\* In a program without such a sequence no instruction is lost: the one sequence of the
\* lost_division run is the only way.
THEOREM NothingLost == Spec /\ KeepsDivisions(rom) => NoInstructionLost
<1> DEFINE Kept    == idEx' = idEx \/ (exMem'.valid /\ exMem'.pc = idEx.pc)
           Leaves  == idEx.valid /\ ~flushEXMEM
<1>1. Spec => [][Leaves /\ ~LosesDivision => Kept]_vars
  BY OnlyCapHazardLoses DEF LostOnlyByCapHazard, LosesDivision
<1>2. Spec /\ KeepsDivisions(rom) => [][Leaves => Kept]_vars
  BY <1>1, NoDivisionLost, PTL
<1>3. QED
  BY <1>2 DEF NoInstructionLost
=============================================================================
