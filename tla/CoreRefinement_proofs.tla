------------------------ MODULE CoreRefinement_proofs ------------------------
(***************************************************************************)
(* The pipelined core implements the golden interpreter, for every width   *)
(* and every program, in an execution that conforms: a tick with a valid   *)
(* MEM stage is the interpreter's step at that instruction, and any other  *)
(* tick leaves the interpreter's state alone.                              *)
(***************************************************************************)
EXTENDS CoreRefinement, PipelinedCore_proofs

\* The interpreter's own copies of the arithmetic, the decoder, memory and the capability
\* operations are those of the core: Golden is an instance, so each is a symbol of its own.
LEMMA SameWords ==
    /\ Golden!Word = Word
    /\ \A n : Golden!Wrap(n) = Wrap(n)
    /\ \A w : Golden!Signed(w) = Signed(w)
    /\ \A p : Golden!AsWord(p) = AsWord(p)
    /\ \A fn, a, b : Golden!Alu(fn, a, b) = Alu(fn, a, b)
    /\ \A fn, a, b : Golden!Multiply(fn, a, b) = Multiply(fn, a, b)
    /\ \A s, a, b : Golden!Quotient(s, a, b) = Quotient(s, a, b)
    /\ \A s, a, b : Golden!Remainder(s, a, b) = Remainder(s, a, b)
<1>1. Golden!WordModulus = WordModulus
  BY DEF Golden!WordModulus, WordModulus
<1>2. Golden!Word = Word /\ \A n : Golden!Wrap(n) = Wrap(n)
  BY <1>1 DEF Golden!Word, Word, Golden!Wrap, Wrap
<1>3. \A w : Golden!Signed(w) = Signed(w)
  BY <1>1 DEF Golden!Signed, Signed, Golden!Negative, Negative
<1>4. \A p : Golden!AsWord(p) = AsWord(p)
  BY DEF Golden!AsWord, AsWord
<1>5. \A fn, a, b : Golden!Alu(fn, a, b) = Alu(fn, a, b)
  BY <1>2, <1>3, <1>4 DEF Golden!Alu, Alu, Golden!Less, Less, Golden!LessUnsigned, LessUnsigned
<1>6. \A fn, a, b : Golden!Multiply(fn, a, b) = Multiply(fn, a, b)
  BY <1>1, <1>2, <1>3, <1>4 DEF Golden!Multiply, Multiply
<1>7. \A n : Golden!Abs(n) = Abs(n)
  BY DEF Golden!Abs, Abs
<1>8. \A s, a, b : Golden!Quotient(s, a, b) = Quotient(s, a, b)
  BY <1>1, <1>2, <1>3, <1>7 DEF Golden!Quotient, Quotient
<1>9. \A s, a, b : Golden!Remainder(s, a, b) = Remainder(s, a, b)
  BY <1>1, <1>2, <1>3, <1>7 DEF Golden!Remainder, Remainder
<1>10. QED
  BY <1>2, <1>3, <1>4, <1>5, <1>6, <1>8, <1>9

\* Decoding is the same on both sides.
LEMMA SameInstructions ==
    /\ Golden!CapGetFns = CapGetFns
    /\ \A i : (Golden!Illegal(i) <=> Illegal(i))
    /\ \A i : (Golden!IsCapOp(i) <=> IsCapOp(i))
    /\ \A i : (Golden!IsCapMem(i) <=> IsCapMem(i))
    /\ \A i : (Golden!IsMul(i) <=> IsMul(i))
    /\ \A i : (Golden!IsDiv(i) <=> IsDiv(i))
    /\ \A i : (Golden!IsBranch(i) <=> IsBranch(i))
    /\ \A i : (Golden!IsJump(i) <=> IsJump(i))
    /\ \A fn, a, b : (Golden!Compare(fn, a, b) <=> Compare(fn, a, b))
    /\ \A i, at, a : Golden!TargetAddress(i, at, a) = TargetAddress(i, at, a)
    /\ \A i : Golden!AccessSize(i) = AccessSize(i)
<1>1. Golden!CapGetFns = CapGetFns /\ Golden!MulFns = MulFns /\ Golden!DivFns = DivFns
  BY DEF Golden!CapGetFns, CapGetFns, Golden!MulFns, MulFns, Golden!DivFns, DivFns
<1>2. Golden!LegalFns = LegalFns
  BY DEF Golden!LegalFns, LegalFns, Golden!CapGetFns, CapGetFns, Golden!MulFns, MulFns,
         Golden!DivFns, DivFns, Golden!ImmAluFns, ImmAluFns, Golden!CmpFns, CmpFns,
         Golden!CapDeriveFns, CapDeriveFns, Golden!LoadFns, LoadFns, Golden!StoreFns, StoreFns,
         Golden!LogicFns, LogicFns
<1>3. \A i : (Golden!Illegal(i) <=> Illegal(i))
  BY <1>1, <1>2 DEF Golden!Illegal, Illegal, Golden!BadCapIndex, BadCapIndex, Golden!Cap, Cap
<1>4. \A i : /\ (Golden!IsCapOp(i) <=> IsCapOp(i)) /\ (Golden!IsCapMem(i) <=> IsCapMem(i))
             /\ (Golden!IsMul(i) <=> IsMul(i)) /\ (Golden!IsDiv(i) <=> IsDiv(i))
             /\ (Golden!IsBranch(i) <=> IsBranch(i)) /\ (Golden!IsJump(i) <=> IsJump(i))
  BY <1>1, <1>3 DEF Golden!IsCapOp, IsCapOp, Golden!IsCapMem, IsCapMem, Golden!IsMul, IsMul,
     Golden!IsDiv, IsDiv, Golden!IsBranch, IsBranch, Golden!IsJump, IsJump
<1>5. \A fn, a, b : (Golden!Compare(fn, a, b) <=> Compare(fn, a, b))
  BY SameWords DEF Golden!Compare, Compare, Golden!Less, Less, Golden!LessUnsigned, LessUnsigned
<1>6. \A i, at, a : Golden!TargetAddress(i, at, a) = TargetAddress(i, at, a)
  BY SameWords DEF Golden!TargetAddress, TargetAddress
<1>7. \A i : Golden!AccessSize(i) = AccessSize(i)
  BY DEF Golden!AccessSize, AccessSize
<1>8. QED
  BY <1>1, <1>3, <1>4, <1>5, <1>6, <1>7

\* So are memory, the register window and capabilities.
LEMMA SameStorage ==
    /\ \A a : (Golden!WindowHit(a) <=> WindowHit(a))
    /\ \A a : (Golden!InBounds(a) <=> InBounds(a))
    /\ \A i, a : (Golden!Misaligned(i, a) <=> Misaligned(i, a))
    /\ \A w : Golden!WordAligned(w) = WordAligned(w)
    /\ \A w : (Golden!Odd(w) <=> Odd(w))
    /\ \A m, i, a : Golden!LoadValue(m, i, a) = LoadValue(m, i, a)
    /\ \A m, i, a, w : Golden!StoreValue(m, i, a, w) = StoreValue(m, i, a, w)
    /\ Golden!NullCapability = NullCapability
    /\ \A c : Golden!CapResetValue(c) = CapResetValue(c)
    /\ \A w : Golden!PermsOfWord(w) = PermsOfWord(w)
    /\ \A fn, cap : Golden!CapField(fn, cap) = CapField(fn, cap)
<1>1. \A a : (Golden!WindowHit(a) <=> WindowHit(a)) /\ (Golden!InBounds(a) <=> InBounds(a))
  BY DEF Golden!WindowHit, WindowHit, Golden!InBounds, InBounds
<1>2. \A i, a : (Golden!Misaligned(i, a) <=> Misaligned(i, a))
  BY SameInstructions DEF Golden!Misaligned, Misaligned
<1>3. \A w : Golden!WordAligned(w) = WordAligned(w) /\ (Golden!Odd(w) <=> Odd(w))
  BY DEF Golden!WordAligned, WordAligned, Golden!Odd, Odd
<1>4. \A m, i, a : Golden!LoadValue(m, i, a) = LoadValue(m, i, a)
  BY SameInstructions, SameWords
  DEF Golden!LoadValue, LoadValue, Golden!LoadUnsigned, LoadUnsigned, Golden!SignExtend, SignExtend
<1>5. \A m, i, a, w : Golden!StoreValue(m, i, a, w) = StoreValue(m, i, a, w)
  <2>1. \A w, k : Golden!Lane(w, k) = Lane(w, k)
    BY DEF Golden!Lane, Lane
  <2>2. QED
    BY <2>1, SameInstructions DEF Golden!StoreValue, StoreValue
<1>6. Golden!NullCapability = NullCapability /\ Golden!PermBits = PermBits
  BY DEF Golden!NullCapability, NullCapability, Golden!PermBits, PermBits, Golden!PermRead,
         PermRead, Golden!PermWrite, PermWrite, Golden!PermExec, PermExec
<1>7. \A c : Golden!CapResetValue(c) = CapResetValue(c)
  BY <1>6 DEF Golden!CapResetValue, CapResetValue, Golden!RamRoot, RamRoot, Golden!MmioRoot,
     MmioRoot, Golden!PermRead, PermRead, Golden!PermWrite, PermWrite
<1>8. \A w : Golden!PermsOfWord(w) = PermsOfWord(w)
  BY <1>6 DEF Golden!PermsOfWord, PermsOfWord
<1>9. \A fn, cap : Golden!CapField(fn, cap) = CapField(fn, cap)
  BY SameWords
  DEF Golden!CapField, CapField, Golden!WordOfPerms, WordOfPerms, Golden!PermRead,
      PermRead, Golden!PermWrite, PermWrite, Golden!PermExec, PermExec
<1>10. QED
  BY <1>1, <1>2, <1>3, <1>4, <1>5, <1>6, <1>7, <1>8, <1>9

-----------------------------------------------------------------------------
(* What MEM holds.  MemMatches is the heart of the refinement: the valid   *)
(* instruction in MEM carries the result, the store data, the capability   *)
(* and the derivation that the interpreter computes from the registers as  *)
(* they are once every older instruction has written back, and the oldest  *)
(* instruction behind it is the one the interpreter goes to.               *)

\* Where the interpreter is when the core is about to fetch from a.
Normal(a) == IF a < 4 * Len(rom) THEN a ELSE 4 * Len(rom)

\* The oldest instruction not yet in EX, and the oldest one not yet in MEM.
fetchPc == IF ifId.valid THEN ifId.pc ELSE pc

youngerPc == IF idEx.valid THEN idEx.pc ELSE fetchPc

\* What is fetched behind EX is the next instruction in memory: a redirect in EX has not
\* happened yet.
NextFollows == idEx.valid => Normal(fetchPc) = Normal(Wrap(idEx.pc + 4))

\* The operands of the instruction in MEM once everything older has written back.
memRs1 == ReadReg(exMem.instr.rs1)
memRs2 == ReadReg(exMem.instr.rs2)
memCap == ReadCap(CapRs1(exMem.instr))

\* Result and successor of instruction i at a given address, for given operands.
DivideOf(fn, a, b) ==
    CASE fn = "DIV"  -> Quotient(TRUE, a, b)
      [] fn = "DIVU" -> Quotient(FALSE, a, b)
      [] fn = "REM"  -> Remainder(TRUE, a, b)
      [] OTHER       -> Remainder(FALSE, a, b)

ResultOf(i, at, a, b, cap) ==
    CASE IsCapMem(i) -> Wrap(Cursor(cap) + i.imm)
      [] IsCapOp(i)  -> CapField(i.fn, cap)
      [] IsMul(i)    -> Multiply(i.fn, a, b)
      [] IsDiv(i)    -> DivideOf(i.fn, a, b)
      [] OTHER       -> AluResult(i, at, a, b)

NextOf(i, at, a, b) ==
    IF RedirectTaken(i, a, b) THEN TargetAddress(i, at, a) ELSE Wrap(at + 4)

\* The instruction in MEM is the interpreter's next one, with the interpreter's values.
MemMatches ==
    exMem.valid =>
        /\ ~Illegal(exMem.instr) =>
              exMem.aluResult = ResultOf(exMem.instr, exMem.pc, memRs1, memRs2, memCap)
        /\ MemWrite(exMem.instr) => exMem.rs2Data = memRs2
        /\ UsesCapRs1(exMem.instr) => exMem.capSource = memCap
        /\ exMem.derivation = IF IsCapOp(exMem.instr)
                              THEN Derive(exMem.instr, memCap, memRs2) ELSE NoDerivation
        /\ Normal(youngerPc) = Normal(NextOf(exMem.instr, exMem.pc, memRs1, memRs2))

\* Where the fetch goes on.
LEMMA FetchGoesOn ==
    ASSUME TypeOK, Tick, Conforming, ~isFlush
    PROVE  /\ ~stallIF => Normal(fetchPc)' = Normal(pc)
           /\ stallIF  => ifId' = ifId /\ pc' = pc
<1>1. rom' = rom /\ pc \in Word /\ pc \in Int /\ 0 <= pc /\ Len(rom) \in Nat
  BY TypeParts, WordIsInt DEF Tick, Word
<1>2. stallIF  => ifId' = ifId /\ pc' = pc
  BY DEF Tick, IfIdTick, PcTick, flushIFID, stallID, isFlush
<1>3. ASSUME ~stallIF PROVE Normal(fetchPc)' = Normal(pc)
  <2>1. /\ ifId'.pc = pc /\ (ifId'.valid <=> ifValid)
        /\ pc' = Wrap(pc + 4)
    BY <1>3 DEF Tick, IfIdTick, PcTick, flushIFID, stallID, isFlush
  <2>2. Wrap(pc + 4) = pc + 4
    <3>1. pc + 4 \in Word
      BY <1>1, WordModulusType DEF Conforming, Word
    <3>2. QED
      BY <3>1, WrapWord
  <2>3. CASE ifValid
    BY <1>1, <2>1, <2>3 DEF fetchPc, Normal
  <2>4. CASE ~ifValid
    <3>1. fetchPc' = pc + 4
      BY <2>1, <2>2, <2>4 DEF fetchPc
    <3>2. ~(pc < 4 * Len(rom)) /\ ~(pc + 4 < 4 * Len(rom))
      BY <1>1, <2>4 DEF ifValid
    <3>3. QED
      BY <1>1, <3>1, <3>2 DEF Normal
  <2>5. QED
    BY <2>3, <2>4
<1>4. QED
  BY <1>2, <1>3

\* A clock edge keeps what is fetched behind EX its successor.
LEMMA NextFollowsStep ==
    ASSUME TypeOK, InProgramOrder, NextFollows, Conforming, Tick
    PROVE  NextFollows'
<1>0. rom' = rom
  BY DEF Tick
<1>1. CASE flushIDEX
  BY <1>1 DEF Tick, IdExTick, EmptyIdEx, NextFollows
<1>2. CASE ~flushIDEX /\ divHold
  <2>1. idEx' = idEx /\ ~isFlush /\ stallIF
    BY <1>2 DEF Tick, IdExTick, flushIDEX, stallIF
  <2>2. ifId' = ifId /\ pc' = pc
    BY <2>1, FetchGoesOn
  <2>3. QED
    BY <1>0, <2>1, <2>2 DEF NextFollows, fetchPc, Normal
<1>3. CASE ~flushIDEX /\ ~divHold
  <2>1. idEx'.pc = ifId.pc /\ (idEx'.valid <=> ifId.valid)
    BY <1>3 DEF Tick, IdExTick
  <2>2. ~isFlush /\ ~stallIF
    BY <1>3 DEF flushIDEX, stallIF
  <2>3. Normal(fetchPc)' = Normal(pc)
    BY <2>2, FetchGoesOn
  <2>4. ifId.valid => pc = Wrap(ifId.pc + 4)
    BY DEF InProgramOrder
  <2>5. QED
    BY <1>0, <2>1, <2>3, <2>4 DEF NextFollows, Normal
<1>4. QED
  BY <1>1, <1>2, <1>3

\* What is younger than MEM stays younger than WB: nothing valid is lost or repeated.
LEMMA YoungerStep ==
    ASSUME TypeOK, InProgramOrder, Conforming, Tick, ~flushEXMEM
    PROVE  archPc' = Normal(youngerPc)
<1>0. rom' = rom
  BY DEF Tick
<1>1. archPc' = Normal(IF exMem.valid THEN exMem.pc ELSE youngerPc)'
  BY DEF archPc, Normal, youngerPc, fetchPc
<1>2. CASE idEx.valid /\ ~divHold
  <2>1. exMem'.valid /\ exMem'.pc = idEx.pc
    BY <1>2 DEF Tick, ExMemTick
  <2>2. QED
    BY <1>0, <1>1, <1>2, <2>1 DEF Normal, youngerPc
<1>3. CASE divHold
  <2>1. idEx' = idEx /\ ~exMem'.valid /\ idEx.valid
    BY <1>3, HeldDivisionStays DEF Conforming, divHold
  <2>2. QED
    BY <1>0, <1>1, <2>1 DEF Normal, youngerPc
<1>4. CASE ~idEx.valid
  <2>1. ~exMem'.valid /\ ~divHold /\ ~branchTaken /\ ~isFlush
    BY <1>4 DEF Tick, ExMemTick, divHold, branchTaken, isFlush, flushEXMEM
  <2>2. CASE stallIF
    <3>1. capHazard \/ loadUseHazard
      BY <2>1, <2>2 DEF stallIF
    <3>2. ~idEx'.valid
      BY <3>1 DEF Tick, IdExTick, flushIDEX, EmptyIdEx
    <3>3. ifId' = ifId /\ pc' = pc
      BY <2>1, <2>2, FetchGoesOn
    <3>4. QED
      BY <1>0, <1>1, <1>4, <2>1, <3>2, <3>3 DEF Normal, youngerPc, fetchPc
  <2>3. CASE ~stallIF
    <3>1. ~flushIDEX
      BY <2>1, <2>3 DEF stallIF, flushIDEX
    <3>2. idEx'.pc = ifId.pc /\ (idEx'.valid <=> ifId.valid)
      BY <2>1, <3>1 DEF Tick, IdExTick
    <3>3. Normal(fetchPc)' = Normal(pc)
      BY <2>1, <2>3, FetchGoesOn
    <3>4. CASE ifId.valid
      BY <1>0, <1>1, <1>4, <2>1, <3>2, <3>4 DEF Normal, youngerPc, fetchPc
    <3>5. CASE ~ifId.valid
      BY <1>0, <1>1, <1>4, <2>1, <3>2, <3>3, <3>5 DEF Normal, youngerPc, fetchPc
    <3>6. QED
      BY <3>4, <3>5
  <2>4. QED
    BY <2>2, <2>3
<1>5. QED
  BY <1>2, <1>3, <1>4 DEF divHold

-----------------------------------------------------------------------------
(* The instruction that leaves EX brings what MemMatches says.             *)

\* The result and the successor of an instruction depend on the operands it uses only.
LEMMA ResultDepends ==
    ASSUME NEW i, NEW at, NEW a, NEW b, NEW cap, NEW a2, NEW b2, NEW cap2,
           UsesIntRs1(i) => a2 = a, UsesIntRs2(i) => b2 = b, UsesCapRs1(i) => cap2 = cap,
           ~Illegal(i), i.class \in Class
    PROVE  /\ ResultOf(i, at, a2, b2, cap2) = ResultOf(i, at, a, b, cap)
           /\ NextOf(i, at, a2, b2) = NextOf(i, at, a, b)
<1>1. i.class \in {"R", "I", "LOAD", "STORE", "BRANCH", "JAL", "JALR", "LUI", "AUIPC", "CAP",
                   "CAPLOAD", "CAPSTORE"}
  BY DEF Class, LegalFns, Illegal
<1>2. NextOf(i, at, a2, b2) = NextOf(i, at, a, b)
  <2>1. CASE i.class \in {"BRANCH", "JALR"}
    <3>1. a2 = a
      BY <2>1 DEF UsesIntRs1
    <3>2. i.class = "BRANCH" => b2 = b
      BY DEF UsesIntRs2
    <3>3. QED
      BY <2>1, <3>1, <3>2 DEF NextOf, RedirectTaken, TargetAddress, IsJump, IsBranch
  <2>2. CASE i.class \notin {"BRANCH", "JALR"}
    BY <2>2 DEF NextOf, RedirectTaken, TargetAddress, IsJump, IsBranch
  <2>3. QED
    BY <2>1, <2>2
<1> SUFFICES ResultOf(i, at, a2, b2, cap2) = ResultOf(i, at, a, b, cap)
  BY <1>2
<1>3. CASE i.class \in {"CAPLOAD", "CAPSTORE"}
  <2>1. IsCapMem(i) /\ ~IsCapOp(i) /\ ~IsMul(i) /\ ~IsDiv(i) /\ cap2 = cap
    BY <1>3 DEF IsCapMem, IsCapOp, IsMul, IsDiv, UsesCapRs1
  <2>2. QED
    BY <2>1 DEF ResultOf
<1>4. CASE i.class = "CAP" /\ i.fn # "CCLEAR"
  <2>1. IsCapOp(i) /\ ~IsCapMem(i) /\ ~IsMul(i) /\ ~IsDiv(i) /\ cap2 = cap
    BY <1>4 DEF IsCapOp, IsCapMem, IsMul, IsDiv, UsesCapRs1
  <2>2. QED
    BY <2>1 DEF ResultOf
<1>5. CASE i.class = "CAP" /\ i.fn = "CCLEAR"
  <2>1. /\ IsCapOp(i) /\ ~IsCapMem(i) /\ ~IsMul(i) /\ ~IsDiv(i)
        /\ CapField(i.fn, cap2) = CapField(i.fn, cap)
    BY <1>5 DEF IsCapOp, IsCapMem, IsMul, IsDiv, CapField
  <2>2. QED
    BY <2>1 DEF ResultOf
<1>6. CASE i.class \in {"R", "BRANCH"}
  <2>1. a2 = a /\ b2 = b
    BY <1>6 DEF UsesIntRs1, UsesIntRs2
  <2>2. QED
    BY <1>6, <2>1 DEF ResultOf, IsCapMem, IsCapOp
<1>7. CASE i.class \in {"I", "LOAD", "JALR", "STORE"}
  <2>1. a2 = a
    BY <1>7 DEF UsesIntRs1
  <2>2. AluOperandB(i, b2) = AluOperandB(i, b)
    BY <1>7 DEF AluOperandB
  <2>3. QED
    BY <1>7, <2>1, <2>2 DEF ResultOf, IsCapMem, IsCapOp, IsMul, IsDiv, AluResult
<1>8. CASE i.class \in {"JAL", "LUI", "AUIPC"}
  BY <1>8 DEF ResultOf, IsCapMem, IsCapOp, IsMul, IsDiv, AluResult, AluOperandA, AluOperandB
<1>9. QED
  BY <1>1, <1>2, <1>3, <1>4, <1>5, <1>6, <1>7, <1>8

\* So do derivations.
LEMMA DeriveDepends ==
    ASSUME NEW i, NEW b, NEW cap, NEW b2, NEW cap2, IsCapOp(i),
           UsesIntRs2(i) => b2 = b, UsesCapRs1(i) => cap2 = cap
    PROVE  Derive(i, cap2, b2) = Derive(i, cap, b)
<1>1. CASE i.fn \in CapDeriveFns
  BY <1>1 DEF UsesIntRs2, UsesCapRs1, IsCapOp, CapDeriveFns
<1>2. CASE i.fn \notin CapDeriveFns
  BY <1>2 DEF Derive, CapDeriveFns
<1>3. QED
  BY <1>1, <1>2

\* The operands that leave EX are those of program order.
LEMMA OperandsLeave ==
    ASSUME TypeInv, OperandInv, Tick, ~flushEXMEM, idEx.valid,
           ~(isDivOp /\ DividerBusy), NEW r \in Reg
    PROVE  /\ UsesIntRs1(idEx.instr) /\ idEx.instr.rs1 = r => forwardedRs1 = ReadReg(r)'
           /\ UsesIntRs2(idEx.instr) /\ idEx.instr.rs2 = r => forwardedRs2 = ReadReg(r)'
<1>0. TypeOK
  BY DEF TypeInv
<1>1. ASSUME UsesIntRs1(idEx.instr), idEx.instr.rs1 = r
      PROVE  forwardedRs1 = ReadReg(r)'
  <2>1. Reads(r) /\ idEx.rs1Data = regs[r]
    BY <1>1 DEF Reads, OperandInv, OperandsLatched
  <2>2. QED
    BY <1>0, <1>1, <2>1, ForwardCurrent DEF forwardedRs1
<1>2. ASSUME UsesIntRs2(idEx.instr), idEx.instr.rs2 = r
      PROVE  forwardedRs2 = ReadReg(r)'
  <2>1. Reads(r) /\ idEx.rs2Data = regs[r]
    BY <1>2 DEF Reads, OperandInv, OperandsLatched
  <2>2. QED
    BY <1>0, <1>2, <2>1, ForwardCurrent DEF forwardedRs2
<1>3. QED
  BY <1>1, <1>2

\* What the division in EX answers.
LEMMA DivisionAnswers ==
    ASSUME TypeOK, DividerServesEx, idEx.valid, isDivOp, DividerDone
    PROVE  exResult = DivideOf(idEx.instr.fn, ReadReg(idEx.instr.rs1), ReadReg(idEx.instr.rs2))
  BY ServedAnswers DEF DividerAnswersEx, DivideOf

\* What leaves EX is what program order computes from the registers as they will be.
LEMMA ResultLeaves ==
    ASSUME TypeInv, OperandInv, CapLatched, DividerServesEx, Tick, ~flushEXMEM,
           idEx.valid, ~divHold, ~Illegal(idEx.instr),
           NEW r1 \in Reg, r1 = idEx.instr.rs1, NEW r2 \in Reg, r2 = idEx.instr.rs2,
           NEW c \in Cap, c = CapRs1(idEx.instr)
    PROVE  /\ exResult = ResultOf(idEx.instr, idEx.pc, ReadReg(r1)', ReadReg(r2)', ReadCap(c)')
           /\ (IF branchTaken THEN redirectTarget ELSE Wrap(idEx.pc + 4)) =
                  NextOf(idEx.instr, idEx.pc, ReadReg(r1)', ReadReg(r2)')
<1>0. TypeOK /\ idEx.instr.class \in Class
  BY TypeParts DEF TypeInv, IdExSet, Instruction
<1>1. CASE isDivOp
  <2>1. DividerDone /\ ~exMem.valid
    BY <1>1 DEF divHold, flushEXMEM, DividerServesEx, DividerBusy, DividerDone
  <2>2. ReadReg(r1)' = ReadReg(r1) /\ ReadReg(r2)' = ReadReg(r2)
    BY <1>0, <2>1, ReadRegStable
  <2>3. exResult = DivideOf(idEx.instr.fn, ReadReg(r1), ReadReg(r2))
    BY <1>0, <1>1, <2>1, DivisionAnswers
  <2>4. IsDiv(idEx.instr) /\ ~IsCapMem(idEx.instr) /\ ~IsCapOp(idEx.instr)
        /\ ~IsMul(idEx.instr) /\ ~RedirectTaken(idEx.instr, forwardedRs1, forwardedRs2)
        /\ ~RedirectTaken(idEx.instr, ReadReg(r1), ReadReg(r2))
    BY <1>1 DEF isDivOp, IsDiv, IsCapMem, IsCapOp, IsMul, RedirectTaken, IsJump, IsBranch,
                MulFns, DivFns
  <2>5. QED
    BY <2>2, <2>3, <2>4 DEF ResultOf, NextOf, branchTaken
<1>2. CASE ~isDivOp
  <2>1. exResult = ResultOf(idEx.instr, idEx.pc, forwardedRs1, forwardedRs2, idEx.capRs1Data)
    BY <1>2 DEF exResult, ResultOf, isDivOp
  <2>2. (IF branchTaken THEN redirectTarget ELSE Wrap(idEx.pc + 4)) =
            NextOf(idEx.instr, idEx.pc, forwardedRs1, forwardedRs2)
    BY DEF branchTaken, redirectTarget, NextOf
  <2>3. UsesIntRs1(idEx.instr) => forwardedRs1 = ReadReg(r1)'
    BY <1>2, OperandsLeave
  <2>4. UsesIntRs2(idEx.instr) => forwardedRs2 = ReadReg(r2)'
    BY <1>2, OperandsLeave
  <2>5. UsesCapRs1(idEx.instr) => idEx.capRs1Data = ReadCap(c)'
    BY <1>0, ReadCapStable DEF CapLatched
  <2>6. PICK a, b, cap : a = ReadReg(r1)' /\ b = ReadReg(r2)' /\ cap = ReadCap(c)'
    OBVIOUS
  <2>7. /\ ResultOf(idEx.instr, idEx.pc, forwardedRs1, forwardedRs2, idEx.capRs1Data) =
               ResultOf(idEx.instr, idEx.pc, a, b, cap)
        /\ NextOf(idEx.instr, idEx.pc, forwardedRs1, forwardedRs2) =
               NextOf(idEx.instr, idEx.pc, a, b)
    BY <1>0, <2>3, <2>4, <2>5, <2>6, ResultDepends
  <2>8. QED
    BY <2>1, <2>2, <2>6, <2>7
<1>3. QED
  BY <1>1, <1>2

\* Behind the instruction that leaves EX comes its successor.
LEMMA YoungerOfEx ==
    ASSUME TypeOK, InProgramOrder, NextFollows, Conforming, Tick, ~flushEXMEM,
           idEx.valid, ~divHold
    PROVE  Normal(youngerPc)' =
               Normal(IF branchTaken THEN redirectTarget ELSE Wrap(idEx.pc + 4))
<1>0. rom' = rom
  BY DEF Tick
<1>1. CASE branchTaken
  <2>1. ~idEx'.valid /\ ~ifId'.valid /\ pc' = redirectTarget
    BY <1>1 DEF Tick, IdExTick, IfIdTick, PcTick, flushIDEX, flushIFID, isFlush, flushEXMEM,
                EmptyIdEx, EmptyIfId
  <2>2. QED
    BY <1>0, <1>1, <2>1 DEF Normal, youngerPc, fetchPc
<1>2. CASE ~branchTaken
  <2>1. ~isFlush
    BY <1>2 DEF isFlush, flushEXMEM
  <2>2. Normal(fetchPc) = Normal(Wrap(idEx.pc + 4))
    BY DEF NextFollows
  <2>3. CASE stallIF
    <3>1. ~idEx'.valid
      BY <2>1, <2>3 DEF Tick, IdExTick, flushIDEX, EmptyIdEx, stallIF
    <3>2. ifId' = ifId /\ pc' = pc
      BY <2>1, <2>3, FetchGoesOn
    <3>3. QED
      BY <1>0, <1>2, <2>2, <3>1, <3>2 DEF Normal, youngerPc, fetchPc
  <2>4. CASE ~stallIF
    <3>1. idEx'.pc = ifId.pc /\ (idEx'.valid <=> ifId.valid)
      BY <2>1, <2>4 DEF Tick, IdExTick, flushIDEX, stallIF
    <3>2. Normal(fetchPc)' = Normal(pc)
      BY <2>1, <2>4, FetchGoesOn
    <3>3. CASE ifId.valid
      BY <1>0, <1>2, <2>2, <3>1, <3>3 DEF Normal, youngerPc, fetchPc
    <3>4. CASE ~ifId.valid
      BY <1>0, <1>2, <2>2, <3>1, <3>2, <3>4 DEF Normal, youngerPc, fetchPc
    <3>5. QED
      BY <3>3, <3>4
  <2>5. QED
    BY <2>3, <2>4
<1>3. QED
  BY <1>1, <1>2

\* A clock edge brings MEM an instruction that matches.
LEMMA MemMatchesStep ==
    ASSUME TypeInv, OperandInv, CapLatched, DividerServesEx, InProgramOrder, NextFollows,
           Conforming, Tick
    PROVE  MemMatches'
<1>0. TypeOK /\ idEx.instr \in Instruction
  BY TypeParts DEF TypeInv, IdExSet
<1> SUFFICES ASSUME exMem'.valid PROVE MemMatches'
  BY DEF MemMatches
<1>1. idEx.valid /\ ~flushEXMEM /\ ~divHold
  BY DEF Tick, ExMemTick, EmptyExMem
<1>2. /\ exMem'.instr = idEx.instr /\ exMem'.pc = idEx.pc /\ exMem'.aluResult = exResult
      /\ exMem'.rs2Data = forwardedRs2 /\ exMem'.capSource = idEx.capRs1Data
      /\ exMem'.derivation = exDerivation
  BY <1>1 DEF Tick, ExMemTick
<1>3. PICK r1 \in Reg, r2 \in Reg, c \in Cap :
          r1 = idEx.instr.rs1 /\ r2 = idEx.instr.rs2 /\ c = CapRs1(idEx.instr)
  BY <1>0, CapFieldIndex DEF Instruction
<1>4. PICK a, b, cap : a = ReadReg(r1)' /\ b = ReadReg(r2)' /\ cap = ReadCap(c)'
  OBVIOUS
<1>5. memRs1' = a /\ memRs2' = b /\ memCap' = cap
  BY <1>2, <1>3, <1>4 DEF memRs1, memRs2, memCap, ReadReg, ReadCap, CapRs1
<1>6. UsesCapRs1(idEx.instr) => idEx.capRs1Data = cap
  BY <1>0, <1>1, <1>3, <1>4, ReadCapStable DEF CapLatched
<1>7. UsesIntRs2(idEx.instr) /\ ~isDivOp => forwardedRs2 = b
  BY <1>1, <1>3, <1>4, OperandsLeave
<1>8. ~Illegal(idEx.instr) =>
          /\ exResult = ResultOf(idEx.instr, idEx.pc, a, b, cap)
          /\ (IF branchTaken THEN redirectTarget ELSE Wrap(idEx.pc + 4)) =
                 NextOf(idEx.instr, idEx.pc, a, b)
  BY <1>1, <1>3, <1>4, ResultLeaves
<1>9. Illegal(idEx.instr) =>
          (IF branchTaken THEN redirectTarget ELSE Wrap(idEx.pc + 4)) =
              NextOf(idEx.instr, idEx.pc, a, b)
  BY DEF branchTaken, NextOf, RedirectTaken, IsJump, IsBranch
<1>10. MemWrite(idEx.instr) => forwardedRs2 = b
  BY <1>7 DEF MemWrite, UsesIntRs2, isDivOp, IsDiv
<1>11. exDerivation = IF IsCapOp(idEx.instr) THEN Derive(idEx.instr, cap, b) ELSE NoDerivation
  <2>1. IsCapOp(idEx.instr) => ~isDivOp
    BY DEF IsCapOp, isDivOp, IsDiv
  <2>2. IsCapOp(idEx.instr) =>
            Derive(idEx.instr, idEx.capRs1Data, forwardedRs2) = Derive(idEx.instr, cap, b)
    BY <1>6, <1>7, <2>1, DeriveDepends
  <2>3. QED
    BY <1>1, <2>2 DEF exDerivation
<1>12. Normal(youngerPc)' = Normal(NextOf(idEx.instr, idEx.pc, a, b))
  BY <1>0, <1>1, <1>8, <1>9, YoungerOfEx
<1>13. rom' = rom
  BY DEF Tick
<1>14. Normal(NextOf(exMem.instr, exMem.pc, memRs1, memRs2))' =
           Normal(NextOf(idEx.instr, idEx.pc, a, b))
  BY <1>2, <1>5, <1>13 DEF Normal, NextOf
<1>15. ~Illegal(exMem'.instr) =>
           exMem'.aluResult = ResultOf(exMem'.instr, exMem'.pc, memRs1', memRs2', memCap')
  BY <1>2, <1>5, <1>8
<1>16. /\ MemWrite(exMem'.instr) => exMem'.rs2Data = memRs2'
       /\ UsesCapRs1(exMem'.instr) => exMem'.capSource = memCap'
       /\ exMem'.derivation = IF IsCapOp(exMem'.instr)
                              THEN Derive(exMem'.instr, memCap', memRs2') ELSE NoDerivation
  BY <1>2, <1>5, <1>6, <1>10, <1>11
<1>17. QED
  BY <1>12, <1>14, <1>15, <1>16 DEF MemMatches

\* The registers the interpreter keeps aligned are.
Aligned == trap.vector % 4 = 0 /\ trap.epc % 4 = 0

\* What the refinement needs besides the invariants of the core.
RefineInv == NextFollows /\ MemMatches /\ Aligned

\* Only an instruction that was fetched at half a word and traps could spoil the alignment.
LEMMA AlignedStep == ASSUME TypeOK, Aligned, Conforming, Tick PROVE Aligned'
<1>1. trap.vector \in Word /\ trap.epc \in Word /\ memRequest.data \in Word
  BY TypeParts DEF SystemMmioTypeOK, ExMemSet, memRequest
<1>2. \A w \in Word : WordAligned(w) % 4 = 0
  <2> TAKE w \in Word
  <2>1. w \in Nat
    BY WordIsInt
  <2>2. QED
    BY <2>1 DEF WordAligned
<1>3. takePreciseTrap => securityEvent.pc % 4 = 0
  BY DEF Conforming, securityEvent, takePreciseTrap, PreciseTrap, isCapMemViolation,
         isDerivationViolation
<1>4. \/ trap'.epc \in {WordAligned(memRequest.data), trap.epc}
      \/ PreciseTrap(securityEvent) /\ trap'.epc = securityEvent.pc
  <2>1. trap'.epc = NextEpc(memRequest, securityEvent)
    BY DEF Tick, SystemMmioTick, TrapTick
  <2>2. CASE Stores(memRequest, "TRAP_EPC") /\ trap.active
    BY <2>1, <2>2 DEF NextEpc
  <2>3. CASE ~(Stores(memRequest, "TRAP_EPC") /\ trap.active) /\ PreciseTrap(securityEvent)
    BY <2>1, <2>3 DEF NextEpc
  <2>4. CASE ~(Stores(memRequest, "TRAP_EPC") /\ trap.active) /\ ~PreciseTrap(securityEvent)
    BY <2>1, <2>4 DEF NextEpc
  <2>5. QED
    BY <2>2, <2>3, <2>4
<1>5. trap'.vector \in {WordAligned(memRequest.data), trap.vector}
  BY DEF Tick, SystemMmioTick, TrapTick
<1>6. QED
  BY <1>1, <1>2, <1>3, <1>4, <1>5 DEF Aligned, takePreciseTrap

\* RefineInv is inductive with the types, the operand and capability latches, the divider
\* invariant and program order of PipelinedCore_proofs.
LEMMA RefineInvariance == Spec /\ []Conforming => []RefineInv
<1>1. Init => RefineInv
  BY RegisterMapAssumption
  DEF Init, SystemMmioInit, EmptyIdEx, EmptyExMem, RefineInv, NextFollows, MemMatches, Aligned
<1>2. ASSUME RefineInv, UNCHANGED vars PROVE RefineInv'
  BY <1>2 DEF vars, coreVars, mmioVars, RefineInv, NextFollows, MemMatches, Aligned, Normal,
              fetchPc, youngerPc, memRs1, memRs2, memCap, ReadReg, ReadCap, wbRegWrite, wbData,
              capWen
<1>3. TypeInv /\ OperandInv /\ CapLatched /\ DividerServesEx /\ InProgramOrder /\ Conforming
      /\ RefineInv /\ Tick => RefineInv'
  BY MemMatchesStep, NextFollowsStep, AlignedStep DEF RefineInv, TypeInv
<1>4. TypeInv /\ OperandInv /\ CapLatched /\ DividerServesEx /\ InProgramOrder /\ Conforming
      /\ RefineInv /\ [Next]_vars => RefineInv'
  BY <1>2, <1>3 DEF Next, Clock, Stopped
<1>5. Conforming => ~LosesDivision
  BY DEF Conforming, LosesDivision
<1>6. QED
  BY <1>1, <1>4, <1>5, TypeInvariance, OperandInvariance, CapLatchedInvariance, DividerServed,
     ProgramOrder, PTL DEF Spec

\* Without a violation and without a store to a register the system block does nothing the
\* program could see.
LEMMA QuietMmio ==
    ASSUME TypeOK, Tick, ~securityEvent.valid, \A name : ~Stores(memRequest, name)
    PROVE  /\ ~takePreciseTrap /\ ~takeTrapReturn
           /\ UNCHANGED <<software, securityLog, trap>>
<1>0. SystemMmioTypeOK
  BY TypeParts
<1>1. ~PreciseTrap(securityEvent) /\ ~NestedFault(securityEvent)
  BY DEF PreciseTrap, NestedFault
<1>2. ~TrapReturn(memRequest)
  BY DEF TrapReturn
<1>3. software' = software
  BY <1>0 DEF Tick, SystemMmioTick, SoftwareTick, SystemMmioTypeOK
<1>4. securityLog' = securityLog
  <2>1. securityLog' = [securityLog EXCEPT !.pending =
                             securityLog.pending /\ ~ClearsLog(memRequest)]
    BY DEF Tick, SystemMmioTick, SecurityLogTick
  <2>2. ~ClearsLog(memRequest)
    BY DEF ClearsLog
  <2>3. QED
    BY <1>0, <2>1, <2>2 DEF SystemMmioTypeOK
<1>5. trap' = trap
  <2>1. NextEpc(memRequest, securityEvent) = trap.epc
    BY <1>1 DEF NextEpc
  <2>2. NextDoubleFault(memRequest, securityEvent) = trap.doubleFault
    BY <1>0, <1>1 DEF NextDoubleFault, ClearsDoubleFault, SystemMmioTypeOK
  <2>3. trap' = [enable |-> trap.enable, active |-> trap.active,
                 doubleFault |-> trap.doubleFault, vector |-> trap.vector, epc |-> trap.epc,
                 accessType |-> trap.accessType, reason |-> trap.reason,
                 address |-> trap.address, context |-> trap.context]
    <3>1. (PreciseTrap(securityEvent) \/ (trap.active /\ ~TrapReturn(memRequest))) = trap.active
      BY <1>0, <1>1, <1>2 DEF SystemMmioTypeOK
    <3>2. QED
      BY <1>1, <2>1, <2>2, <3>1 DEF Tick, SystemMmioTick, TrapTick
  <2>4. QED
    BY <1>0, <2>3 DEF SystemMmioTypeOK
<1>6. QED
  BY <1>1, <1>2, <1>3, <1>4, <1>5 DEF takePreciseTrap, takeTrapReturn

\* Without a store at all, memory keeps still as well.
LEMMA QuietSystem ==
    ASSUME TypeOK, Tick, ~memRequest.write, ~securityEvent.valid
    PROVE  /\ ~takePreciseTrap /\ ~takeTrapReturn
           /\ UNCHANGED <<dmem, software, securityLog, trap>>
<1>1. dmem' = dmem
  BY DEF Tick, DataMemoryTick
<1>2. QED
  BY <1>1, QuietMmio DEF Stores

-----------------------------------------------------------------------------
(* What a tick does to the interpreter's state.                            *)

\* Every address past the program is the one halted state.
LEMMA SameNormal == \A a : Golden!Normalize(a) = Normal(a)
  BY DEF Golden!Normalize, Normal

\* The interpreter is at the instruction in MEM.
LEMMA MemView ==
    ASSUME TypeOK, InProgramOrder, Conforming, exMem.valid
    PROVE  /\ archPc = exMem.pc /\ Golden!Running /\ Golden!CurrentInstr = exMem.instr
           /\ archRegs[exMem.instr.rs1] = memRs1 /\ archRegs[exMem.instr.rs2] = memRs2
           /\ archCaps[CapRs1(exMem.instr)] = memCap
<1>1. /\ exMem.pc \in Int /\ Len(rom) \in Int /\ exMem.instr \in Instruction
      /\ exMem.instr.rs1 \in Reg /\ exMem.instr.rs2 \in Reg /\ CapRs1(exMem.instr) \in Cap
  BY TypeParts, WordIsInt, CapFieldIndex DEF ExMemSet, Instruction
<1>2. exMem.pc \div 4 < Len(rom) /\ exMem.instr = rom[(exMem.pc \div 4) + 1]
  BY DEF InProgramOrder, FetchedAt
<1>3. exMem.pc < 4 * Len(rom)
  BY <1>1, <1>2
<1>4. archPc = exMem.pc
  BY <1>3 DEF archPc
<1>5. Golden!CurrentInstr = exMem.instr
  BY <1>2, <1>4 DEF Conforming, Golden!CurrentInstr, Golden!WordAt
<1>6. QED
  BY <1>1, <1>3, <1>4, <1>5 DEF Golden!Running, archRegs, archCaps, memRs1, memRs2, memCap

\* Where the interpreter goes, unless a trap is taken or returned from.
LEMMA GoesOn ==
    ASSUME TypeOK, InProgramOrder, Conforming, MemMatches, Tick, exMem.valid, ~flushEXMEM
    PROVE  Golden!GoTo(NextOf(exMem.instr, exMem.pc, memRs1, memRs2))
  BY YoungerStep, SameNormal DEF MemMatches, Golden!GoTo

\* An instruction that does not redirect goes on to the next one.
LEMMA Advances ==
    ASSUME TypeOK, InProgramOrder, Conforming, MemMatches, Tick, exMem.valid, ~flushEXMEM,
           ~RedirectTaken(exMem.instr, memRs1, memRs2)
    PROVE  Golden!Advance
<1>1. Golden!GoTo(Wrap(exMem.pc + 4))
  BY GoesOn DEF NextOf
<1>2. QED
  BY <1>1, MemView, SameWords DEF Golden!Advance

\* The instruction in MEM will write an integer register.
WritesBack ==
    /\ exMem.valid /\ ~takePreciseTrap /\ RegWrite(exMem.instr)
    /\ MemRead(exMem.instr) => loadAccepted

\* A register write in MEM/WB counts as done.
LEMMA RegsWritten ==
    ASSUME TypeOK, Tick, WritesBack
    PROVE  Golden!WriteReg(exMem.instr.rd, wbData')
<1>1. memWb'.instr = exMem.instr /\ (wbRegWrite' <=> exMem.instr.rd # 0)
  BY DEF Tick, MemWbTick, wbRegWrite, WritesBack
<1>2. archRegs' = [r \in Reg |-> ReadReg(r)']
  BY DEF archRegs
<1>3. PICK rd \in Reg : rd = exMem.instr.rd
  BY TypeParts DEF ExMemSet, Instruction
<1>4. \A r \in Reg : ReadReg(r)' = IF rd # 0 /\ rd = r THEN wbData' ELSE ReadReg(r)
  BY <1>1, <1>3, RegsTickBypass DEF ReadReg
<1>5. QED
  BY <1>2, <1>3, <1>4 DEF Golden!WriteReg, archRegs

\* Any other tick moves the write of WB into the register file and changes nothing.
LEMMA RegsKept ==
    ASSUME TypeOK, Tick, ~WritesBack
    PROVE  archRegs' = archRegs
<1>1. ~wbRegWrite'
  BY DEF Tick, MemWbTick, wbRegWrite, WritesBack
<1>2. \A r \in Reg : ReadReg(r)' = ReadReg(r)
  BY <1>1, RegsTickBypass DEF ReadReg
<1>3. QED
  BY <1>2 DEF archRegs

\* The instruction in MEM will write a capability register.
DerivesNow ==
    exMem.valid /\ ~takePreciseTrap /\ exMem.derivation.write /\ capAccessAllow

\* So does the write of a derived capability.
LEMMA CapsWritten ==
    ASSUME TypeOK, Tick, DerivesNow
    PROVE  Golden!WriteCap(CapRd(exMem.instr), exMem.derivation.cap)
<1>1. /\ memWb'.instr = exMem.instr /\ memWb'.capWriteData = exMem.derivation.cap
      /\ capWen' <=> CapRd(exMem.instr) >= 3
  BY DEF Tick, MemWbTick, capWen, DerivesNow, Writable
<1>2. PICK cd \in Cap : cd = CapRd(exMem.instr)
  BY TypeParts, CapFieldIndex DEF ExMemSet
<1>3. \A c \in Cap : caps'[c] = ReadCap(c)
  BY TypeParts DEF Tick, CapsTick, ReadCap
<1>4. \A c \in Cap : ReadCap(c)' = IF cd >= 3 /\ cd = c THEN exMem.derivation.cap ELSE ReadCap(c)
  BY <1>1, <1>2, <1>3 DEF ReadCap, CapRd
<1>5. QED
  BY <1>2, <1>4 DEF Golden!WriteCap, archCaps

\* Any other tick leaves the capabilities alone.
LEMMA CapsKept ==
    ASSUME TypeOK, Tick, ~DerivesNow
    PROVE  archCaps' = archCaps
<1>1. ~capWen'
  BY DEF Tick, MemWbTick, capWen, DerivesNow
<1>2. \A c \in Cap : caps'[c] = ReadCap(c)
  BY TypeParts DEF Tick, CapsTick, ReadCap
<1>3. \A c \in Cap : ReadCap(c)' = ReadCap(c)
  BY <1>1, <1>2 DEF ReadCap
<1>4. QED
  BY <1>3 DEF archCaps

-----------------------------------------------------------------------------
(* One lemma for each action of the interpreter: the tick that finds its   *)
(* instruction in MEM is a step of that action.                            *)

\* A tick with an instruction in MEM, from the states the core reaches.
MemTick ==
    /\ TypeOK /\ RefineInv /\ CapConfined /\ InProgramOrder /\ Conforming
    /\ Tick /\ exMem.valid

\* The major opcodes that have legal instructions.
LEMMA LegalClass ==
    ASSUME NEW i \in Instruction, ~Illegal(i)
    PROVE  i.class \in {"R", "I", "LOAD", "STORE", "BRANCH", "JAL", "JALR", "LUI", "AUIPC",
                        "CAP", "CAPLOAD", "CAPSTORE"}
  BY DEF Instruction, Class, LegalFns, Illegal

\* The types of what is in MEM.
LEMMA MemInstruction ==
    ASSUME TypeOK PROVE exMem.instr \in Instruction /\ exMem.pc \in Word /\ exMem.aluResult \in Word
  BY TypeParts DEF ExMemSet

\* An instruction that is no capability instruction raises no event and derives nothing.
LEMMA PlainInstruction ==
    ASSUME MemTick, ~IsCapOp(exMem.instr), ~IsCapMem(exMem.instr)
    PROVE  ~securityEvent.valid /\ ~DerivesNow /\ capAccessAllow /\ ~takePreciseTrap
<1>1. exMem.derivation = NoDerivation
  BY DEF MemTick, RefineInv, MemMatches
<1>2. ~exMem.derivation.violation.valid /\ ~exMem.derivation.write
  BY <1>1 DEF NoDerivation, Derivation, NoViolation
<1>3. ~isDerivationViolation /\ ~isCapMemViolation
  BY <1>2 DEF isDerivationViolation, isCapMemViolation
<1>4. QED
  BY <1>2, <1>3 DEF securityEvent, DerivesNow, capAccessAllow, takePreciseTrap, PreciseTrap

\* Neither a store nor an event: only the registers and the program counter change.
LEMMA OnlyRegisters ==
    ASSUME MemTick, ~securityEvent.valid, ~memRequest.write
    PROVE  /\ ~flushEXMEM
           /\ Golden!GoTo(NextOf(exMem.instr, exMem.pc, memRs1, memRs2))
           /\ ~RedirectTaken(exMem.instr, memRs1, memRs2) => Golden!Advance
           /\ UNCHANGED <<dmem, software, securityLog, trap>>
<1>1. /\ ~flushEXMEM
      /\ UNCHANGED <<dmem, software, securityLog, trap>>
  BY QuietSystem DEF MemTick, flushEXMEM
<1>2. QED
  BY <1>1, GoesOn, Advances DEF MemTick, RefineInv

\* What the instruction in MEM will write back.
LEMMA WbDataNext ==
    ASSUME Tick
    PROVE  /\ exMem.instr.class \in {"LOAD", "CAPLOAD"} => wbData' = memReadData
           /\ exMem.instr.class \in {"JAL", "JALR"} => wbData' = Wrap(exMem.pc + 4)
           /\ exMem.instr.class = "LUI" => wbData' = exMem.instr.imm
           /\ exMem.instr.class \notin {"LOAD", "CAPLOAD", "JAL", "JALR", "LUI"} =>
                 wbData' = exMem.aluResult
<1>1. /\ memWb'.instr = exMem.instr /\ memWb'.pc = exMem.pc
      /\ memWb'.memReadData = memReadData /\ memWb'.aluResult = exMem.aluResult
  BY DEF Tick, MemWbTick
<1>2. QED
  BY <1>1 DEF wbData

\* A rejected encoding has no effect.
LEMMA StepsIllegal ==
    ASSUME MemTick, Illegal(exMem.instr)
    PROVE  Golden!StepIllegal(exMem.instr)
<1>1. ~IsCapOp(exMem.instr) /\ ~IsCapMem(exMem.instr) /\ ~MemWrite(exMem.instr)
      /\ ~RegWrite(exMem.instr) /\ ~RedirectTaken(exMem.instr, memRs1, memRs2)
  BY DEF IsCapOp, IsCapMem, MemWrite, RegWrite, RedirectTaken, IsJump, IsBranch
<1>2. ~securityEvent.valid /\ ~DerivesNow /\ ~memRequest.write /\ ~WritesBack
  BY <1>1, PlainInstruction DEF memRequest, WritesBack
<1>3. archRegs' = archRegs /\ archCaps' = archCaps
  BY <1>2, RegsKept, CapsKept DEF MemTick
<1>4. QED
  BY <1>1, <1>2, <1>3, OnlyRegisters, SameInstructions DEF Golden!StepIllegal, Golden!NoEffect

\* The value a computing instruction writes back is the interpreter's.
LEMMA ComputesResult ==
    ASSUME MemTick, ~Illegal(exMem.instr), exMem.instr.class \in {"R", "I", "LUI", "AUIPC"}
    PROVE  wbData' = Golden!RegisterResult(exMem.instr)
<1> PICK i \in Instruction : i = exMem.instr
  BY MemInstruction DEF MemTick
<1> PICK a, b : a = memRs1 /\ b = memRs2
  OBVIOUS
<1>1. /\ archPc = exMem.pc /\ Golden!Rs1(i) = a /\ Golden!Rs2(i) = b
  BY MemView DEF MemTick, Golden!Rs1, Golden!Rs2
<1>2. ~IsCapMem(i) /\ ~IsCapOp(i) /\ ~(IsMul(i) /\ IsDiv(i))
  BY DEF IsCapMem, IsCapOp, IsMul, IsDiv, MulFns, DivFns
<1>3. exMem.aluResult = ResultOf(i, exMem.pc, a, b, memCap)
  BY DEF MemTick, RefineInv, MemMatches
<1>4. Tick
  BY DEF MemTick
<1>5. CASE IsMul(i)
  <2>1. wbData' = Multiply(i.fn, a, b)
    BY <1>2, <1>3, <1>4, <1>5, WbDataNext DEF ResultOf, IsMul
  <2>2. Golden!RegisterResult(i) = Multiply(i.fn, a, b)
    BY <1>1, <1>2, <1>5, SameWords, SameInstructions DEF Golden!RegisterResult, IsMul
  <2>3. QED
    BY <2>1, <2>2
<1>6. CASE IsDiv(i)
  <2>1. wbData' = DivideOf(i.fn, a, b)
    BY <1>2, <1>3, <1>4, <1>6, WbDataNext DEF ResultOf, IsDiv
  <2>2. Golden!RegisterResult(i) = Golden!DivideResult(i)
    BY <1>1, <1>2, <1>6, SameInstructions DEF Golden!RegisterResult, IsDiv
  <2>3. Golden!DivideResult(i) = DivideOf(i.fn, a, b)
    BY <1>1, SameWords DEF Golden!DivideResult, DivideOf
  <2>4. QED
    BY <2>1, <2>2, <2>3
<1>7. CASE i.class = "LUI"
  <2>1. ~IsMul(i) /\ ~IsDiv(i)
    BY <1>7 DEF IsMul, IsDiv
  <2>2. QED
    BY <1>4, <1>7, <2>1, WbDataNext, SameInstructions DEF Golden!RegisterResult
<1>8. CASE i.class = "AUIPC"
  <2>1. ~IsMul(i) /\ ~IsDiv(i)
    BY <1>8 DEF IsMul, IsDiv
  <2>2. wbData' = AluResult(i, exMem.pc, a, b)
    BY <1>2, <1>3, <1>4, <1>8, <2>1, WbDataNext DEF ResultOf
  <2>3. AluResult(i, exMem.pc, a, b) = Wrap(exMem.pc + i.imm)
    BY <1>8 DEF AluResult, AluFn, AluOperandA, AluOperandB, Alu
  <2>4. QED
    BY <1>1, <1>8, <2>1, <2>2, <2>3, SameInstructions, SameWords DEF Golden!RegisterResult
<1>9. CASE i.class \in {"R", "I"} /\ ~IsMul(i) /\ ~IsDiv(i)
  <2>1. wbData' = AluResult(i, exMem.pc, a, b)
    BY <1>2, <1>3, <1>4, <1>9, WbDataNext DEF ResultOf
  <2>2. AluFn(i) = i.fn
    BY <1>9 DEF AluFn, Illegal, LegalFns, IsMul, IsDiv, ImmAluFns, LogicFns, MulFns, DivFns
  <2>3. AluResult(i, exMem.pc, a, b) = Alu(i.fn, a, IF i.class = "I" THEN i.imm ELSE b)
    BY <1>9, <2>2 DEF AluResult, AluOperandA, AluOperandB
  <2>4. Golden!RegisterResult(i) = Alu(i.fn, a, IF i.class = "I" THEN i.imm ELSE b)
    BY <1>1, <1>9, SameInstructions, SameWords DEF Golden!RegisterResult
  <2>5. QED
    BY <2>1, <2>3, <2>4
<1>10. QED
  BY <1>5, <1>6, <1>7, <1>8, <1>9

\* R, I, LUI and AUIPC.
LEMMA StepsCompute ==
    ASSUME MemTick, ~Illegal(exMem.instr), exMem.instr.class \in {"R", "I", "LUI", "AUIPC"}
    PROVE  Golden!StepCompute(exMem.instr)
<1>1. ~IsCapOp(exMem.instr) /\ ~IsCapMem(exMem.instr) /\ ~MemWrite(exMem.instr)
      /\ ~MemRead(exMem.instr) /\ RegWrite(exMem.instr)
      /\ ~RedirectTaken(exMem.instr, memRs1, memRs2)
  BY DEF IsCapOp, IsCapMem, MemWrite, MemRead, RegWrite, RedirectTaken, IsJump, IsBranch
<1>2. ~securityEvent.valid /\ ~DerivesNow /\ ~memRequest.write /\ WritesBack
  BY <1>1, PlainInstruction DEF memRequest, WritesBack, MemTick
<1>3. Golden!WriteReg(exMem.instr.rd, wbData') /\ archCaps' = archCaps
  BY <1>2, RegsWritten, CapsKept DEF MemTick
<1>4. Golden!WriteReg(exMem.instr.rd, Golden!RegisterResult(exMem.instr))
  BY <1>3, ComputesResult DEF Golden!WriteReg
<1>5. QED
  BY <1>1, <1>2, <1>3, <1>4, OnlyRegisters, SameInstructions DEF Golden!StepCompute

\* JAL and JALR.
LEMMA StepsJump ==
    ASSUME MemTick, IsJump(exMem.instr)
    PROVE  Golden!StepJump(exMem.instr)
<1> PICK i \in Instruction : i = exMem.instr
  BY MemInstruction DEF MemTick
<1>1. ~IsCapOp(i) /\ ~IsCapMem(i) /\ ~MemWrite(i) /\ ~MemRead(i) /\ RegWrite(i)
      /\ RedirectTaken(i, memRs1, memRs2) /\ ~IsMul(i) /\ ~IsDiv(i) /\ i.class \in {"JAL", "JALR"}
  BY DEF IsCapOp, IsCapMem, MemWrite, MemRead, RegWrite, RedirectTaken, IsJump, IsMul, IsDiv
<1>2. ~securityEvent.valid /\ ~DerivesNow /\ ~memRequest.write /\ WritesBack
  BY <1>1, PlainInstruction DEF memRequest, WritesBack, MemTick
<1>3. Golden!WriteReg(i.rd, wbData') /\ archCaps' = archCaps
  BY <1>2, RegsWritten, CapsKept DEF MemTick
<1>4. wbData' = Golden!RegisterResult(i)
  <2>1. wbData' = Wrap(exMem.pc + 4)
    BY <1>1, WbDataNext DEF MemTick
  <2>2. archPc = exMem.pc
    BY MemView DEF MemTick
  <2>3. QED
    BY <1>1, <2>1, <2>2, SameWords, SameInstructions DEF Golden!RegisterResult
<1>5. Golden!WriteReg(i.rd, Golden!RegisterResult(i))
  BY <1>3, <1>4 DEF Golden!WriteReg
<1>6. Golden!GoTo(Golden!TargetAddress(i, archPc, Golden!Rs1(i)))
  <2>1. archPc = exMem.pc /\ Golden!Rs1(i) = memRs1
    BY MemView DEF MemTick, Golden!Rs1
  <2>2. Golden!GoTo(TargetAddress(i, exMem.pc, memRs1))
    BY <1>1, <1>2, OnlyRegisters DEF NextOf
  <2>3. QED
    BY <2>1, <2>2, SameInstructions
<1>7. QED
  BY <1>2, <1>3, <1>5, <1>6, OnlyRegisters, SameInstructions DEF Golden!StepJump

\* The branches.
LEMMA StepsBranch ==
    ASSUME MemTick, IsBranch(exMem.instr)
    PROVE  Golden!StepBranch(exMem.instr)
<1> PICK i \in Instruction : i = exMem.instr
  BY MemInstruction DEF MemTick
<1>1. ~IsCapOp(i) /\ ~IsCapMem(i) /\ ~MemWrite(i) /\ ~RegWrite(i) /\ ~IsJump(i)
      /\ i.class = "BRANCH"
  BY DEF IsCapOp, IsCapMem, MemWrite, RegWrite, IsJump, IsBranch
<1>2. ~securityEvent.valid /\ ~DerivesNow /\ ~memRequest.write /\ ~WritesBack
  BY <1>1, PlainInstruction DEF memRequest, WritesBack
<1>3. archRegs' = archRegs /\ archCaps' = archCaps
  BY <1>2, RegsKept, CapsKept DEF MemTick
<1>4. archPc = exMem.pc /\ Golden!Rs1(i) = memRs1 /\ Golden!Rs2(i) = memRs2
  BY MemView DEF MemTick, Golden!Rs1, Golden!Rs2
<1>5. CASE Compare(i.fn, memRs1, memRs2)
  <2>1. Golden!GoTo(Wrap(exMem.pc + i.imm))
    BY <1>1, <1>2, <1>5, OnlyRegisters DEF NextOf, RedirectTaken, TargetAddress
  <2>2. QED
    BY <1>2, <1>3, <1>4, <1>5, <2>1, OnlyRegisters, SameWords, SameInstructions
    DEF Golden!StepBranch
<1>6. CASE ~Compare(i.fn, memRs1, memRs2)
  <2>1. Golden!Advance
    BY <1>1, <1>2, <1>6, OnlyRegisters DEF RedirectTaken
  <2>2. QED
    BY <1>2, <1>3, <1>4, <1>6, <2>1, OnlyRegisters, SameInstructions DEF Golden!StepBranch
<1>7. QED
  BY <1>5, <1>6

\* The register window as the interpreter reads it.
LEMMA RegisterReads ==
    ASSUME TypeOK, Aligned, NEW name \in MmioRegister
    PROVE  RegisterValue(name) \in Golden!RegisterWords(name)
<1>1. SystemMmioTypeOK
  BY TypeParts
<1>2. \A w \in Int : w % 4 = 0 => WordAligned(w) = w
  BY DEF WordAligned
<1>3. WordAligned(trap.vector) = trap.vector /\ WordAligned(trap.epc) = trap.epc
  BY <1>1, <1>2, WordIsInt DEF SystemMmioTypeOK, Aligned
<1>4. RegisterValue(name) \in Golden!Word
  BY <1>1, RegisterValueType, SameWords
<1>5. CASE name \in {"PROCESS_BEHAVIOR_CLASS", "SCHED_HINT", "CURRENT_CONTEXT", "SEC_STATUS",
                     "SEC_PC", "SEC_ADDR", "SEC_INFO", "SEC_CONTEXT", "TRAP_CONTROL",
                     "TRAP_STATUS"}
  BY <1>5, SameWords DEF RegisterValue, Golden!RegisterWords, InfoWord
<1>6. CASE name \in {"TRAP_VECTOR", "TRAP_EPC", "TRAP_CAUSE", "TRAP_ADDR", "TRAP_CONTEXT"}
  BY <1>3, <1>6, SameStorage DEF RegisterValue, Golden!RegisterWords, InfoWord
<1>7. CASE name \in {"REV_ENERGY_ACC", "BRANCH_CONFIDENCE", "TRAP_RETURN", "EDP_CONFIG"}
  BY <1>7 DEF RegisterValue, Golden!RegisterWords
<1>8. CASE name \in {"CLA_SWITCHING", "MUL_THERMAL", "EDP_CURRENT", "RETIRED_COUNT",
                     "BRANCH_TAKEN_COUNT", "LOAD_USE_STALL_COUNT", "DIV_BUSY_CYCLES",
                     "PIPELINE_STALL_COUNT", "LAST_COMMIT_PC"}
  BY <1>4, <1>8 DEF Golden!RegisterWords
<1>9. QED
  BY <1>5, <1>6, <1>7, <1>8 DEF MmioRegister

\* The core accepts a load from the window where the interpreter finds a register.
LEMMA RegisterAccepted ==
    ASSUME memRequest.read
    PROVE  ReadAccepted(memRequest) <=> Golden!RegisterHit(exMem.instr, exMem.aluResult)
<1>1. memRequest.address = exMem.aluResult /\ memRequest.width = AccessSize(exMem.instr)
  BY DEF memRequest
<1>2. QED
  BY <1>1, SameInstructions, RegisterMapAssumption
  DEF ReadAccepted, Selects, Golden!RegisterHit

\* A load that is let through.
LEMMA LoadTaken ==
    ASSUME MemTick, MemRead(exMem.instr), ~securityEvent.valid
    PROVE  Golden!Load(exMem.instr, exMem.aluResult)
<1> PICK i \in Instruction : i = exMem.instr
  BY MemInstruction DEF MemTick
<1> PICK address \in Word : address = exMem.aluResult
  BY MemInstruction DEF MemTick
<1>1. /\ ~MemWrite(i) /\ RegWrite(i) /\ ~RedirectTaken(i, memRs1, memRs2)
      /\ i.class \in {"LOAD", "CAPLOAD"} /\ ~IsCapOp(i)
  BY DEF MemRead, MemWrite, RegWrite, RedirectTaken, IsJump, IsBranch, IsCapOp
<1>2. capAccessAllow /\ memRequest.read /\ ~memRequest.write /\ ~takePreciseTrap
  BY <1>1 DEF securityEvent, capAccessAllow, memRequest, MemTick, takePreciseTrap, PreciseTrap
<1>3. ~DerivesNow
  <2>1. exMem.derivation = NoDerivation
    BY <1>1 DEF MemTick, RefineInv, MemMatches
  <2>2. QED
    BY <2>1 DEF DerivesNow, NoDerivation, Derivation
<1>4. archCaps' = archCaps
  BY <1>3, CapsKept DEF MemTick
<1>5. Golden!Advance /\ UNCHANGED <<dmem, software, securityLog, trap>>
  BY <1>1, <1>2, OnlyRegisters
<1>6. loadAccepted => Golden!WriteReg(i.rd, memReadData)
  <2>1. loadAccepted => WritesBack
    BY <1>1, <1>2 DEF WritesBack, MemTick
  <2>2. wbData' = memReadData
    BY <1>1, WbDataNext DEF MemTick
  <2>3. QED
    BY <2>1, <2>2, RegsWritten DEF MemTick, Golden!WriteReg
<1>7. ~loadAccepted => Golden!NoEffect
  <2>1. ~loadAccepted => ~WritesBack
    BY DEF WritesBack
  <2>2. QED
    BY <1>4, <1>5, <2>1, RegsKept DEF MemTick, Golden!NoEffect
<1>8. CASE WindowHit(address) /\ Golden!RegisterHit(i, address)
  <2>1. loadAccepted /\ ReadAccepted(memRequest)
    BY <1>2, <1>8, RegisterAccepted DEF loadAccepted, memWindowHit
  <2>2. memReadData = RegisterValue(RegisterAt[address])
    BY <1>8, <2>1 DEF memReadData, memWindowHit, ReadData, memRequest
  <2>3. RegisterAt[address] \in MmioRegister
    BY <1>8, RegisterMapAssumption DEF Golden!RegisterHit
  <2>4. memReadData \in Golden!RegisterWords(RegisterAt[address])
    BY <2>2, <2>3, RegisterReads DEF MemTick, RefineInv
  <2>5. \E w \in Golden!RegisterWords(RegisterAt[address]) : Golden!WriteReg(i.rd, w)
    BY <1>6, <2>1, <2>4
  <2>6. QED
    BY <1>4, <1>5, <1>8, <2>5, SameStorage DEF Golden!Load
<1>9. CASE WindowHit(address) /\ ~Golden!RegisterHit(i, address)
  <2>1. ~loadAccepted
    BY <1>2, <1>9, RegisterAccepted DEF loadAccepted, memWindowHit
  <2>2. QED
    BY <1>7, <1>9, <2>1, SameStorage DEF Golden!Load
<1>10. CASE ~WindowHit(address) /\ Misaligned(i, address)
  <2>1. ~loadAccepted
    BY <1>10 DEF loadAccepted, memWindowHit
  <2>2. QED
    BY <1>7, <1>10, <2>1, SameStorage DEF Golden!Load
<1>11. CASE ~WindowHit(address) /\ ~Misaligned(i, address)
  <2>1. loadAccepted
    BY <1>2, <1>11 DEF loadAccepted, memWindowHit
  <2>2. InBounds(address)
    BY <1>11, <2>1 DEF MemTick, Conforming, LoadsUnmapped, memWindowHit
  <2>3. memReadData = LoadValue(dmem, i, address)
    BY <1>2, <1>11, <2>2 DEF memReadData, memWindowHit, DataMemoryRead
  <2>4. Golden!WriteReg(i.rd, Golden!LoadValue(dmem, i, address))
    BY <1>6, <2>1, <2>3, SameStorage
  <2>5. QED
    BY <1>4, <1>5, <1>11, <2>2, <2>4, SameStorage DEF Golden!Load
<1>12. QED
  BY <1>8, <1>9, <1>10, <1>11

\* The loads.
LEMMA StepsLoad ==
    ASSUME MemTick, ~Illegal(exMem.instr), exMem.instr.class = "LOAD"
    PROVE  Golden!StepLoad(exMem.instr)
<1> PICK i \in Instruction : i = exMem.instr
  BY MemInstruction DEF MemTick
<1>1. ~IsCapOp(i) /\ ~IsCapMem(i) /\ MemRead(i) /\ ~IsMul(i) /\ ~IsDiv(i)
  BY DEF IsCapOp, IsCapMem, MemRead, IsMul, IsDiv
<1>2. exMem.aluResult = Wrap(memRs1 + i.imm)
  <2>1. exMem.aluResult = AluResult(i, exMem.pc, memRs1, memRs2)
    BY <1>1 DEF MemTick, RefineInv, MemMatches, ResultOf
  <2>2. QED
    BY <2>1 DEF AluResult, AluFn, AluOperandA, AluOperandB, Alu
<1>3. Golden!Rs1(i) = memRs1
  BY MemView DEF MemTick, Golden!Rs1
<1>4. Golden!Load(i, exMem.aluResult)
  BY <1>1, PlainInstruction, LoadTaken
<1>5. QED
  BY <1>2, <1>3, <1>4, SameWords, SameInstructions DEF Golden!StepLoad

\* After a trap or a trap return the fetch starts over.
LEMMA FlushGoes ==
    ASSUME Tick, flushEXMEM PROVE archPc' = Normal(pc')
<1>1. ~exMem'.valid /\ ~idEx'.valid /\ ~ifId'.valid /\ rom' = rom
  BY DEF Tick, ExMemTick, EmptyExMem, IdExTick, EmptyIdEx, flushIDEX, IfIdTick, EmptyIfId,
         flushIFID, isFlush, flushEXMEM
<1>2. QED
  BY <1>1 DEF archPc, Normal

\* A store that is let through, its request and what it leaves alone.
LEMMA StoreRequest ==
    ASSUME MemTick, MemWrite(exMem.instr), ~securityEvent.valid
    PROVE  /\ memRequest.write /\ memRequest.data = memRs2
           /\ memRequest.address = exMem.aluResult
           /\ memRequest.width = AccessSize(exMem.instr)
           /\ UNCHANGED <<archRegs, archCaps>>
           /\ ~RedirectTaken(exMem.instr, memRs1, memRs2)
           /\ ~takePreciseTrap
<1> PICK i \in Instruction : i = exMem.instr
  BY MemInstruction DEF MemTick
<1>1. ~RegWrite(i) /\ ~RedirectTaken(i, memRs1, memRs2) /\ ~IsCapOp(i)
  BY DEF MemWrite, RegWrite, RedirectTaken, IsJump, IsBranch, IsCapOp
<1>2. memRequest.write /\ ~takePreciseTrap
  BY DEF securityEvent, capAccessAllow, memRequest, MemTick, takePreciseTrap, PreciseTrap
<1>3. exMem.derivation = NoDerivation /\ exMem.rs2Data = memRs2
  BY <1>1 DEF MemTick, RefineInv, MemMatches
<1>4. ~WritesBack /\ ~DerivesNow
  BY <1>1, <1>3 DEF WritesBack, DerivesNow, NoDerivation, Derivation
<1>5. UNCHANGED <<archRegs, archCaps>>
  BY <1>4, RegsKept, CapsKept DEF MemTick
<1>6. QED
  BY <1>1, <1>2, <1>3, <1>5 DEF memRequest

\* A store reaches the register the interpreter finds.
LEMMA SelectedRegister ==
    ASSUME MemTick, MemWrite(exMem.instr), ~securityEvent.valid
    PROVE  \A name : Stores(memRequest, name) <=>
               /\ Golden!RegisterHit(exMem.instr, exMem.aluResult)
               /\ RegisterAt[exMem.aluResult] = name
  BY StoreRequest, SameInstructions DEF Stores, Selects, Golden!RegisterHit

\* A store to a register of the window.
LEMMA RegisterStored ==
    ASSUME MemTick, MemWrite(exMem.instr), ~securityEvent.valid, WindowHit(exMem.aluResult),
           Golden!RegisterHit(exMem.instr, exMem.aluResult)
    PROVE  Golden!StoreRegister(RegisterAt[exMem.aluResult], memRs2)
<1> PICK name : name = RegisterAt[exMem.aluResult]
  OBVIOUS
<1> PICK w : w = memRs2
  OBVIOUS
<1>0. SystemMmioTypeOK /\ Tick
  BY TypeParts DEF MemTick
<1>1. /\ memRequest.data = w
      /\ \A n : Stores(memRequest, n) <=> name = n
  BY StoreRequest, SelectedRegister
<1>2. /\ UNCHANGED <<archRegs, archCaps>> /\ ~takePreciseTrap
      /\ ~RedirectTaken(exMem.instr, memRs1, memRs2)
  BY StoreRequest
<1>3. dmem' = dmem
  BY <1>0 DEF Tick, DataMemoryTick, memWindowHit
<1>4. software' = CASE name = "PROCESS_BEHAVIOR_CLASS" -> [software EXCEPT !.behaviorClass = w]
                    [] name = "SCHED_HINT" -> [software EXCEPT !.schedHint = w]
                    [] name = "CURRENT_CONTEXT" -> [software EXCEPT !.currentContext = w]
                    [] OTHER -> software
  <2>1. software' = [behaviorClass |-> IF name = "PROCESS_BEHAVIOR_CLASS" THEN w
                                       ELSE software.behaviorClass,
                     schedHint |-> IF name = "SCHED_HINT" THEN w ELSE software.schedHint,
                     currentContext |-> IF name = "CURRENT_CONTEXT" THEN w
                                        ELSE software.currentContext]
    BY <1>0, <1>1 DEF Tick, SystemMmioTick, SoftwareTick
  <2>2. QED
    BY <1>0, <2>1 DEF SystemMmioTypeOK
<1>5. securityLog' = IF name = "SEC_STATUS" /\ Odd(w)
                     THEN [securityLog EXCEPT !.pending = FALSE] ELSE securityLog
  <2>1. securityLog' = [securityLog EXCEPT !.pending =
                             securityLog.pending /\ ~ClearsLog(memRequest)]
    BY <1>0 DEF Tick, SystemMmioTick, SecurityLogTick
  <2>2. ClearsLog(memRequest) <=> name = "SEC_STATUS" /\ Odd(w)
    BY <1>1 DEF ClearsLog
  <2>3. CASE ClearsLog(memRequest)
    BY <2>1, <2>2, <2>3
  <2>4. CASE ~ClearsLog(memRequest)
    BY <1>0, <2>1, <2>2, <2>4 DEF SystemMmioTypeOK
  <2>5. QED
    BY <2>3, <2>4
<1> DEFINE returns == name = "TRAP_RETURN" /\ trap.active /\ Odd(w)
<1>6. TrapReturn(memRequest) <=> returns
  BY <1>1 DEF TrapReturn
<1>7. trap' = CASE name = "TRAP_CONTROL" -> [trap EXCEPT !.enable = Odd(w)]
                [] name = "TRAP_STATUS" /\ Odd(w \div 2) -> [trap EXCEPT !.doubleFault = FALSE]
                [] name = "TRAP_VECTOR" -> [trap EXCEPT !.vector = WordAligned(w)]
                [] name = "TRAP_EPC" /\ trap.active -> [trap EXCEPT !.epc = WordAligned(w)]
                [] returns -> [trap EXCEPT !.active = FALSE]
                [] OTHER -> trap
  <2>1. ~PreciseTrap(securityEvent) /\ ~NestedFault(securityEvent)
    BY DEF PreciseTrap, NestedFault
  <2>2. NextEpc(memRequest, securityEvent) =
            IF name = "TRAP_EPC" /\ trap.active THEN WordAligned(w) ELSE trap.epc
    BY <1>1, <2>1 DEF NextEpc
  <2>3. NextDoubleFault(memRequest, securityEvent) =
            (trap.doubleFault /\ ~(name = "TRAP_STATUS" /\ Odd(w \div 2)))
    BY <1>1, <2>1 DEF NextDoubleFault, ClearsDoubleFault
  <2>4. (PreciseTrap(securityEvent) \/ (trap.active /\ ~TrapReturn(memRequest))) =
            (trap.active /\ ~returns)
    BY <1>6, <2>1
  <2>5. trap' = [enable      |-> IF name = "TRAP_CONTROL" THEN Odd(w) ELSE trap.enable,
                 active      |-> trap.active /\ ~returns,
                 doubleFault |-> trap.doubleFault /\ ~(name = "TRAP_STATUS" /\ Odd(w \div 2)),
                 vector      |-> IF name = "TRAP_VECTOR" THEN WordAligned(w) ELSE trap.vector,
                 epc         |-> IF name = "TRAP_EPC" /\ trap.active THEN WordAligned(w)
                                 ELSE trap.epc,
                 accessType  |-> trap.accessType, reason |-> trap.reason,
                 address     |-> trap.address, context |-> trap.context]
    BY <1>0, <1>1, <2>1, <2>2, <2>3, <2>4 DEF Tick, SystemMmioTick, TrapTick
  <2>6. QED
    BY <1>0, <2>5 DEF SystemMmioTypeOK
<1>8. IF returns THEN Golden!GoTo(trap.epc) ELSE Golden!Advance
  <2>1. CASE returns
    <3>1. takeTrapReturn /\ flushEXMEM /\ pc' = trap.epc
      BY <1>0, <1>2, <1>6, <2>1 DEF Tick, PcTick, takeTrapReturn, flushEXMEM, isFlush
    <3>2. QED
      BY <1>0, <2>1, <3>1, FlushGoes, SameNormal DEF Golden!GoTo
  <2>2. CASE ~returns
    <3>1. ~flushEXMEM
      BY <1>2, <1>6, <2>2 DEF takeTrapReturn, flushEXMEM
    <3>2. QED
      BY <1>2, <2>2, <3>1, Advances DEF MemTick, RefineInv
  <2>3. QED
    BY <2>1, <2>2
<1>9. QED
  BY <1>2, <1>3, <1>4, <1>5, <1>7, <1>8
  DEF Golden!StoreRegister, Golden!Odd, Odd, Golden!WordAligned, WordAligned

\* A store that is let through.
LEMMA StoreTaken ==
    ASSUME MemTick, MemWrite(exMem.instr), ~securityEvent.valid
    PROVE  Golden!Store(exMem.instr, exMem.aluResult, memRs2)
<1> PICK i \in Instruction : i = exMem.instr
  BY MemInstruction DEF MemTick
<1> PICK address \in Word : address = exMem.aluResult
  BY MemInstruction DEF MemTick
<1>1. CASE WindowHit(address) /\ Golden!RegisterHit(i, address)
  BY <1>1, RegisterStored, SameStorage DEF Golden!Store
<1>2. CASE ~(WindowHit(address) /\ Golden!RegisterHit(i, address))
  <2>1. Golden!RegisterHit(i, address) => WindowHit(address)
    BY RegisterMapAssumption, AddressMapAssumption, WordIsInt DEF Golden!RegisterHit, WindowHit
  <2>2. \A name : ~Stores(memRequest, name)
    BY <1>2, <2>1, SelectedRegister
  <2>3. /\ ~takeTrapReturn /\ ~takePreciseTrap
        /\ UNCHANGED <<software, securityLog, trap>>
    BY <2>2, QuietMmio DEF MemTick
  <2>4. Golden!Advance /\ UNCHANGED <<archRegs, archCaps>>
    BY <2>3, Advances, StoreRequest DEF MemTick, RefineInv, flushEXMEM
  <2>5. dmem' = IF ~WindowHit(address) /\ InBounds(address) /\ ~Misaligned(i, address)
                THEN StoreValue(dmem, i, address, memRs2) ELSE dmem
    <3>1. exMem.rs2Data = memRs2 /\ memRequest.write
      BY StoreRequest DEF memRequest
    <3>2. QED
      BY <3>1 DEF MemTick, Tick, DataMemoryTick, memWindowHit
  <2>6. CASE WindowHit(address)
    BY <1>2, <2>3, <2>4, <2>5, <2>6, SameStorage DEF Golden!Store, Golden!NoEffect
  <2>7. CASE ~WindowHit(address) /\ InBounds(address) /\ ~Misaligned(i, address)
    BY <2>3, <2>4, <2>5, <2>7, SameStorage DEF Golden!Store
  <2>8. CASE ~WindowHit(address) /\ ~(InBounds(address) /\ ~Misaligned(i, address))
    BY <2>3, <2>4, <2>5, <2>8, SameStorage DEF Golden!Store, Golden!NoEffect
  <2>9. QED
    BY <2>6, <2>7, <2>8
<1>3. QED
  BY <1>1, <1>2

\* The stores.
LEMMA StepsStore ==
    ASSUME MemTick, ~Illegal(exMem.instr), exMem.instr.class = "STORE"
    PROVE  Golden!StepStore(exMem.instr)
<1> PICK i \in Instruction : i = exMem.instr
  BY MemInstruction DEF MemTick
<1>1. ~IsCapOp(i) /\ ~IsCapMem(i) /\ MemWrite(i) /\ ~IsMul(i) /\ ~IsDiv(i)
  BY DEF IsCapOp, IsCapMem, MemWrite, IsMul, IsDiv
<1>2. exMem.aluResult = Wrap(memRs1 + i.imm)
  <2>1. exMem.aluResult = AluResult(i, exMem.pc, memRs1, memRs2)
    BY <1>1 DEF MemTick, RefineInv, MemMatches, ResultOf
  <2>2. QED
    BY <2>1 DEF AluResult, AluFn, AluOperandA, AluOperandB, Alu
<1>3. Golden!Rs1(i) = memRs1 /\ Golden!Rs2(i) = memRs2
  BY MemView DEF MemTick, Golden!Rs1, Golden!Rs2
<1>4. Golden!Store(i, exMem.aluResult, memRs2)
  BY <1>1, PlainInstruction, StoreTaken
<1>5. QED
  BY <1>2, <1>3, <1>4, SameWords, SameInstructions DEF Golden!StepStore

\* An instruction that raises an event is squashed.
LEMMA EventSquashes ==
    ASSUME MemTick, RefusalFits, securityEvent.valid
    PROVE  /\ ~WritesBack /\ ~DerivesNow /\ ~memRequest.write /\ ~takeTrapReturn
           /\ \A name : ~Stores(memRequest, name)
           /\ ~RedirectTaken(exMem.instr, memRs1, memRs2)
<1>1. ~memRequest.write
  BY EventMakesNoRequest
<1>2. \A name : ~Stores(memRequest, name)
  BY <1>1 DEF Stores
<1>3. CASE isCapMemViolation
  <2>1. IsCapMem(exMem.instr) /\ ~capAccessAllow /\ ~loadAccepted
    BY <1>3 DEF isCapMemViolation, capAccessAllow, loadAccepted
  <2>2. ~RegWrite(exMem.instr) \/ MemRead(exMem.instr)
    BY <2>1 DEF IsCapMem, RegWrite, MemRead
  <2>3. QED
    BY <1>1, <1>2, <2>1, <2>2
    DEF WritesBack, DerivesNow, takeTrapReturn, TrapReturn, RedirectTaken, IsJump, IsBranch,
        IsCapMem
<1>4. CASE isDerivationViolation
  <2>1. IsCapOp(exMem.instr) /\ ~exMem.derivation.write /\ ~RegWrite(exMem.instr)
    BY <1>4, DerivingInstruction DEF isDerivationViolation, RefusalFits
  <2>2. QED
    BY <1>1, <1>2, <2>1
    DEF WritesBack, DerivesNow, takeTrapReturn, TrapReturn, RedirectTaken, IsJump, IsBranch,
        IsCapOp
<1>5. QED
  BY <1>3, <1>4 DEF securityEvent

\* A violation is logged and trapped as the interpreter does it.
LEMMA ViolationTaken ==
    ASSUME MemTick, RefusalFits, securityEvent.valid
    PROVE  Golden!Violation(securityEvent.accessType, securityEvent.reason, securityEvent.address)
<1> PICK type, reason, address, at, who :
         /\ type = securityEvent.accessType /\ reason = securityEvent.reason
         /\ address = securityEvent.address /\ at = exMem.pc /\ who = software.currentContext
  OBVIOUS
<1>0. SystemMmioTypeOK /\ Tick /\ exMem.pc \in Word
  BY TypeParts DEF MemTick, ExMemSet
<1>1. /\ \A name : ~Stores(memRequest, name)
      /\ ~memRequest.write /\ ~takeTrapReturn
      /\ ~RedirectTaken(exMem.instr, memRs1, memRs2)
      /\ UNCHANGED <<archRegs, archCaps>>
  BY EventSquashes, RegsKept, CapsKept DEF MemTick
<1>2. securityEvent.pc = at /\ securityEvent.context = who /\ archPc = at
  BY MemView DEF MemTick, securityEvent
<1>3. software' = software
  BY <1>0, <1>1 DEF Tick, SystemMmioTick, SoftwareTick, SystemMmioTypeOK
<1>4. dmem' = dmem
  BY <1>0, <1>1 DEF Tick, DataMemoryTick
<1>5. securityLog' = IF securityLog.pending THEN securityLog
                     ELSE [pending |-> TRUE, pc |-> at, address |-> address,
                           accessType |-> type, reason |-> reason, context |-> who]
  <2>1. ~ClearsLog(memRequest)
    BY <1>1 DEF ClearsLog
  <2>2. CASE securityLog.pending
    <3>1. securityLog' = [securityLog EXCEPT !.pending = securityLog.pending
                                                          /\ ~ClearsLog(memRequest)]
      BY <1>0, <2>1, <2>2 DEF Tick, SystemMmioTick, SecurityLogTick
    <3>2. QED
      BY <1>0, <2>1, <2>2, <3>1 DEF SystemMmioTypeOK
  <2>3. CASE ~securityLog.pending
    BY <1>0, <1>2, <2>1, <2>3 DEF Tick, SystemMmioTick, SecurityLogTick, LogEntry
  <2>4. QED
    BY <2>2, <2>3
<1> DEFINE takeTrap == trap.enable /\ ~trap.active
<1>6. /\ PreciseTrap(securityEvent) <=> takeTrap
      /\ NestedFault(securityEvent) <=> ~takeTrap /\ trap.enable
      /\ takePreciseTrap <=> takeTrap
  BY DEF PreciseTrap, NestedFault, takePreciseTrap
<1>7. takeTrap => WordAligned(at) = at
  BY <1>0, <1>6, WordIsInt DEF MemTick, Conforming, WordAligned
<1>8. trap' = CASE takeTrap -> [trap EXCEPT !.active = TRUE, !.epc = WordAligned(at),
                                            !.accessType = type, !.reason = reason,
                                            !.address = address, !.context = who]
                [] ~takeTrap /\ trap.enable -> [trap EXCEPT !.doubleFault = TRUE]
                [] OTHER -> trap
  <2>1. NextEpc(memRequest, securityEvent) = IF takeTrap THEN at ELSE trap.epc
    BY <1>1, <1>2, <1>6 DEF NextEpc
  <2>2. NextDoubleFault(memRequest, securityEvent) =
            ((~takeTrap /\ trap.enable) \/ trap.doubleFault)
    BY <1>1, <1>6 DEF NextDoubleFault, ClearsDoubleFault
  <2>3. (PreciseTrap(securityEvent) \/ (trap.active /\ ~TrapReturn(memRequest))) =
            (takeTrap \/ trap.active)
    BY <1>1, <1>6 DEF takeTrapReturn
  <2>4. trap' = [enable |-> trap.enable, active |-> takeTrap \/ trap.active,
                 doubleFault |-> (~takeTrap /\ trap.enable) \/ trap.doubleFault,
                 vector |-> trap.vector, epc |-> IF takeTrap THEN at ELSE trap.epc,
                 accessType |-> IF takeTrap THEN type ELSE trap.accessType,
                 reason |-> IF takeTrap THEN reason ELSE trap.reason,
                 address |-> IF takeTrap THEN address ELSE trap.address,
                 context |-> IF takeTrap THEN who ELSE trap.context]
    BY <1>0, <1>1, <1>2, <1>6, <2>1, <2>2, <2>3 DEF Tick, SystemMmioTick, TrapTick
  <2>5. QED
    BY <1>0, <1>7, <2>4 DEF SystemMmioTypeOK
<1>9. IF takeTrap THEN Golden!GoTo(trap.vector) ELSE Golden!Advance
  <2>1. CASE takeTrap
    <3>1. flushEXMEM /\ pc' = trap.vector
      BY <1>0, <1>6, <2>1 DEF Tick, PcTick, flushEXMEM, isFlush
    <3>2. QED
      BY <1>0, <2>1, <3>1, FlushGoes, SameNormal DEF Golden!GoTo
  <2>2. CASE ~takeTrap
    <3>1. ~flushEXMEM
      BY <1>1, <1>6, <2>2 DEF flushEXMEM
    <3>2. QED
      BY <1>1, <2>2, <3>1, Advances DEF MemTick, RefineInv
  <2>3. QED
    BY <2>1, <2>2
<1>10. QED
  BY <1>1, <1>2, <1>3, <1>4, <1>5, <1>8, <1>9
  DEF Golden!Violation, Golden!WordAligned, WordAligned

-----------------------------------------------------------------------------
(* Capability instructions.  The two sides compute bounds and addresses in *)
(* another order: confinement is what keeps the core's sums from wrapping. *)

\* Truncating a sum early does not matter: at most two moduli have to go.
LEMMA WrapTwice == \A m, n, k \in Word : Wrap(Wrap(m + n) + k) = Wrap(m + n + k)
<1> SUFFICES ASSUME NEW m \in Word, NEW n \in Word, NEW k \in Word
             PROVE  Wrap(Wrap(m + n) + k) = Wrap(m + n + k)
  OBVIOUS
<1>0. PICK M \in Nat : M = WordModulus /\ M > 0
  BY WordModulusType
<1>1. m \in 0 .. (M - 1) /\ n \in 0 .. (M - 1) /\ k \in 0 .. (M - 1)
  BY <1>0 DEF Word
<1>2. \A x \in 0 .. (M - 1) : x % M = x /\ (x + M) % M = x /\ (x + 2 * M) % M = x
  <2> TAKE x \in 0 .. (M - 1)
  <2>1. x \in Nat /\ x < M /\ x + M \in Nat /\ x + 2 * M \in Nat
    BY <1>0
  <2>2. x % M = x
    BY <2>1, DivisionIs
  <2>3. (x + M) % M = x
    BY <2>1, DivisionIs
  <2>4. (x + 2 * M) % M = x
    BY <2>1, DivisionIs
  <2>5. QED
    BY <2>2, <2>3, <2>4
<1>3. PICK s \in 0 .. (M - 1), c \in {0, 1} : m + n = s + c * M
  <2>1. CASE m + n < M
    BY <1>1, <2>1
  <2>2. CASE m + n >= M
    <3>1. m + n - M \in 0 .. (M - 1) /\ m + n = (m + n - M) + 1 * M
      BY <1>1, <2>2
    <3>2. QED
      BY <3>1
  <2>3. QED
    BY <1>1, <2>1, <2>2
<1>4. PICK u \in 0 .. (M - 1), d \in {0, 1} : s + k = u + d * M
  <2>1. CASE s + k < M
    <3>1. s + k \in 0 .. (M - 1) /\ s + k = (s + k) + 0 * M
      BY <1>1, <2>1
    <3>2. QED
      BY <3>1
  <2>2. CASE s + k >= M
    <3>1. s + k - M \in 0 .. (M - 1) /\ s + k = (s + k - M) + 1 * M
      BY <1>1, <2>2
    <3>2. QED
      BY <3>1
  <2>3. QED
    BY <1>1, <2>1, <2>2
<1>5. (m + n) % M = s
  BY <1>2, <1>3
<1>6. (s + k) % M = u
  BY <1>2, <1>4
<1>7. (m + n + k) % M = u
  <2>1. m + n + k \in {u, u + M, u + 2 * M}
    BY <1>1, <1>3, <1>4
  <2>2. QED
    BY <1>2, <2>1
<1>8. QED
  BY <1>0, <1>5, <1>6, <1>7 DEF Wrap

\* The bounds of a confined capability do not wrap around.
LEMMA TaggedFits ==
    ASSUME NEW cap \in Capability, Confined(cap), cap.tag
    PROVE  /\ cap.base \in Nat /\ cap.length \in Nat /\ cap.offset \in Nat
           /\ cap.offset <= cap.length /\ cap.base + cap.length < WordModulus
           /\ Cursor(cap) = cap.base + cap.offset
<1>1. cap.base \in Nat /\ cap.length \in Nat /\ cap.offset \in Nat
  BY WordIsInt DEF Capability
<1>2. cap.offset <= cap.length /\ cap.base + cap.length < WordModulus
  BY <1>1, RootType, AddressMapAssumption, WordModulusType
  DEF Confined, Within, Top, RamRoot, MmioRoot
<1>3. cap.base + cap.offset \in Word
  BY <1>1, <1>2, WordModulusType DEF Word
<1>4. QED
  BY <1>1, <1>2, <1>3, WrapWord DEF Cursor

\* The capability a capability instruction reads, as the interpreter reads it.
LEMMA SourceCapability ==
    ASSUME MemTick, UsesCapRs1(exMem.instr)
    PROVE  /\ memCap = archCaps[exMem.instr.rs1]
           /\ memCap \in Capability /\ Confined(memCap)
<1>1. exMem.instr \in Instruction /\ exMem.instr.rs1 \in Nat /\ NumCaps \in Nat
      /\ CapRs1(exMem.instr) \in Cap
  BY MemInstruction, CapFieldIndex, RegisterAssumption DEF MemTick, Instruction, Reg
<1>2. exMem.instr.rs1 \in Cap
  BY DEF UsesCapRs1, IsCapMem, IsCapOp, Illegal, BadCapIndex
<1>3. CapRs1(exMem.instr) = exMem.instr.rs1
  BY <1>1, <1>2 DEF Cap, CapRs1
<1>4. memCap \in Capability
  BY <1>1, ReadCapType DEF MemTick, memCap
<1>5. Confined(memCap)
  BY <1>1 DEF MemTick, memCap, ReadCap, CapConfined
<1>6. QED
  BY <1>3, <1>4, <1>5, MemView DEF MemTick

\* Capability operations do not access memory.
LEMMA OperationTick ==
    ASSUME MemTick, IsCapOp(exMem.instr)
    PROVE  /\ exMem.derivation = Derive(exMem.instr, memCap, memRs2)
           /\ securityEvent.valid = exMem.derivation.violation.valid
           /\ securityEvent.accessType = 3
           /\ securityEvent.reason = exMem.derivation.violation.reason
           /\ securityEvent.address = exMem.derivation.violation.address
           /\ ~memRequest.write /\ capAccessAllow /\ ~MemRead(exMem.instr)
           /\ ~RedirectTaken(exMem.instr, memRs1, memRs2)
           /\ Golden!Rs2(exMem.instr) = memRs2
<1>1. ~MemRead(exMem.instr) /\ ~MemWrite(exMem.instr) /\ ~IsCapMem(exMem.instr)
      /\ ~RedirectTaken(exMem.instr, memRs1, memRs2)
  BY DEF IsCapOp, IsCapMem, MemRead, MemWrite, RedirectTaken, IsJump, IsBranch
<1>2. ~isCapMemViolation /\ ~memRequest.write
  BY <1>1 DEF isCapMemViolation, memRequest
<1>3. exMem.derivation.violation.valid \in BOOLEAN
  BY TypeParts DEF MemTick, ExMemSet, DerivationSet
<1>4. (isCapMemViolation \/ isDerivationViolation) = exMem.derivation.violation.valid
  BY <1>2, <1>3 DEF isDerivationViolation, MemTick
<1>5. exMem.derivation = Derive(exMem.instr, memCap, memRs2)
  BY DEF MemTick, RefineInv, MemMatches
<1>6. Golden!Rs2(exMem.instr) = memRs2
  BY MemView DEF MemTick, Golden!Rs2
<1>7. QED
  BY <1>1, <1>2, <1>4, <1>5, <1>6
  DEF securityEvent, AccessCapabilityOperation, capAccessAllow

\* A refused derivation is a violation of capability operations.
LEMMA OperationRefused ==
    ASSUME MemTick, RefusalFits, IsCapOp(exMem.instr), NEW reason, NEW address,
           exMem.derivation = Refused(reason, address)
    PROVE  Golden!Violation(3, reason, address)
<1>1. /\ exMem.derivation.violation.valid /\ exMem.derivation.violation.reason = reason
      /\ exMem.derivation.violation.address = address
  BY DEF Refused, Derivation, Violated
<1>2. QED
  BY <1>1, OperationTick, ViolationTaken

\* A derivation that is made writes its capability and nothing else.
LEMMA OperationDerives ==
    ASSUME MemTick, IsCapOp(exMem.instr), exMem.instr.fn \notin CapGetFns, NEW cap,
           exMem.derivation = Derived(cap)
    PROVE  /\ Golden!WriteCap(exMem.instr.rd, cap)
           /\ Golden!Advance /\ UNCHANGED <<archRegs, dmem, software, securityLog, trap>>
<1>1. /\ ~exMem.derivation.violation.valid /\ exMem.derivation.write
      /\ exMem.derivation.cap = cap
  BY DEF Derived, Derivation, NoViolation
<1>2. ~securityEvent.valid
  BY <1>1, OperationTick
<1>3. ~takePreciseTrap /\ ~RegWrite(exMem.instr)
  BY <1>2 DEF takePreciseTrap, PreciseTrap, RegWrite, IsCapOp
<1>4. DerivesNow /\ ~WritesBack
  BY <1>1, <1>3, OperationTick DEF DerivesNow, WritesBack, MemTick
<1>5. CapRd(exMem.instr) = exMem.instr.rd
  <2>1. exMem.instr.rd \in Cap /\ NumCaps \in Nat
    BY RegisterAssumption DEF IsCapOp, Illegal, BadCapIndex
  <2>2. QED
    BY <2>1 DEF Cap, CapRd
<1>6. Golden!WriteCap(exMem.instr.rd, cap) /\ archRegs' = archRegs
  BY <1>1, <1>4, <1>5, CapsWritten, RegsKept DEF MemTick
<1>7. QED
  BY <1>2, <1>6, OperationTick, OnlyRegisters

\* CSETBOUNDS: the core compares lengths, the interpreter tops.
LEMMA StepsSetBounds ==
    ASSUME MemTick, RefusalFits, IsCapOp(exMem.instr), exMem.instr.fn = "CSETBOUNDS"
    PROVE  Golden!StepSetBounds(exMem.instr)
<1> PICK i \in Instruction, cap \in {memCap}, b \in {memRs2} :
         i = exMem.instr /\ cap = memCap /\ b = memRs2
  BY MemInstruction DEF MemTick
<1>1. UsesCapRs1(i) /\ i.fn \notin CapGetFns
  BY DEF UsesCapRs1, CapGetFns
<1>2. cap = archCaps[i.rs1] /\ cap \in Capability /\ Confined(cap) /\ Golden!Rs2(i) = b
  BY <1>1, SourceCapability, OperationTick
<1>3. b \in Word
  BY MemInstruction, ReadRegType DEF MemTick, memRs2, Instruction
<1>4. Cursor(cap) = Golden!Wrap(cap.base + cap.offset)
  BY SameWords DEF Cursor
<1>5. exMem.derivation = SetBounds(cap, b)
  BY OperationTick DEF Derive
<1>6. CASE ~cap.tag
  <2>1. exMem.derivation = Refused(1, Cursor(cap))
    BY <1>5, <1>6 DEF SetBounds, InvalidCapability
  <2>2. Golden!Violation(3, 1, Cursor(cap))
    BY <2>1, OperationRefused
  <2>3. QED
    BY <1>2, <1>4, <1>6, <2>2, SameInstructions DEF Golden!StepSetBounds
<1>7. CASE cap.tag /\ Cursor(cap) + b > cap.base + cap.length
  <2>1. exMem.derivation = Refused(6, Cursor(cap))
    <3>1. ~(b <= cap.length - cap.offset)
      BY <1>2, <1>3, <1>7, TaggedFits, WordIsInt
    <3>2. QED
      BY <1>5, <1>7, <3>1 DEF SetBounds, Monotonicity
  <2>2. Golden!Violation(3, 6, Cursor(cap))
    BY <2>1, OperationRefused
  <2>3. QED
    BY <1>2, <1>4, <1>7, <2>2, SameInstructions DEF Golden!StepSetBounds
<1>8. CASE cap.tag /\ ~(Cursor(cap) + b > cap.base + cap.length)
  <2>1. cap.offset <= cap.length /\ b <= cap.length - cap.offset
    BY <1>2, <1>3, <1>8, TaggedFits, WordIsInt
  <2>2. [cap EXCEPT !.base = Cursor(cap), !.length = b, !.offset = 0] =
            [tag |-> TRUE, base |-> Cursor(cap), length |-> b, perms |-> cap.perms, offset |-> 0]
    <3>1. cap.tag = TRUE
      BY <1>2, <1>8 DEF Capability
    <3>2. PICK new : new = [cap EXCEPT !.base = Cursor(cap), !.length = b, !.offset = 0]
      OBVIOUS
    <3>3. new = [tag |-> cap.tag, base |-> Cursor(cap), length |-> b, perms |-> cap.perms,
                 offset |-> 0]
      BY <1>2, <3>2 DEF Capability
    <3>4. QED
      BY <3>1, <3>2, <3>3
  <2>3. exMem.derivation =
            Derived([tag |-> TRUE, base |-> Cursor(cap), length |-> b, perms |-> cap.perms,
                     offset |-> 0])
    BY <1>5, <1>8, <2>1, <2>2 DEF SetBounds
  <2>4. /\ Golden!WriteCap(i.rd, [tag |-> TRUE, base |-> Cursor(cap), length |-> b,
                                  perms |-> cap.perms, offset |-> 0])
        /\ Golden!Advance /\ UNCHANGED <<archRegs, dmem, software, securityLog, trap>>
    BY <1>1, <2>3, OperationDerives
  <2>5. QED
    BY <1>2, <1>4, <1>8, <2>4, SameInstructions DEF Golden!StepSetBounds
<1>9. QED
  BY <1>6, <1>7, <1>8

\* CANDPERM.
LEMMA StepsAndPerm ==
    ASSUME MemTick, RefusalFits, IsCapOp(exMem.instr), exMem.instr.fn = "CANDPERM"
    PROVE  Golden!StepAndPerm(exMem.instr)
<1> PICK i \in Instruction, cap \in {memCap}, b \in {memRs2} :
         i = exMem.instr /\ cap = memCap /\ b = memRs2
  BY MemInstruction DEF MemTick
<1>1. UsesCapRs1(i) /\ i.fn \notin CapGetFns
  BY DEF UsesCapRs1, CapGetFns
<1>2. cap = archCaps[i.rs1] /\ Golden!Rs2(i) = b
  BY <1>1, SourceCapability, OperationTick
<1>3. exMem.derivation = AndPerm(cap, b)
  BY OperationTick DEF Derive
<1>4. CASE ~cap.tag
  <2>1. Golden!Violation(3, 1, cap.base)
    BY <1>3, <1>4, OperationRefused DEF AndPerm, InvalidCapability
  <2>2. QED
    BY <1>2, <1>4, <2>1, SameInstructions DEF Golden!StepAndPerm
<1>5. CASE cap.tag
  <2>1. exMem.derivation = Derived([cap EXCEPT !.perms = @ \intersect PermsOfWord(b)])
    BY <1>3, <1>5 DEF AndPerm
  <2>2. /\ Golden!WriteCap(i.rd, [cap EXCEPT !.perms = @ \intersect PermsOfWord(b)])
        /\ Golden!Advance /\ UNCHANGED <<archRegs, dmem, software, securityLog, trap>>
    BY <1>1, <2>1, OperationDerives
  <2>3. QED
    BY <1>2, <1>5, <2>2, SameInstructions, SameStorage DEF Golden!StepAndPerm
<1>6. QED
  BY <1>4, <1>5

\* CINCOFFSET.
LEMMA StepsIncOffset ==
    ASSUME MemTick, RefusalFits, IsCapOp(exMem.instr), exMem.instr.fn = "CINCOFFSET"
    PROVE  Golden!StepIncOffset(exMem.instr)
<1> PICK i \in Instruction, cap \in {memCap}, b \in {memRs2} :
         i = exMem.instr /\ cap = memCap /\ b = memRs2
  BY MemInstruction DEF MemTick
<1>1. UsesCapRs1(i) /\ i.fn \notin CapGetFns
  BY DEF UsesCapRs1, CapGetFns
<1>2. cap = archCaps[i.rs1] /\ cap \in Capability /\ Golden!Rs2(i) = b
  BY <1>1, SourceCapability, OperationTick
<1>3. b \in Word
  BY MemInstruction, ReadRegType DEF MemTick, memRs2, Instruction
<1>4. Cursor(cap) = Golden!Wrap(cap.base + cap.offset) /\ Golden!Signed(b) = Signed(b)
  BY SameWords DEF Cursor
<1>5. exMem.derivation = IncOffset(cap, b)
  BY OperationTick DEF Derive
<1>6. PICK newOffset \in Int : newOffset = cap.offset + Signed(b)
  BY <1>2, <1>3, SignedType, WordIsInt DEF Capability
<1>7. cap.length \in Int
  BY <1>2, WordIsInt DEF Capability
<1>8. CASE ~cap.tag
  <2>1. Golden!Violation(3, 1, Cursor(cap))
    BY <1>5, <1>8, OperationRefused DEF IncOffset, InvalidCapability
  <2>2. QED
    BY <1>2, <1>4, <1>8, <2>1, SameInstructions DEF Golden!StepIncOffset
<1>9. CASE cap.tag /\ (newOffset < 0 \/ newOffset > cap.length)
  <2>1. exMem.derivation = Refused(2, Cursor(cap))
    BY <1>5, <1>6, <1>7, <1>9 DEF IncOffset, BoundsViolation
  <2>2. Golden!Violation(3, 2, Cursor(cap))
    BY <2>1, OperationRefused
  <2>3. QED
    BY <1>2, <1>4, <1>6, <1>9, <2>2, SameInstructions DEF Golden!StepIncOffset
<1>10. CASE cap.tag /\ ~(newOffset < 0 \/ newOffset > cap.length)
  <2>1. exMem.derivation = Derived([cap EXCEPT !.offset = newOffset])
    BY <1>5, <1>6, <1>7, <1>10 DEF IncOffset
  <2>2. /\ Golden!WriteCap(i.rd, [cap EXCEPT !.offset = newOffset])
        /\ Golden!Advance /\ UNCHANGED <<archRegs, dmem, software, securityLog, trap>>
    BY <1>1, <2>1, OperationDerives
  <2>3. QED
    BY <1>2, <1>4, <1>6, <1>10, <2>2, SameInstructions DEF Golden!StepIncOffset
<1>11. QED
  BY <1>8, <1>9, <1>10

\* CCLEAR.
LEMMA StepsCapClear ==
    ASSUME MemTick, IsCapOp(exMem.instr), exMem.instr.fn = "CCLEAR"
    PROVE  Golden!StepCapClear(exMem.instr)
<1>1. exMem.derivation = Derived(NullCapability)
  BY OperationTick DEF Derive
<1>2. exMem.instr.fn \notin CapGetFns
  BY DEF CapGetFns
<1>3. QED
  BY <1>1, <1>2, OperationDerives, SameInstructions, SameStorage DEF Golden!StepCapClear

\* CGETBASE .. CGETOFFSET.
LEMMA StepsCapRead ==
    ASSUME MemTick, IsCapOp(exMem.instr), exMem.instr.fn \in CapGetFns
    PROVE  Golden!StepCapRead(exMem.instr)
<1> PICK i \in Instruction : i = exMem.instr
  BY MemInstruction DEF MemTick
<1>1. UsesCapRs1(i) /\ RegWrite(i) /\ ~Illegal(i) /\ ~IsCapMem(i) /\ ~IsMul(i) /\ ~IsDiv(i)
      /\ i.class = "CAP"
  BY DEF UsesCapRs1, CapGetFns, RegWrite, IsCapOp, IsCapMem, IsMul, IsDiv
<1>2. exMem.derivation = NoDerivation
  BY OperationTick DEF Derive, CapGetFns
<1>3. ~exMem.derivation.violation.valid /\ ~exMem.derivation.write
  BY <1>2 DEF NoDerivation, Derivation, NoViolation
<1>4. ~securityEvent.valid /\ ~DerivesNow /\ ~takePreciseTrap
  BY <1>3, OperationTick DEF DerivesNow, takePreciseTrap, PreciseTrap
<1>5. WritesBack
  BY <1>1, <1>4, OperationTick DEF WritesBack, MemTick
<1>6. Golden!WriteReg(i.rd, wbData') /\ archCaps' = archCaps
  BY <1>4, <1>5, RegsWritten, CapsKept DEF MemTick
<1>7. wbData' = CapField(i.fn, memCap)
  <2>1. exMem.aluResult = CapField(i.fn, memCap)
    BY <1>1 DEF MemTick, RefineInv, MemMatches, ResultOf
  <2>2. QED
    BY <1>1, <2>1, WbDataNext DEF MemTick
<1>8. Golden!WriteReg(i.rd, Golden!CapField(i.fn, archCaps[i.rs1]))
  BY <1>1, <1>6, <1>7, SourceCapability, SameStorage DEF Golden!WriteReg
<1>9. QED
  BY <1>4, <1>6, <1>8, OperationTick, OnlyRegisters, SameInstructions DEF Golden!StepCapRead

\* Loads and stores through a capability, allowed or refused.
LEMMA StepsCapMem ==
    ASSUME MemTick, RefusalFits, IsCapMem(exMem.instr)
    PROVE  Golden!StepCapMem(exMem.instr)
<1> PICK i \in Instruction, cap \in {memCap} : i = exMem.instr /\ cap = memCap
  BY MemInstruction DEF MemTick
<1>1. /\ UsesCapRs1(i) /\ ~IsCapOp(i) /\ ~IsMul(i) /\ ~IsDiv(i)
      /\ i.class \in {"CAPLOAD", "CAPSTORE"} /\ ~Illegal(i)
      /\ MemWrite(i) <=> i.class = "CAPSTORE"
      /\ MemRead(i) <=> i.class = "CAPLOAD"
  BY DEF UsesCapRs1, IsCapOp, IsCapMem, IsMul, IsDiv, MemWrite, MemRead
<1>2. cap = archCaps[i.rs1] /\ cap \in Capability /\ exMem.capSource = cap
  BY <1>1, SourceCapability DEF MemTick, RefineInv, MemMatches
<1>3. PICK address \in Word : address = exMem.aluResult
  BY MemInstruction DEF MemTick
<1>4. address = Golden!Wrap(cap.base + cap.offset + i.imm)
  <2>1. address = Wrap(Wrap(cap.base + cap.offset) + i.imm)
    BY <1>1, <1>3 DEF MemTick, RefineInv, MemMatches, ResultOf, Cursor
  <2>2. QED
    BY <1>2, <2>1, WrapTwice, SameWords DEF Capability, Instruction
<1>5. exMem.derivation = NoDerivation
  BY <1>1 DEF MemTick, RefineInv, MemMatches
<1>6. ~isDerivationViolation
  BY <1>5 DEF isDerivationViolation, NoDerivation, Derivation, NoViolation
<1> DEFINE isStore == i.class = "CAPSTORE"
           refusal == CASE ~cap.tag -> 1
                        [] cap.tag /\ ~(/\ address >= cap.base
                                        /\ address + AccessSize(i) <= cap.base + cap.length) -> 2
                        [] OTHER -> IF isStore THEN (IF 2 \in cap.perms THEN 0 ELSE 4)
                                               ELSE (IF 1 \in cap.perms THEN 0 ELSE 3)
<1>7. capReason = refusal
  <2>1. address >= cap.base <=> cap.base <= address
    BY <1>2, WordIsInt DEF Capability
  <2>2. capReason = CheckReason(cap, address, AccessSize(i), isStore)
    <3>1. MemWrite(i) = isStore
      BY <1>1 DEF MemWrite
    <3>2. QED
      BY <1>2, <1>3, <3>1 DEF capReason
  <2>3. QED
    BY <2>1, <2>2
    DEF CheckReason, Top, InvalidCapability, BoundsViolation, PermRead, PermWrite,
        ReadPermission, WritePermission
<1>8. securityEvent.valid <=> refusal # 0
  BY <1>6, <1>7 DEF securityEvent, isCapMemViolation, MemTick
<1>9. Golden!Rs2(i) = memRs2
  BY MemView DEF MemTick, Golden!Rs2
<1>10. CASE refusal # 0
  <2>1. isCapMemViolation
    BY <1>7, <1>10 DEF isCapMemViolation, MemTick
  <2>2. securityEvent.address = address /\ securityEvent.reason = refusal
    BY <1>3, <1>7, <2>1 DEF securityEvent
  <2>3. securityEvent.accessType = Golden!AsWord(isStore)
    BY <1>1, <2>1 DEF securityEvent, AccessWrite, AccessRead, Golden!AsWord
  <2>4. Golden!Violation(Golden!AsWord(isStore), refusal, address)
    BY <1>8, <1>10, <2>2, <2>3, ViolationTaken
  <2>5. QED
    BY <1>2, <1>4, <1>10, <2>4, SameInstructions DEF Golden!StepCapMem
<1>11. CASE refusal = 0 /\ isStore
  <2>1. Golden!Store(i, address, memRs2)
    BY <1>1, <1>3, <1>8, <1>11, StoreTaken
  <2>2. QED
    BY <1>2, <1>4, <1>9, <1>11, <2>1, SameInstructions DEF Golden!StepCapMem
<1>12. CASE refusal = 0 /\ ~isStore
  <2>1. Golden!Load(i, address)
    BY <1>1, <1>3, <1>8, <1>12, LoadTaken
  <2>2. QED
    BY <1>2, <1>4, <1>12, <2>1, SameInstructions DEF Golden!StepCapMem
<1>13. QED
  BY <1>10, <1>11, <1>12

\* A tick with an instruction in MEM is that instruction's step.
LEMMA TickSteps == ASSUME MemTick, RefusalFits PROVE Golden!Step
<1> PICK i \in Instruction : i = exMem.instr
  BY MemInstruction DEF MemTick
<1>1. Golden!Running /\ Golden!CurrentInstr = i /\ rom' = rom
  BY MemView DEF MemTick, Tick
<1>2. CASE Illegal(i)
  BY <1>1, <1>2, StepsIllegal DEF Golden!Step
<1>3. CASE ~Illegal(i) /\ i.class \in {"R", "I", "LUI", "AUIPC"}
  BY <1>1, <1>3, StepsCompute DEF Golden!Step
<1>4. CASE ~Illegal(i) /\ i.class \in {"JAL", "JALR"}
  BY <1>1, <1>4, StepsJump DEF Golden!Step, IsJump
<1>5. CASE ~Illegal(i) /\ i.class = "BRANCH"
  BY <1>1, <1>5, StepsBranch DEF Golden!Step, IsBranch
<1>6. CASE ~Illegal(i) /\ i.class = "LOAD"
  BY <1>1, <1>6, StepsLoad DEF Golden!Step
<1>7. CASE ~Illegal(i) /\ i.class = "STORE"
  BY <1>1, <1>7, StepsStore DEF Golden!Step
<1>8. CASE ~Illegal(i) /\ i.class \in {"CAPLOAD", "CAPSTORE"}
  BY <1>1, <1>8, StepsCapMem DEF Golden!Step, IsCapMem
<1>9. CASE ~Illegal(i) /\ i.class = "CAP"
  <2>1. IsCapOp(i) /\ i.fn \in CapDeriveFns \union CapGetFns \union {"CCLEAR"}
    BY <1>9 DEF IsCapOp, Illegal, LegalFns
  <2>2. CASE i.fn = "CSETBOUNDS"
    BY <1>1, <2>1, <2>2, StepsSetBounds DEF Golden!Step
  <2>3. CASE i.fn = "CANDPERM"
    BY <1>1, <2>1, <2>3, StepsAndPerm DEF Golden!Step
  <2>4. CASE i.fn = "CINCOFFSET"
    BY <1>1, <2>1, <2>4, StepsIncOffset DEF Golden!Step
  <2>5. CASE i.fn \in CapGetFns
    BY <1>1, <2>1, <2>5, StepsCapRead DEF Golden!Step
  <2>6. CASE i.fn = "CCLEAR"
    BY <1>1, <2>1, <2>6, StepsCapClear DEF Golden!Step
  <2>7. QED
    BY <2>1, <2>2, <2>3, <2>4, <2>5, <2>6 DEF CapDeriveFns
<1>10. QED
  BY <1>2, <1>3, <1>4, <1>5, <1>6, <1>7, <1>8, <1>9, LegalClass

\* Any other tick is invisible to the program.
LEMMA TickStutters ==
    ASSUME TypeOK, InProgramOrder, Conforming, Tick, ~exMem.valid
    PROVE  UNCHANGED Golden!iVars
<1>1. ~memRequest.write /\ ~securityEvent.valid /\ ~WritesBack /\ ~DerivesNow
  BY DEF memRequest, securityEvent, isCapMemViolation, isDerivationViolation, WritesBack,
         DerivesNow
<1>2. /\ ~takePreciseTrap /\ ~takeTrapReturn
      /\ UNCHANGED <<dmem, software, securityLog, trap>>
  BY <1>1, QuietSystem
<1>3. archPc' = Normal(youngerPc)
  BY <1>2, YoungerStep DEF flushEXMEM
<1>4. archPc = Normal(youngerPc)
  BY DEF archPc, Normal, youngerPc, fetchPc
<1>5. UNCHANGED <<archRegs, archCaps>> /\ rom' = rom
  BY <1>1, RegsKept, CapsKept DEF Tick
<1>6. QED
  BY <1>2, <1>3, <1>4, <1>5 DEF Golden!iVars

-----------------------------------------------------------------------------
(* The theorem.                                                            *)

\* Reset is the interpreter's initial state.
LEMMA InitImplements == Init => Golden!InterpreterInit
<1> SUFFICES ASSUME Init PROVE Golden!InterpreterInit
  OBVIOUS
<1>1. archPc = Golden!Normalize(0)
  BY DEF Init, EmptyIfId, EmptyIdEx, EmptyExMem, archPc, Golden!Normalize
<1>2. ~wbRegWrite /\ ~capWen
  BY DEF Init, EmptyMemWb, wbRegWrite, capWen
<1>3. archRegs = [r \in Golden!Reg |-> 0]
  BY <1>2 DEF Init, archRegs, ReadReg, Golden!Reg, Reg
<1>4. archCaps = [c \in Golden!Cap |-> Golden!CapResetValue(c)]
  BY <1>2, SameStorage DEF Init, archCaps, ReadCap, Golden!Cap, Cap
<1>5. QED
  BY <1>1, <1>3, <1>4 DEF Init, DataMemoryInit, SystemMmioInit, Golden!InterpreterInit

\* An execution that meets none of the four differences that Conforming names (unmapped loads,
\* lost divisions, instructions fetched at half a word, a pc that wraps around) is one of the
\* interpreter, instruction by instruction.
THEOREM CoreImplementsInterpreter == Spec /\ []Conforming => RefinesInterpreter
<1>1. ASSUME TypeOK, RefineInv, CapConfined, InProgramOrder, RefusalFits, Conforming, [Next]_vars
      PROVE  [Golden!Step]_(Golden!iVars)
  <2>1. CASE Tick /\ exMem.valid
    BY <1>1, <2>1, TickSteps DEF MemTick
  <2>2. CASE Tick /\ ~exMem.valid
    BY <1>1, <2>2, TickStutters
  <2>3. CASE UNCHANGED vars
    BY <2>3 DEF vars, coreVars, mmioVars, Golden!iVars, archPc, archRegs, archCaps, ReadReg,
                ReadCap, wbRegWrite, wbData, capWen
  <2>4. QED
    BY <1>1, <2>1, <2>2, <2>3 DEF Next, Clock, Stopped
<1>2. QED
  BY <1>1, InitImplements, TypeCorrectness, RefineInvariance, CapabilityConfinement,
     ProgramOrder, RefusalInvariance, PTL
  DEF Spec, RefinesInterpreter, Golden!InterpreterSpec
=============================================================================
