--------------------------- MODULE Hardware_proofs --------------------------
(***************************************************************************)
(* Facts about what the core is built from, for every width of the machine *)
(* and any register map: words and the arithmetic of the execute stage,    *)
(* the divider, instructions, byte lanes and capabilities, and the shape   *)
(* of the system block's registers after a clock edge.                     *)
(***************************************************************************)
EXTENDS SystemMMIO, IterativeDivider, FiniteSetTheorems, TLAPS

\* A word has at least 256 values, and an even number of them.
LEMMA WordModulusType ==
    /\ ByteModulus \in Nat /\ ByteModulus >= 4
    /\ WordModulus \in Nat /\ WordModulus >= 256
<1>1. ByteModulus \in Nat /\ ByteModulus >= 4
  BY WidthAssumption
<1>2. ByteModulus * ByteModulus \in Nat /\ ByteModulus * ByteModulus >= 16
  BY <1>1
<1>3. ByteModulus * ByteModulus * ByteModulus \in Nat
      /\ ByteModulus * ByteModulus * ByteModulus >= 64
  BY <1>1, <1>2
<1>4. WordModulus \in Nat /\ WordModulus >= 256
  BY <1>1, <1>3 DEF WordModulus
<1>5. QED
  BY <1>1, <1>4

\* Truncation gives a word.
LEMMA WrapType == \A n \in Int : Wrap(n) \in Word
  BY WordModulusType DEF Wrap, Word

\* Truncation leaves a word alone.
LEMMA WrapWord == \A w \in Word : Wrap(w) = w
  BY WordModulusType DEF Wrap, Word

\* Small numbers are words.
LEMMA SmallWord == \A n \in 0 .. 255 : n \in Word
  BY WordModulusType DEF Word

\* The two's complement reading of a word is an integer.
LEMMA SignedType == \A w \in Word : Signed(w) \in Int
  BY WordModulusType DEF Signed, Word

LEMMA WordIsInt == \A w \in Word : w \in Int /\ w \in Nat
  BY WordModulusType DEF Word

\* Every ALU operation returns a word.
AluFns == {"ADD", "SUB", "SLT", "SLTU"} \union LogicFns

LEMMA AluType ==
    ASSUME NEW fn \in AluFns, NEW a \in Word, NEW b \in Word
    PROVE  Alu(fn, a, b) \in Word
<1>1. a \in Int /\ b \in Int
  BY WordIsInt
<1>2. Wrap(a + b) \in Word /\ Wrap(a - b) \in Word
  BY <1>1, WrapType
<1>3. \A c \in BOOLEAN : AsWord(c) \in Word
  BY SmallWord DEF AsWord
<1>4. Less(a, b) \in BOOLEAN /\ LessUnsigned(a, b) \in BOOLEAN
  BY DEF Less, LessUnsigned
<1>5. fn \in LogicFns => LogicAlu(fn, a, b) \in Word
  BY LogicAluAssumption
<1>6. QED
  BY <1>2, <1>3, <1>4, <1>5, Zenon DEF Alu, AluFns

\* So does every multiplication.
LEMMA MultiplyType ==
    ASSUME NEW fn, NEW a \in Word, NEW b \in Word
    PROVE  Multiply(fn, a, b) \in Word
<1>1. \A x, y \in Int : x * y \in Int
  OBVIOUS
<1>2. \A x \in Int : x \div WordModulus \in Int
  BY WordModulusType
<1>3. a \in Int /\ b \in Int /\ Signed(a) \in Int /\ Signed(b) \in Int
  BY WordIsInt, SignedType
<1>4. QED
  BY <1>1, <1>2, <1>3, WrapType DEF Multiply

\* The number of bits in which two words differ is a natural number.
LEMMA HammingDistanceType == \A a, b : HammingDistance(a, b) \in Nat
<1> SUFFICES ASSUME NEW a, NEW b PROVE HammingDistance(a, b) \in Nat
  OBVIOUS
<1> DEFINE D == {k \in 0 .. (XLEN - 1) : Bit(a, k) # Bit(b, k)}
<1>1. IsFiniteSet(0 .. (XLEN - 1))
  BY WidthAssumption, FS_Interval
<1>2. IsFiniteSet(D)
  BY <1>1, FS_Subset
<1>3. QED
  BY <1>2, FS_CardinalityType DEF HammingDistance

-----------------------------------------------------------------------------
(* The divider.                                                            *)

LEMMA NegateIfType ==
    ASSUME NEW c, NEW w \in Word
    PROVE  NegateIf(c, w) \in Word
<1>1. 0 - w \in Int
  BY WordIsInt
<1>2. QED
  BY <1>1, WrapType DEF NegateIf

LEMMA WideWordType ==
    /\ WideModulus \in Nat /\ WideModulus >= 512
    /\ \A w \in Word : w \in WideWord
    /\ \A n \in Int : n % WideModulus \in WideWord
<1>1. WideModulus \in Nat /\ WideModulus >= 512
  BY WordModulusType DEF WideModulus
<1>2. \A w \in Word : w \in WideWord
  BY WordModulusType DEF Word, WideWord, WideModulus
<1>3. \A n \in Int : n % WideModulus \in WideWord
  BY <1>1 DEF WideWord
<1>4. QED
  BY <1>1, <1>2, <1>3

\* The divider starts in the shape it keeps.
LEMMA DividerInitType == DividerInit => DividerTypeOK
<1>1. 0 \in Word /\ 0 \in WideWord
  BY SmallWord, WideWordType
<1>2. 0 \in 0 .. XLEN
  BY WidthAssumption
<1>3. QED
  BY <1>1, <1>2 DEF DividerInit, DividerTypeOK, DividerRegisters


\* An accepted request, whatever its operands, is one the divider can work on.
LEMMA AcceptType ==
    ASSUME DividerTypeOK, NEW dividend \in Word, NEW divisor \in Word, NEW isSigned \in BOOLEAN
    PROVE  /\ Accept(dividend, divisor, isSigned) \in DividerRegisters
           /\ Accept(dividend, divisor, isSigned).state # "IDLE"
           /\ Accept(dividend, divisor, isSigned).state = "COMPUTE" =>
                 Accept(dividend, divisor, isSigned).count = XLEN
<1> DEFINE dividendSign == isSigned /\ Negative(dividend)
           divisorSign  == isSigned /\ Negative(divisor)
           signed == [divider EXCEPT !.qNeg = dividendSign # divisorSign,
                                     !.rNeg = dividendSign]
<1>1. dividendSign \in BOOLEAN /\ divisorSign \in BOOLEAN
  BY DEF Negative
<1>2. signed \in DividerRegisters
  BY <1>1 DEF DividerTypeOK, DividerRegisters
<1> HIDE DEF dividendSign, divisorSign, signed
<1>3. /\ 0 \in Word /\ WordModulus - 1 \in Word /\ 0 \in WideWord
      /\ XLEN \in 0 .. XLEN
  BY SmallWord, WideWordType, WordModulusType, WidthAssumption DEF Word
<1>4. NegateIf(dividendSign, dividend) \in Word /\ NegateIf(divisorSign, divisor) \in WideWord
  BY NegateIfType, WideWordType
<1> DEFINE byZero == [signed EXCEPT !.state = "DONE", !.finalQuotient = WordModulus - 1,
                                    !.finalRemainder = dividend]
           overflow == [signed EXCEPT !.state = "DONE", !.finalQuotient = dividend,
                                      !.finalRemainder = 0]
           started == [signed EXCEPT !.state = "COMPUTE", !.count = XLEN, !.aReg = 0,
                                     !.qReg = NegateIf(dividendSign, dividend),
                                     !.mReg = NegateIf(divisorSign, divisor)]
<1>5. byZero \in DividerRegisters /\ byZero.state = "DONE"
  BY <1>2, <1>3 DEF DividerRegisters
<1>6. overflow \in DividerRegisters /\ overflow.state = "DONE"
  BY <1>2, <1>3 DEF DividerRegisters
<1>7. started \in DividerRegisters /\ started.state = "COMPUTE" /\ started.count = XLEN
  BY <1>2, <1>3, <1>4 DEF DividerRegisters
<1> HIDE DEF byZero, overflow, started
<1>8. Accept(dividend, divisor, isSigned) \in {byZero, overflow, started}
  BY DEF Accept, byZero, overflow, started, signed, dividendSign, divisorSign
<1>9. QED
  BY <1>5, <1>6, <1>7, <1>8

\* While the divider computes, steps are left to do.
Counting == divider.state = "COMPUTE" => divider.count \in 1 .. XLEN

LEMMA ComputeType ==
    ASSUME DividerTypeOK, Counting, divider.state = "COMPUTE"
    PROVE  /\ Compute \in DividerRegisters
           /\ Compute.state = "COMPUTE" => Compute.count \in 1 .. XLEN
<1> DEFINE shiftedA == 2 * (divider.aReg % WordModulus) + AsWord(Negative(divider.qReg))
           subA     == (shiftedA - divider.mReg) % WideModulus
           isNeg    == subA >= WordModulus
           newA     == IF isNeg THEN shiftedA ELSE subA
           newQ     == Wrap(2 * divider.qReg) + AsWord(~isNeg)
           stepped  == [divider EXCEPT !.aReg = newA, !.qReg = newQ, !.count = @ - 1]
           final    == [stepped EXCEPT !.state = "DONE",
                             !.finalQuotient = NegateIf(divider.qNeg, newQ),
                             !.finalRemainder = NegateIf(divider.rNeg, Wrap(newA))]
<1>1. divider.aReg \in Nat /\ divider.qReg \in Word /\ divider.mReg \in Nat
      /\ divider.count \in 1 .. XLEN
  BY DEF DividerTypeOK, DividerRegisters, WideWord, Counting
<1>2. shiftedA \in WideWord
  BY <1>1, WordModulusType DEF AsWord, WideWord, WideModulus
<1>3. subA \in WideWord
  <2>1. shiftedA - divider.mReg \in Int
    BY <1>1, <1>2 DEF WideWord
  <2>2. QED
    BY <2>1, WideWordType
<1>4. newA \in WideWord
  BY <1>2, <1>3
<1> HIDE DEF newA
<1>5. newQ \in Word
  <2>1. 2 * divider.qReg \in Nat
    BY <1>1, WordIsInt
  <2>2. Wrap(2 * divider.qReg) \in 0 .. (WordModulus - 2)
    <3>1. WordModulus % 2 = 0
      <4>1. ByteModulus % 2 = 0 /\ ByteModulus \in Nat
        BY WidthAssumption
      <4>2. PICK h \in Nat : ByteModulus = 2 * h
        BY <4>1
      <4>3. h * ByteModulus * ByteModulus * ByteModulus \in Nat
        BY <4>1, <4>2
      <4>4. WordModulus = 2 * (h * ByteModulus * ByteModulus * ByteModulus)
        BY <4>1, <4>2 DEF WordModulus
      <4>5. QED
        BY <4>3, <4>4
    <3>2. QED
      BY <1>1, <2>1, <3>1, WordModulusType DEF Wrap, Word
  <2>3. QED
    BY <2>2, WordModulusType DEF AsWord, Word
<1> HIDE DEF newQ
<1>6. stepped \in DividerRegisters
  <2>1. divider.count - 1 \in 0 .. XLEN
    BY <1>1, WidthAssumption
  <2>2. QED
    BY <1>4, <1>5, <2>1 DEF DividerTypeOK, DividerRegisters
<1>7. stepped.state = "COMPUTE" /\ stepped.count = divider.count - 1
  BY <1>1, WidthAssumption DEF DividerTypeOK, DividerRegisters
<1> HIDE DEF stepped
<1>8. final \in DividerRegisters /\ final.state = "DONE"
  <2>1. newA \in Int
    BY <1>4, WideWordType DEF WideWord
  <2>2. NegateIf(divider.qNeg, newQ) \in Word /\ NegateIf(divider.rNeg, Wrap(newA)) \in Word
    BY <1>5, <2>1, WrapType, NegateIfType
  <2>3. QED
    BY <1>6, <2>2 DEF DividerRegisters
<1> HIDE DEF final
<1>9. Compute = IF divider.count = 1 THEN final ELSE stepped
  BY DEF Compute, final, stepped, newA, newQ
<1>10. QED
  BY <1>1, <1>6, <1>7, <1>8, <1>9, WidthAssumption

\* Every clock keeps the divider in shape, and steps left while it computes.
LEMMA DividerTickType ==
    ASSUME DividerTypeOK, Counting,
           NEW start \in BOOLEAN, NEW kill \in BOOLEAN, NEW dividend \in Word,
           NEW divisor \in Word, NEW isSigned \in BOOLEAN,
           DividerTick(start, kill, dividend, divisor, isSigned)
    PROVE  DividerTypeOK' /\ Counting'
<1>1. divider \in DividerRegisters
  BY DEF DividerTypeOK
<1>2. 0 \in 0 .. XLEN /\ XLEN \in 1 .. XLEN
  BY WidthAssumption
<1> DEFINE killed == [divider EXCEPT !.state = "IDLE", !.count = 0]
           idle   == [divider EXCEPT !.state = "IDLE"]
<1>3. killed \in DividerRegisters /\ killed.state = "IDLE"
  BY <1>1, <1>2 DEF DividerRegisters
<1>4. idle \in DividerRegisters /\ idle.state = "IDLE"
  BY <1>1 DEF DividerRegisters
<1>5. CASE kill
  BY <1>3, <1>5 DEF DividerTick, DividerTypeOK, Counting
<1>6. CASE ~kill /\ divider.state = "IDLE"
  BY <1>1, <1>2, <1>6, AcceptType DEF DividerTick, DividerTypeOK, Counting
<1>7. CASE ~kill /\ divider.state = "COMPUTE"
  BY <1>7, ComputeType DEF DividerTick, DividerTypeOK, Counting
<1>8. CASE ~kill /\ divider.state = "DONE"
  BY <1>4, <1>8 DEF DividerTick, DividerTypeOK, Counting
<1>9. QED
  BY <1>1, <1>5, <1>6, <1>7, <1>8 DEF DividerRegisters

-----------------------------------------------------------------------------
(* Division: what the divider computes.                                    *)

Division == [dividend : Word, divisor : Word, isSigned : BOOLEAN]

\* One shift-subtract-restore step in the integers: p and R are the weights of the bits of
\* the dividend still to come and of the quotient bits found, M the divisor, a the
\* remainder so far.
LEMMA OneStep ==
    ASSUME NEW p \in Nat, NEW R \in Nat, NEW q \in Nat, NEW rest \in Nat, NEW M \in Nat,
           NEW a \in Nat, q < R, rest < 2 * p, a < M,
           NEW b \in {0, 1}, b = IF rest >= p THEN 1 ELSE 0,
           NEW s \in {0, 1}, s = IF 2 * a + b >= M THEN 1 ELSE 0
    PROVE  /\ rest - b * p \in Nat /\ rest - b * p < p
           /\ 2 * q + s \in Nat /\ 2 * q + s < 2 * R
           /\ 2 * a + b - s * M \in Nat /\ 2 * a + b - s * M < M
           /\ (q * M + a) * (2 * p) + rest =
                  ((2 * q + s) * M + (2 * a + b - s * M)) * p + (rest - b * p)
<1>1. b \in {0, 1} /\ s \in {0, 1}
  OBVIOUS
<1>2. rest - b * p \in Nat /\ rest - b * p < p
  <2>1. CASE rest >= p
    BY <2>1
  <2>2. CASE rest < p
    BY <2>2
  <2>3. QED
    BY <2>1, <2>2
<1>3. 2 * q + s \in Nat /\ 2 * q + s < 2 * R
  BY <1>1
<1>4. 2 * a + b - s * M \in Nat /\ 2 * a + b - s * M < M
  <2>1. CASE s = 1
    BY <1>1, <2>1
  <2>2. CASE s = 0
    BY <1>1, <2>2
  <2>3. QED
    BY <1>1, <2>1, <2>2
<1>5. (q * M + a) * (2 * p) + rest =
          ((2 * q + s) * M + (2 * a + b - s * M)) * p + (rest - b * p)
  <2>1. PICK x \in Nat : x = q * M
    OBVIOUS
  <2>2. (2 * q + s) * M = 2 * x + s * M
    BY <1>1, <2>1
  <2>3. (2 * q + s) * M + (2 * a + b - s * M) = 2 * x + 2 * a + b
    BY <1>1, <2>1, <2>2
  <2>4. (x + a) * (2 * p) = (2 * x + 2 * a) * p
    BY <2>1
  <2>5. (2 * x + 2 * a + b) * p = (2 * x + 2 * a) * p + b * p
    BY <1>1, <2>1
  <2>6. QED
    BY <1>1, <2>1, <2>3, <2>4, <2>5
<1>6. QED
  BY <1>2, <1>3, <1>4, <1>5

\* The same step on the Q register: its top bit is the next bit of the dividend, and
\* shifting it out makes room for the next quotient bit.
BringsDown(Q, p, R, q, rest, b) ==
    /\ Negative(Q) <=> b = 1
    /\ Wrap(2 * Q) = (rest - b * p) * (2 * R) + 2 * q

LEMMA QStep ==
    ASSUME NEW p \in Nat, NEW R \in Nat, NEW q \in Nat, NEW rest \in Nat,
           q < R, rest < 2 * p, WordModulus = 2 * p * R,
           NEW b \in {0, 1}, b = IF rest >= p THEN 1 ELSE 0,
           NEW Q \in Nat, Q = rest * R + q
    PROVE  BringsDown(Q, p, R, q, rest, b)
<1>1. PICK x \in Nat : x = p * R
  OBVIOUS
<1>2. PICK y \in Nat : y = rest * R
  OBVIOUS
<1>3. WordModulus = 2 * x
  BY <1>1
<1>4. CASE rest >= p
  <2>1. PICK d \in Nat : rest = p + d /\ d < p
    BY <1>4
  <2>2. PICK z \in Nat : z = d * R
    BY <2>1
  <2>3. y = x + z
    BY <1>1, <1>2, <2>1, <2>2
  <2>4. z + R <= x
    <3>1. d + 1 <= p
      BY <2>1
    <3>2. (d + 1) * R <= p * R
      BY <2>1, <3>1
    <3>3. (d + 1) * R = z + R
      BY <2>1, <2>2
    <3>4. QED
      BY <1>1, <3>2, <3>3
  <2>5. (rest - b * p) * (2 * R) = 2 * z
    BY <1>4, <2>1, <2>2
  <2>6. Negative(y + q)
    BY <1>3, <2>3 DEF Negative
  <2>7. Wrap(2 * (y + q)) = 2 * z + 2 * q
    <3>1. 2 * (y + q) = 2 * x + (2 * z + 2 * q) /\ 2 * z + 2 * q < 2 * x
      BY <2>3, <2>4
    <3>2. QED
      BY <1>3, <3>1 DEF Wrap
  <2>8. QED
    BY <1>2, <1>4, <2>5, <2>6, <2>7 DEF BringsDown
<1>5. CASE rest < p
  <2>1. y + R <= x
    <3>1. (rest + 1) * R <= p * R
      BY <1>5
    <3>2. (rest + 1) * R = y + R
      BY <1>2
    <3>3. QED
      BY <1>1, <3>1, <3>2
  <2>2. (rest - b * p) * (2 * R) = 2 * y
    BY <1>2, <1>5
  <2>3. ~Negative(y + q)
    BY <1>3, <2>1 DEF Negative
  <2>4. Wrap(2 * (y + q)) = 2 * y + 2 * q
    BY <1>3, <2>1 DEF Wrap
  <2>5. QED
    BY <1>2, <1>5, <2>2, <2>3, <2>4 DEF BringsDown
<1>6. QED
  BY <1>4, <1>5

-----------------------------------------------------------------------------
(* While the divider computes, its registers hold a division of the        *)
(* dividend's leading bits.                                                *)

Sign(isSigned, w) == isSigned /\ Negative(w)

Magnitude(isSigned, w) == NegateIf(Sign(isSigned, w), w)

\* With c steps to go: q and a are quotient and remainder of the bits consumed, the Q
\* register holds the rest of the dividend D above q.
Halfway(D, M, c, aReg, qReg) ==
    \E R, q, rest \in Nat :
        /\ 2^c * R = WordModulus /\ q < R /\ rest < 2^c
        /\ aReg < M
        /\ D = (q * M + aReg) * 2^c + rest
        /\ qReg = rest * R + q

Computing(r) ==
    /\ r.divisor # 0
    /\ divider.qNeg = (Sign(r.isSigned, r.dividend) # Sign(r.isSigned, r.divisor))
    /\ divider.rNeg = Sign(r.isSigned, r.dividend)
    /\ divider.mReg = Magnitude(r.isSigned, r.divisor)
    /\ Halfway(Magnitude(r.isSigned, r.dividend), divider.mReg, divider.count,
               divider.aReg, divider.qReg)

-----------------------------------------------------------------------------
(* Magnitudes and signs.                                                   *)

\* Quotient and remainder are unique.
LEMMA DivisionIs ==
    ASSUME NEW D \in Nat, NEW M \in Nat, NEW q \in Nat, NEW a \in Nat, a < M, D = q * M + a
    PROVE  D \div M = q /\ D % M = a
  OBVIOUS

\* The sign of the trial subtraction.
LEMMA TrialSubtraction ==
    ASSUME NEW x \in Nat, NEW M \in Nat, NEW m \in Nat, M <= m, x < 2 * M
    PROVE  /\ x >= M => (x - M) % (2 * m) = x - M /\ x - M < m
           /\ x < M => (x - M) % (2 * m) = x - M + 2 * m /\ x - M + 2 * m >= m
  OBVIOUS

LEMMA MagnitudeIs ==
    ASSUME NEW w \in Word, NEW isSigned \in BOOLEAN
    PROVE  LET v == IF isSigned THEN Signed(w) ELSE w
           IN  /\ Magnitude(isSigned, w) = Abs(v) /\ Magnitude(isSigned, w) \in Word
               /\ v < 0 <=> Sign(isSigned, w)
               /\ Magnitude(isSigned, w) = 0 <=> w = 0
<1>1. w \in Nat /\ w < WordModulus /\ WordModulus \in Nat
  BY WordModulusType DEF Word
<1>2. CASE Sign(isSigned, w)
  <2>1. isSigned /\ 2 * w >= WordModulus /\ w > 0
    BY <1>1, <1>2, WordModulusType DEF Sign, Negative
  <2>2. Wrap(0 - w) = WordModulus - w
    BY <1>1, <2>1 DEF Wrap
  <2>3. QED
    BY <1>1, <1>2, <2>1, <2>2 DEF Magnitude, NegateIf, Signed, Negative, Abs, Word
<1>3. CASE ~Sign(isSigned, w)
  BY <1>1, <1>3 DEF Sign, Magnitude, NegateIf, Signed, Negative, Abs
<1>4. QED
  BY <1>2, <1>3

\* The quotient and remainder of the magnitudes, signed as the request says, are RV32M's.
LEMMA SignedResults ==
    ASSUME NEW r \in Division, r.divisor # 0, NEW q \in Word, NEW a \in Word,
           a < Magnitude(r.isSigned, r.divisor),
           Magnitude(r.isSigned, r.dividend) = q * Magnitude(r.isSigned, r.divisor) + a
    PROVE  /\ NegateIf(Sign(r.isSigned, r.dividend) # Sign(r.isSigned, r.divisor), q) =
                  Quotient(r.isSigned, r.dividend, r.divisor)
           /\ NegateIf(Sign(r.isSigned, r.dividend), a) =
                  Remainder(r.isSigned, r.dividend, r.divisor)
<1> DEFINE D  == Magnitude(r.isSigned, r.dividend)
           M  == Magnitude(r.isSigned, r.divisor)
           sa == IF r.isSigned THEN Signed(r.dividend) ELSE r.dividend
           sb == IF r.isSigned THEN Signed(r.divisor) ELSE r.divisor
<1>1. r.dividend \in Word /\ r.divisor \in Word /\ r.isSigned \in BOOLEAN
  BY DEF Division
<1>2. /\ D = Abs(sa) /\ M = Abs(sb) /\ D \in Nat /\ M \in Nat
      /\ sa < 0 <=> Sign(r.isSigned, r.dividend)
      /\ sb < 0 <=> Sign(r.isSigned, r.divisor)
  BY <1>1, MagnitudeIs, WordIsInt
<1>3. a \in Nat /\ q \in Nat /\ a < M /\ D = q * M + a
  BY WordIsInt
<1> HIDE DEF D, M, sa, sb
<1>4. D \div M = q /\ D % M = a
  BY <1>2, <1>3, DivisionIs
<1>5. Quotient(r.isSigned, r.dividend, r.divisor) =
          Wrap(IF (sa < 0) # (sb < 0) THEN 0 - q ELSE q)
  BY <1>2, <1>4 DEF Quotient, sa, sb
<1>6. Remainder(r.isSigned, r.dividend, r.divisor) = Wrap(IF sa < 0 THEN 0 - a ELSE a)
  BY <1>2, <1>4 DEF Remainder, sa, sb
<1>7. Wrap(q) = q /\ Wrap(a) = a
  BY WrapWord
<1>8. (sa < 0) # (sb < 0) <=> Sign(r.isSigned, r.dividend) # Sign(r.isSigned, r.divisor)
  BY <1>1, <1>2 DEF Sign, Negative
<1>9. QED
  BY <1>2, <1>5, <1>6, <1>7, <1>8 DEF NegateIf

-----------------------------------------------------------------------------
(* One clock of a division.                                                *)

\* An accepted request is answered at once or halfway through nothing.
LEMMA AcceptComputes ==
    ASSUME DividerTypeOK, NEW r \in Division,
           divider' = Accept(r.dividend, r.divisor, r.isSigned)
    PROVE  /\ DividerDone' => /\ divider'.finalQuotient =
                                    Quotient(r.isSigned, r.dividend, r.divisor)
                              /\ divider'.finalRemainder =
                                    Remainder(r.isSigned, r.dividend, r.divisor)
           /\ divider'.state = "COMPUTE" => divider'.count = XLEN /\ Computing(r)'
<1> DEFINE overflow == r.divisor # 0 /\ r.isSigned /\ 2 * r.dividend = WordModulus
                       /\ r.divisor = WordModulus - 1
<1>1. /\ r.dividend \in Word /\ r.divisor \in Word /\ r.isSigned \in BOOLEAN
      /\ divider \in DividerRegisters /\ WordModulus \in Nat /\ WordModulus >= 256
  BY WordModulusType DEF Division, DividerTypeOK
<1>2. CASE r.divisor = 0
  <2>1. /\ divider'.state = "DONE" /\ divider'.finalQuotient = WordModulus - 1
        /\ divider'.finalRemainder = r.dividend
    BY <1>1, <1>2 DEF Accept, DividerRegisters
  <2>2. QED
    BY <1>2, <2>1 DEF Quotient, Remainder
<1>3. CASE overflow
  <2>1. /\ divider'.state = "DONE" /\ divider'.finalQuotient = r.dividend
        /\ divider'.finalRemainder = 0
    BY <1>1, <1>3 DEF Accept, DividerRegisters
  <2>2. Signed(r.dividend) = 0 - r.dividend /\ Signed(r.divisor) = -1
    BY <1>1, <1>3 DEF Signed, Negative, Word
  <2>3. r.dividend \in Nat /\ r.dividend > 0
    BY <1>1, <1>3 DEF Word
  <2>4. Abs(Signed(r.dividend)) = r.dividend /\ Abs(Signed(r.divisor)) = 1
    BY <2>2, <2>3 DEF Abs
  <2>5. r.dividend \div 1 = r.dividend /\ r.dividend % 1 = 0
    BY <2>3
  <2>6. Quotient(r.isSigned, r.dividend, r.divisor) = r.dividend
    BY <1>1, <1>3, <2>2, <2>3, <2>4, <2>5, WrapWord DEF Quotient
  <2>7. Remainder(r.isSigned, r.dividend, r.divisor) = 0
    BY <1>1, <1>3, <2>2, <2>3, <2>4, <2>5 DEF Remainder, Wrap
  <2>8. QED
    BY <2>1, <2>6, <2>7
<1>4. CASE r.divisor # 0 /\ ~overflow
  <2>1. /\ divider'.state = "COMPUTE" /\ divider'.count = XLEN /\ divider'.aReg = 0
        /\ divider'.qNeg = (Sign(r.isSigned, r.dividend) # Sign(r.isSigned, r.divisor))
        /\ divider'.rNeg = Sign(r.isSigned, r.dividend)
        /\ divider'.qReg = Magnitude(r.isSigned, r.dividend)
        /\ divider'.mReg = Magnitude(r.isSigned, r.divisor)
    BY <1>1, <1>4 DEF Accept, DividerRegisters, Sign, Magnitude
  <2>2. /\ Magnitude(r.isSigned, r.dividend) \in Word
        /\ Magnitude(r.isSigned, r.divisor) \in Word
        /\ Magnitude(r.isSigned, r.divisor) # 0
    BY <1>1, <1>4, MagnitudeIs
  <2>3. Halfway(Magnitude(r.isSigned, r.dividend), Magnitude(r.isSigned, r.divisor), XLEN, 0,
                Magnitude(r.isSigned, r.dividend))
    <3> DEFINE D == Magnitude(r.isSigned, r.dividend)
               M == Magnitude(r.isSigned, r.divisor)
    <3>1. D \in Nat /\ M \in Nat /\ 0 < M /\ D < WordModulus
      BY <1>1, <2>2 DEF Word
    <3> HIDE DEF D, M
    <3>2. 2^XLEN = WordModulus
      BY WidthAssumption
    <3>3. 2^XLEN * 1 = WordModulus /\ 0 < 1 /\ D < 2^XLEN /\ D = (0 * M + 0) * 2^XLEN + D
          /\ D = D * 1 + 0
      BY <1>1, <3>1, <3>2
    <3>4. Halfway(D, M, XLEN, 0, D)
      BY <3>1, <3>3 DEF Halfway
    <3>5. QED
      BY <3>4 DEF D, M
  <2>4. Computing(r)'
    BY <1>4, <2>1, <2>3 DEF Computing
  <2>5. QED
    BY <2>1, <2>4 DEF DividerDone
<1>5. QED
  BY <1>2, <1>3, <1>4 DEF DividerDone

\* One more bit: the registers hold the division of one more leading bit of the dividend,
\* and after the last bit of all of it.
LEMMA ComputeDivides ==
    ASSUME DividerTypeOK, Counting, divider.state = "COMPUTE", NEW r \in Division, Computing(r),
           divider' = Compute
    PROVE  /\ divider.count # 1 =>
                 /\ divider'.state = "COMPUTE" /\ divider'.count = divider.count - 1
                 /\ Computing(r)'
           /\ divider.count = 1 =>
                 /\ DividerDone'
                 /\ divider'.finalQuotient = Quotient(r.isSigned, r.dividend, r.divisor)
                 /\ divider'.finalRemainder = Remainder(r.isSigned, r.dividend, r.divisor)
<1> DEFINE D  == Magnitude(r.isSigned, r.dividend)
           shiftedA == 2 * (divider.aReg % WordModulus) + AsWord(Negative(divider.qReg))
           subA     == (shiftedA - divider.mReg) % WideModulus
           isNeg    == subA >= WordModulus
           newA     == IF isNeg THEN shiftedA ELSE subA
           newQ     == Wrap(2 * divider.qReg) + AsWord(~isNeg)
<1>1. /\ r.dividend \in Word /\ r.divisor \in Word /\ r.isSigned \in BOOLEAN
      /\ WordModulus \in Nat /\ WordModulus >= 256
      /\ divider \in DividerRegisters /\ divider.count \in 1 .. XLEN
      /\ divider.aReg \in Nat /\ divider.qReg \in Nat
  BY WordModulusType
  DEF Division, DividerTypeOK, DividerRegisters, Counting, Word, WideWord
<1>2. PICK c \in Nat, M \in Nat, a \in Nat : c = divider.count /\ M = divider.mReg /\ a = divider.aReg
  BY <1>1 DEF DividerRegisters, WideWord
<1>3. D \in Nat /\ M = Magnitude(r.isSigned, r.divisor) /\ M < WordModulus /\ M # 0
  BY <1>1, <1>2, MagnitudeIs DEF Computing, Word
<1>4. PICK R \in Nat, q \in Nat, rest \in Nat :
         /\ 2^c * R = WordModulus /\ q < R /\ rest < 2^c /\ a < M
         /\ D = (q * M + a) * 2^c + rest /\ divider.qReg = rest * R + q
  BY <1>2 DEF Computing, Halfway
<1> HIDE DEF D
<1>5. PICK p \in Nat : p = 2^(c - 1) /\ 2^c = 2 * p
  <2>1. c - 1 \in 0 .. (XLEN - 1) /\ (c - 1) + 1 = c
    BY <1>1, <1>2, WidthAssumption
  <2>2. QED
    BY <2>1, PowerAssumption
<1>6. PICK b \in {0, 1} : b = IF rest >= p THEN 1 ELSE 0
  OBVIOUS
<1>7. PICK s \in {0, 1} : s = IF 2 * a + b >= M THEN 1 ELSE 0
  OBVIOUS
<1>8. /\ rest - b * p \in Nat /\ rest - b * p < p
      /\ 2 * q + s \in Nat /\ 2 * q + s < 2 * R
      /\ 2 * a + b - s * M \in Nat /\ 2 * a + b - s * M < M
      /\ D = ((2 * q + s) * M + (2 * a + b - s * M)) * p + (rest - b * p)
  BY <1>4, <1>5, <1>6, <1>7, OneStep
<1>9. /\ Negative(divider.qReg) <=> b = 1
      /\ Wrap(2 * divider.qReg) = (rest - b * p) * (2 * R) + 2 * q
  <2>1. WordModulus = 2 * p * R /\ rest < 2 * p
    BY <1>4, <1>5
  <2>2. q < R /\ divider.qReg = rest * R + q
    BY <1>4
  <2>3. BringsDown(divider.qReg, p, R, q, rest, b)
    BY <1>1, <1>6, <2>1, <2>2, QStep
  <2>4. QED
    BY <2>3 DEF BringsDown
<1>10. shiftedA = 2 * a + b
  <2>1. a % WordModulus = a
    BY <1>1, <1>3, <1>4
  <2>2. AsWord(Negative(divider.qReg)) = b
    BY <1>6, <1>9 DEF AsWord
  <2>3. QED
    BY <1>2, <2>1, <2>2
<1> HIDE DEF shiftedA
<1> HIDE DEF shiftedA
<1>11. newA = 2 * a + b - s * M /\ AsWord(~isNeg) = s
  <2>1. PICK x \in Nat : x = 2 * a + b /\ x < 2 * M
    BY <1>4, <1>6
  <2>2. shiftedA = x /\ M <= WordModulus
    BY <1>1, <1>3, <1>10, <2>1
  <2>3. /\ x >= M => subA = x - M /\ x - M < WordModulus
        /\ x < M => subA = x - M + 2 * WordModulus /\ subA >= WordModulus
    <3>1. /\ x >= M => /\ (x - M) % (2 * WordModulus) = x - M
                       /\ x - M < WordModulus
          /\ x < M => /\ (x - M) % (2 * WordModulus) = x - M + 2 * WordModulus
                      /\ x - M + 2 * WordModulus >= WordModulus
      BY <1>1, <2>1, <2>2, TrialSubtraction
    <3>2. subA = (x - M) % (2 * WordModulus)
      BY <1>2, <2>2 DEF WideModulus
    <3>3. QED
      BY <3>1, <3>2
  <2>4. CASE x >= M
    <3>1. s = 1 /\ newA = x - M /\ ~isNeg
      BY <1>1, <1>7, <2>1, <2>3, <2>4
    <3>2. QED
      BY <2>1, <3>1 DEF AsWord
  <2>5. CASE x < M
    <3>1. s = 0 /\ newA = x /\ isNeg
      BY <1>7, <2>1, <2>2, <2>3, <2>5
    <3>2. QED
      BY <2>1, <3>1 DEF AsWord
  <2>6. QED
    BY <2>1, <2>4, <2>5
<1>12. newQ = (rest - b * p) * (2 * R) + (2 * q + s)
  BY <1>6, <1>7, <1>8, <1>9, <1>11
<1>13. Halfway(D, M, c - 1, newA, newQ)
  <2>1. 2^(c - 1) * (2 * R) = WordModulus
    BY <1>4, <1>5
  <2>2. 2 * R \in Nat
    OBVIOUS
  <2> HIDE DEF newA, newQ
  <2>3. QED
    BY <1>5, <1>8, <1>11, <1>12, <2>1, <2>2 DEF Halfway
<1>14. /\ divider'.qNeg = divider.qNeg /\ divider'.rNeg = divider.rNeg
       /\ divider'.mReg = divider.mReg /\ divider'.count = c - 1
       /\ divider'.aReg = newA /\ divider'.qReg = newQ
       /\ divider'.state = IF c = 1 THEN "DONE" ELSE "COMPUTE"
       /\ c = 1 => /\ divider'.finalQuotient = NegateIf(divider.qNeg, newQ)
                   /\ divider'.finalRemainder = NegateIf(divider.rNeg, Wrap(newA))
  <2> DEFINE stepped == [divider EXCEPT !.aReg = newA, !.qReg = newQ, !.count = @ - 1]
             final   == [stepped EXCEPT !.state = "DONE",
                                 !.finalQuotient = NegateIf(divider.qNeg, newQ),
                                 !.finalRemainder = NegateIf(divider.rNeg, Wrap(newA))]
  <2>1. divider' = IF divider.count = 1 THEN final ELSE stepped
    BY DEF Compute, shiftedA
  <2> HIDE DEF newA, newQ
  <2>2. QED
    BY <1>1, <1>2, <2>1 DEF DividerRegisters
<1> HIDE DEF newA, newQ
<1>15. CASE c # 1
  <2>1. Computing(r)'
    BY <1>2, <1>3, <1>13, <1>14 DEF Computing, D
  <2>2. QED
    BY <1>2, <1>14, <1>15, <2>1
<1>16. CASE c = 1
  <2>1. p = 1
    BY <1>5, <1>16
  <2>2. newQ = 2 * q + s /\ D = newQ * M + newA /\ newA \in Nat /\ newA < M
    BY <1>8, <1>11, <1>12, <2>1
  <2>3. 2 * R = WordModulus
    BY <1>4, <1>5, <2>1
  <2>4. newQ \in Word /\ newA \in Word /\ Wrap(newA) = newA
    BY <1>1, <1>3, <1>8, <2>2, <2>3, WrapWord DEF Word
  <2>5. /\ NegateIf(divider.qNeg, newQ) = Quotient(r.isSigned, r.dividend, r.divisor)
        /\ NegateIf(divider.rNeg, newA) = Remainder(r.isSigned, r.dividend, r.divisor)
    BY <1>3, <2>2, <2>4, SignedResults DEF Computing, D
  <2>6. QED
    BY <1>2, <1>14, <1>16, <2>4, <2>5 DEF DividerDone
<1>17. QED
  BY <1>2, <1>15, <1>16

-----------------------------------------------------------------------------
(* Instructions.                                                           *)

LEMMA AluFnType == \A i \in Instruction : AluFn(i) \in AluFns
  BY DEF AluFn, AluFns, LegalFns, ImmAluFns, LogicFns, MulFns, DivFns, Instruction

LEMMA AluResultType ==
    ASSUME NEW i \in Instruction, NEW pc \in Word, NEW a \in Word, NEW b \in Word
    PROVE  AluResult(i, pc, a, b) \in Word
<1>1. i.imm \in Word
  BY DEF Instruction
<1>2. AluOperandA(i, pc, a) \in Word
  BY SmallWord DEF AluOperandA
<1>3. AluOperandB(i, b) \in Word
  BY <1>1, SmallWord DEF AluOperandB
<1>4. QED
  BY <1>2, <1>3, AluFnType, AluType DEF AluResult

LEMMA TargetAddressType ==
    ASSUME NEW i \in Instruction, NEW pc \in Word, NEW a \in Word
    PROVE  TargetAddress(i, pc, a) \in Word
<1>1. i.imm \in Int /\ pc \in Int /\ a \in Int
  BY WordIsInt DEF Instruction
<1>2. Wrap(pc + i.imm) \in Word /\ Wrap(a + i.imm) \in Word
  BY <1>1, WrapType
<1>3. \A t \in Word : t - (t % 2) \in Word
  BY WordModulusType DEF Word
<1>4. QED
  BY <1>2, <1>3 DEF TargetAddress

\* The program's filler is an instruction.
LEMMA NopType == NOP \in Instruction
<1>1. "I" \in Class /\ "ADD" \in Fn
  BY DEF Class, Fn, LegalFns, ImmAluFns
<1>2. 0 \in Reg /\ 0 \in Word
  BY RegisterAssumption, SmallWord DEF Reg
<1>3. QED
  BY <1>1, <1>2 DEF NOP, Instruction

LEMMA CapFieldIndex == \A i \in Instruction : CapRs1(i) \in Cap /\ CapRd(i) \in Cap
  BY RegisterAssumption DEF CapRs1, CapRd, Cap, Instruction, Reg

-----------------------------------------------------------------------------
(* Data memory.                                                            *)

\* The contents of data memory.
Memory == [0 .. (RamSize - 1) -> Byte]

\* Every lane of a word is a byte.
LEMMA LaneType ==
    ASSUME NEW w \in Word, NEW k
    PROVE  Lane(w, k) \in Byte
<1> DEFINE B == ByteModulus
           C == B * B
           D == B * B * B
<1>1. B \in Nat /\ B > 0 /\ w \in Nat
  BY WordModulusType, WordIsInt
<1>2. C \in Nat /\ C > 0
  BY <1>1
<1>3. D \in Nat /\ D > 0
  BY <1>1, <1>2
<1>4. \A n \in Nat : n % B \in Byte
  BY <1>1 DEF Byte
<1>5. w \div B \in Nat /\ w \div C \in Nat
  <2> HIDE DEF B, C
  <2> QED BY <1>1, <1>2
<1>6. w \div D \in Byte
  <2>1. w < D * B
    BY <1>1, WordModulusType DEF Word, WordModulus
  <2> HIDE DEF D
  <2>2. w \div D \in Nat /\ w \div D < B
    BY <1>1, <1>3, <2>1
  <2>3. QED
    BY <1>1, <2>2 DEF Byte
<1>7. QED
  BY <1>1, <1>4, <1>5, <1>6 DEF Lane

\* A store leaves data memory a memory.
LEMMA StoreValueType ==
    ASSUME NEW m \in Memory, NEW i, NEW address, NEW w \in Word
    PROVE  StoreValue(m, i, address, w) \in Memory
  BY LaneType DEF StoreValue, Memory

\* An aligned access that starts in data memory ends in it.
LEMMA AlignedInBounds ==
    ASSUME NEW i, NEW address \in Word, InBounds(address), ~Misaligned(i, address)
    PROVE  /\ AccessSize(i) \in {1, 2, 4}
           /\ address + AccessSize(i) - 1 < RamSize
<1>1. address \in Nat
  BY WordIsInt
<1>2. AccessSize(i) \in {1, 2, 4}
  BY DEF AccessSize
<1>3. QED
  BY <1>1, <1>2, AddressMapAssumption DEF InBounds, Misaligned

\* Two bytes fit in half a word's values, four in a word.
LEMMA BytesFit ==
    /\ \A a, b \in Byte : a + ByteModulus * b \in 0 .. (ByteModulus * ByteModulus - 1)
    /\ \A a, b, c, d \in Byte :
          a + ByteModulus * (b + ByteModulus * (c + ByteModulus * d)) \in Word
<1>1. ByteModulus \in Nat /\ ByteModulus >= 4
  BY WordModulusType
<1>2. ASSUME NEW n \in Nat, NEW q \in 0 .. (n - 1), NEW a \in Byte
      PROVE  /\ a + ByteModulus * q \in 0 .. (ByteModulus * n - 1)
             /\ ByteModulus * n \in Nat
  <2>1. q \in Nat /\ q <= n - 1 /\ a \in Nat /\ a <= ByteModulus - 1
    BY <1>1 DEF Byte
  <2>2. ByteModulus * q \in Nat /\ ByteModulus * q <= ByteModulus * (n - 1)
    BY <1>1, <2>1
  <2>3. ByteModulus * (n - 1) = ByteModulus * n - ByteModulus
    BY <1>1
  <2>4. ByteModulus * n \in Nat
    BY <1>1
  <2>5. QED
    BY <1>1, <2>1, <2>2, <2>3, <2>4
<1>3. ASSUME NEW a \in Byte, NEW b \in Byte
      PROVE  a + ByteModulus * b \in 0 .. (ByteModulus * ByteModulus - 1)
  BY <1>1, <1>2 DEF Byte
<1>4. ASSUME NEW a \in Byte, NEW b \in Byte, NEW c \in Byte, NEW d \in Byte
      PROVE  a + ByteModulus * (b + ByteModulus * (c + ByteModulus * d)) \in Word
  <2>1. c + ByteModulus * d \in 0 .. (ByteModulus * ByteModulus - 1)
        /\ ByteModulus * ByteModulus \in Nat
    BY <1>1, <1>3
  <2>2. /\ b + ByteModulus * (c + ByteModulus * d)
               \in 0 .. (ByteModulus * (ByteModulus * ByteModulus) - 1)
        /\ ByteModulus * (ByteModulus * ByteModulus) \in Nat
    BY <2>1, <1>2
  <2>3. a + ByteModulus * (b + ByteModulus * (c + ByteModulus * d))
            \in 0 .. (ByteModulus * (ByteModulus * (ByteModulus * ByteModulus)) - 1)
    BY <2>2, <1>2
  <2>4. ByteModulus * (ByteModulus * (ByteModulus * ByteModulus)) = WordModulus
    BY <1>1 DEF WordModulus
  <2>5. QED
    BY <2>3, <2>4 DEF Word
<1>5. QED
  BY <1>3, <1>4

\* A load returns a word.
LEMMA LoadValueType ==
    ASSUME NEW m \in Memory, NEW i, NEW address \in Word,
           InBounds(address), ~Misaligned(i, address)
    PROVE  LoadValue(m, i, address) \in Word
<1> DEFINE n == AccessSize(i)
           raw == LoadUnsigned(m, address, n)
           half == ByteModulus * ByteModulus
<1>1. n \in {1, 2, 4} /\ address + n - 1 < RamSize /\ address \in Nat
  BY AlignedInBounds, WordIsInt
<1>2. ByteModulus \in Nat /\ WordModulus \in Nat /\ half \in Nat
  BY WordModulusType
<1>3. \A k \in 0 .. (n - 1) : m[address + k] \in Byte
  BY <1>1, AddressMapAssumption DEF Memory
<1>4. m[address] \in Byte
  BY <1>1, <1>3
<1>5. half <= WordModulus /\ ByteModulus <= WordModulus
  <2>1. half >= ByteModulus
    BY WordModulusType
  <2>2. half * ByteModulus >= half
    BY <1>2, WordModulusType
  <2>3. half * ByteModulus \in Nat /\ half * ByteModulus * ByteModulus >= half * ByteModulus
    BY <1>2, WordModulusType
  <2>4. QED
    BY <1>2, <2>1, <2>2, <2>3 DEF WordModulus
<1>6. n = 1 => raw \in Byte
  BY <1>4 DEF LoadUnsigned
<1>7. n = 2 => raw \in 0 .. (half - 1)
  <2>1. n = 2 => m[address + 1] \in Byte
    BY <1>3
  <2>2. QED
    BY <1>4, <2>1, BytesFit DEF LoadUnsigned
<1>8. n = 4 => raw \in Word
  <2>1. n = 4 => m[address + 1] \in Byte /\ m[address + 2] \in Byte /\ m[address + 3] \in Byte
    BY <1>3
  <2>2. QED
    BY <1>4, <2>1, BytesFit DEF LoadUnsigned
<1>9. raw \in Word
  BY <1>1, <1>2, <1>5, <1>6, <1>7, <1>8 DEF Byte, Word
<1>10. SignExtend(raw, ByteModulus) \in Word /\ SignExtend(raw, half) \in Word
  <2>1. raw - ByteModulus \in Int /\ raw - half \in Int
    BY <1>2, <1>9, WordIsInt
  <2>2. QED
    BY <1>9, <2>1, WrapType DEF SignExtend
<1>11. QED
  BY <1>9, <1>10 DEF LoadValue

-----------------------------------------------------------------------------
(* Capabilities.                                                           *)

LEMMA NullCapabilityType == NullCapability \in Capability
  BY SmallWord DEF NullCapability, Capability

\* The roots are capabilities, and end within the address space.
LEMMA RootType ==
    /\ RamRoot \in Capability /\ Top(RamRoot) < WordModulus
    /\ MmioRoot \in Capability /\ Top(MmioRoot) < WordModulus
<1>1. RamSize \in Word /\ MmioBase \in Word /\ MmioSize \in Word
  BY AddressMapAssumption, WordModulusType DEF Word
<1>2. 0 \in Word /\ {PermRead, PermWrite} \in SUBSET PermBits
  BY SmallWord DEF PermBits
<1>3. QED
  BY <1>1, <1>2, AddressMapAssumption, WordModulusType
  DEF RamRoot, MmioRoot, Capability, Top

LEMMA CapResetValueType == \A c : CapResetValue(c) \in Capability
  BY NullCapabilityType, RootType DEF CapResetValue

LEMMA CursorType == \A cap \in Capability : Cursor(cap) \in Word
<1> SUFFICES ASSUME NEW cap \in Capability PROVE Cursor(cap) \in Word
  OBVIOUS
<1>1. cap.base + cap.offset \in Int
  BY WordIsInt DEF Capability
<1>2. QED
  BY <1>1, WrapType DEF Cursor

LEMMA CapFieldType ==
    ASSUME NEW fn, NEW cap \in Capability
    PROVE  CapField(fn, cap) \in Word
<1>1. AsWord(cap.tag) \in Word
  BY SmallWord DEF AsWord
<1>2. WordOfPerms(cap.perms) \in 0 .. 255
  BY DEF WordOfPerms, AsWord
<1>3. QED
  BY <1>1, <1>2, SmallWord DEF CapField, Capability

LEMMA NoDerivationType == NoDerivation \in DerivationSet
  BY NullCapabilityType, SmallWord
  DEF NoDerivation, Derivation, DerivationSet, NoViolation, Reason

LEMMA DerivedType == \A cap \in Capability : Derived(cap) \in DerivationSet
  BY SmallWord DEF Derived, Derivation, DerivationSet, NoViolation, Reason

LEMMA RefusedType == \A r \in Reason, a \in Word : Refused(r, a) \in DerivationSet
  BY NullCapabilityType DEF Refused, Derivation, DerivationSet, Violated

\* What the three derivations produce is a derivation record.
LEMMA SetBoundsType ==
    ASSUME NEW cap \in Capability, NEW len \in Word
    PROVE  SetBounds(cap, len) \in DerivationSet
<1>1. Cursor(cap) \in Word /\ 0 \in Word
  BY CursorType, SmallWord
<1>2. [cap EXCEPT !.base = Cursor(cap), !.length = len, !.offset = 0] \in Capability
  BY <1>1 DEF Capability
<1>3. Monotonicity \in Reason /\ InvalidCapability \in Reason
  BY DEF Monotonicity, InvalidCapability, Reason
<1>4. QED
  BY <1>1, <1>2, <1>3, DerivedType, RefusedType DEF SetBounds

LEMMA AndPermType ==
    ASSUME NEW cap \in Capability, NEW mask \in Word
    PROVE  AndPerm(cap, mask) \in DerivationSet
<1>1. [cap EXCEPT !.perms = @ \intersect PermsOfWord(mask)] \in Capability
  BY DEF Capability
<1>2. InvalidCapability \in Reason /\ cap.base \in Word
  BY DEF InvalidCapability, Reason, Capability
<1>3. QED
  BY <1>1, <1>2, DerivedType, RefusedType DEF AndPerm

LEMMA IncOffsetType ==
    ASSUME NEW cap \in Capability, NEW delta \in Word
    PROVE  IncOffset(cap, delta) \in DerivationSet
<1> DEFINE newOffset == cap.offset + Signed(delta)
<1>1. newOffset \in Int /\ cap.length \in Word
  BY SignedType, WordIsInt DEF Capability
<1>2. 0 <= newOffset /\ newOffset <= cap.length => newOffset \in Word
  BY <1>1, WordModulusType DEF Word
<1>3. ASSUME newOffset \in Word
      PROVE  [cap EXCEPT !.offset = newOffset] \in Capability
  BY <1>3 DEF Capability
<1>4. BoundsViolation \in Reason /\ InvalidCapability \in Reason
  BY DEF BoundsViolation, InvalidCapability, Reason
<1>5. QED
  BY <1>2, <1>3, <1>4, CursorType, DerivedType, RefusedType DEF IncOffset

LEMMA DeriveType ==
    ASSUME NEW i \in Instruction, NEW cap \in Capability, NEW w \in Word
    PROVE  Derive(i, cap, w) \in DerivationSet
  BY SetBoundsType, AndPermType, IncOffsetType, NullCapabilityType, DerivedType,
     NoDerivationType
  DEF Derive

\* The checker's verdict is a reason.
LEMMA CheckReasonType ==
    ASSUME NEW cap, NEW address, NEW size, NEW isWrite
    PROVE  CheckReason(cap, address, size, isWrite) \in Reason
  BY DEF CheckReason, InvalidCapability, BoundsViolation, ReadPermission,
         WritePermission, Reason

-----------------------------------------------------------------------------
(* The system block.                                                       *)

\* What the pipeline drives the block with.
BusRequest == [read : BOOLEAN, write : BOOLEAN, address : Word, data : Word, width : {1, 2, 4}]

CountedEvents == [retire : BOOLEAN, commitPc : Word, branchTaken : BOOLEAN,
                  loadUseStall : BOOLEAN, dividerBusy : BOOLEAN, pipelineStall : BOOLEAN]

RetiredOperation == [valid : BOOLEAN, claActive : BOOLEAN, multiplierActive : BOOLEAN,
                     result : Word]

\* Counting an event keeps a counter a word.
LEMMA CountType == \A n \in Word, c \in BOOLEAN : Wrap(n + AsWord(c)) \in Word
<1> SUFFICES ASSUME NEW n \in Word, NEW c \in BOOLEAN PROVE Wrap(n + AsWord(c)) \in Word
  OBVIOUS
<1>1. n + AsWord(c) \in Int
  BY WordIsInt DEF AsWord
<1>2. QED
  BY <1>1, WrapType

LEMMA WordAlignedType == \A w \in Word : WordAligned(w) \in Word
  BY WordModulusType DEF WordAligned, Word

LEMMA InfoWordType == \A a \in AccessType, r \in Reason : 16 * a + r \in Word
  BY WordModulusType DEF AccessType, Reason, Word

LEMMA SystemMmioInitType == SystemMmioInit => SystemMmioTypeOK
<1>1. 0 \in Word /\ 0 \in AccessType /\ 0 \in Reason /\ TrapVectorReset \in Word
  BY SmallWord, RegisterMapAssumption DEF AccessType, Reason
<1>2. QED
  BY <1>1 DEF SystemMmioInit, SystemMmioTypeOK

\* A load of a register returns a word.
LEMMA RegisterValueType ==
    ASSUME SystemMmioTypeOK, NEW name
    PROVE  RegisterValue(name) \in Word
<1>1. 0 \in Word /\ 1 \in Word
  BY SmallWord
<1>2. /\ telemetry.claSwitching \in Word /\ telemetry.multiplierThermal \in Word
      /\ software.behaviorClass \in Word /\ software.schedHint \in Word
      /\ software.currentContext \in Word
  BY DEF SystemMmioTypeOK
<1>3. Wrap(telemetry.claSwitching + telemetry.multiplierThermal) \in Word
  BY <1>2, WordIsInt, WrapType
<1>4. /\ perf.retired \in Word /\ perf.branchTaken \in Word /\ perf.loadUseStall \in Word
      /\ perf.divBusy \in Word /\ perf.pipelineStall \in Word /\ perf.lastCommitPc \in Word
  BY DEF SystemMmioTypeOK
<1>5. /\ securityLog.pc \in Word /\ securityLog.address \in Word
      /\ InfoWord(securityLog) \in Word /\ securityLog.context \in Word
      /\ AsWord(securityLog.pending) \in Word
  BY <1>1, InfoWordType DEF SystemMmioTypeOK, InfoWord, AsWord
<1>6. /\ trap.vector \in Word /\ trap.epc \in Word /\ InfoWord(trap) \in Word
      /\ trap.address \in Word /\ trap.context \in Word /\ AsWord(trap.enable) \in Word
  BY <1>1, InfoWordType DEF SystemMmioTypeOK, InfoWord, AsWord
<1>7. AsWord(trap.active) + 2 * AsWord(trap.doubleFault) \in Word
  BY SmallWord DEF AsWord
<1>8. QED
  BY <1>1, <1>2, <1>3, <1>4, <1>5, <1>6, <1>7 DEF RegisterValue

LEMMA ReadDataType ==
    ASSUME SystemMmioTypeOK, NEW request
    PROVE  ReadData(request) \in Word
  BY RegisterValueType, SmallWord DEF ReadData

\* A clock edge keeps every register of the block in shape.
LEMMA SystemMmioTickType ==
    ASSUME SystemMmioTypeOK,
           NEW request \in BusRequest, NEW event \in SecurityEvent,
           NEW counted \in CountedEvents, NEW operation \in RetiredOperation,
           SystemMmioTick(request, event, counted, operation)
    PROVE  SystemMmioTypeOK'
<1>1. software' \in [behaviorClass : Word, schedHint : Word, currentContext : Word]
  BY DEF SystemMmioTypeOK, SystemMmioTick, SoftwareTick, BusRequest
<1>2. perf' \in [retired : Word, branchTaken : Word, loadUseStall : Word,
                 divBusy : Word, pipelineStall : Word, lastCommitPc : Word]
  BY CountType DEF SystemMmioTypeOK, SystemMmioTick, PerfTick, CountedEvents
<1>3. securityLog' \in [pending : BOOLEAN, pc : Word, address : Word,
                        accessType : AccessType, reason : Reason, context : Word]
  <2>1. LogEntry(event) \in [pending : BOOLEAN, pc : Word, address : Word,
                             accessType : AccessType, reason : Reason, context : Word]
    BY DEF LogEntry, SecurityEvent
  <2>2. ClearsLog(request) \in BOOLEAN
    BY DEF ClearsLog, Stores, Odd, BusRequest
  <2>3. QED
    BY <2>1, <2>2 DEF SystemMmioTypeOK, SystemMmioTick, SecurityLogTick
<1>4. trap' \in [enable : BOOLEAN, active : BOOLEAN, doubleFault : BOOLEAN, vector : Word,
                 epc : Word, accessType : AccessType, reason : Reason,
                 address : Word, context : Word]
  <2>1. /\ NextDoubleFault(request, event) \in BOOLEAN
        /\ (PreciseTrap(event) \/ (trap.active /\ ~TrapReturn(request))) \in BOOLEAN
    BY DEF NextDoubleFault, PreciseTrap, NestedFault
  <2>2. NextEpc(request, event) \in Word
    BY WordAlignedType DEF NextEpc, SystemMmioTypeOK, BusRequest, SecurityEvent
  <2>3. WordAligned(request.data) \in Word /\ Odd(request.data) \in BOOLEAN
    BY WordAlignedType DEF BusRequest, Odd
  <2>4. QED
    BY <2>1, <2>2, <2>3
    DEF SystemMmioTypeOK, SystemMmioTick, TrapTick, SecurityEvent
<1>5. telemetry' \in [claSwitching : Word, multiplierThermal : Word, previousResult : Word]
  <2>1. \A n \in Word, k \in Nat : Wrap(n + k) \in Word
    BY WordIsInt, WrapType
  <2>2. HammingDistance(operation.result, telemetry.previousResult) \in Nat
    BY HammingDistanceType
  <2>3. QED
    BY <2>1, <2>2 DEF SystemMmioTypeOK, SystemMmioTick, TelemetryTick, RetiredOperation
<1>6. QED
  BY <1>1, <1>2, <1>3, <1>4, <1>5 DEF SystemMmioTypeOK
=============================================================================
