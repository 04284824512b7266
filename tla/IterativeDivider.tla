-------------------------- MODULE IterativeDivider --------------------------
(***************************************************************************)
(* The restoring divider behind DIV, DIVU, REM and REMU, one clock per     *)
(* step.  A request is accepted in IDLE only; division by zero and the     *)
(* signed overflow finish at once, everything else takes XLEN compute      *)
(* steps; the result registers keep the last result until the next one.    *)
(***************************************************************************)
EXTENDS An32Word

\* Arithmetic the provers have no rule for.
ASSUME PowerAssumption == \A k \in 0 .. (XLEN - 1) : 2^k \in Nat /\ 2^(k + 1) = 2 * 2^k

VARIABLE divider

\* A and M have one bit more than a word, for the sign of the trial subtraction.
WideModulus == 2 * WordModulus
WideWord    == 0 .. (WideModulus - 1)

DividerRegisters ==
    [state : {"IDLE", "COMPUTE", "DONE"}, count : 0 .. XLEN,
     aReg : WideWord, qReg : Word, mReg : WideWord, qNeg : BOOLEAN, rNeg : BOOLEAN,
     finalQuotient : Word, finalRemainder : Word]

DividerTypeOK == divider \in DividerRegisters

DividerInit ==
    divider = [state |-> "IDLE", count |-> 0, aReg |-> 0, qReg |-> 0, mReg |-> 0,
               qNeg |-> FALSE, rNeg |-> FALSE, finalQuotient |-> 0, finalRemainder |-> 0]

DividerBusy == divider.state # "IDLE"
DividerDone == divider.state = "DONE"

\* Two's complement when the condition holds.
NegateIf(condition, w) == IF condition THEN Wrap(0 - w) ELSE w

\* Fault: the quotient takes the sign of the dividend alone.
AcceptDividendSign(dividend, divisor, isSigned) ==
    LET dividendSign == isSigned /\ Negative(dividend)
        divisorSign  == isSigned /\ Negative(divisor)
    IN  IF divisor = 0
        THEN [divider EXCEPT !.state = "DONE", !.finalQuotient = WordModulus - 1,
                             !.finalRemainder = dividend]
        ELSE [divider EXCEPT !.state = "COMPUTE", !.count = XLEN, !.aReg = 0,
                             !.qNeg = dividendSign, !.rNeg = dividendSign,
                             !.qReg = NegateIf(dividendSign, dividend),
                             !.mReg = NegateIf(divisorSign, divisor)]

\* The clock edge that accepts a request.
Accept(dividend, divisor, isSigned) ==
    LET dividendSign == isSigned /\ Negative(dividend)
        divisorSign  == isSigned /\ Negative(divisor)
        signed       == [divider EXCEPT !.qNeg = dividendSign # divisorSign,
                                        !.rNeg = dividendSign]
    IN  CASE divisor = 0 ->
               [signed EXCEPT !.state = "DONE", !.finalQuotient = WordModulus - 1,
                              !.finalRemainder = dividend]
          [] divisor # 0 /\ isSigned /\ 2 * dividend = WordModulus
                         /\ divisor = WordModulus - 1 ->
               [signed EXCEPT !.state = "DONE", !.finalQuotient = dividend,
                              !.finalRemainder = 0]
          [] OTHER ->
               [signed EXCEPT !.state = "COMPUTE", !.count = XLEN, !.aReg = 0,
                              !.qReg = NegateIf(dividendSign, dividend),
                              !.mReg = NegateIf(divisorSign, divisor)]

\* One shift-subtract-restore step; the last one also signs the results.
Compute ==
    LET shiftedA == 2 * (divider.aReg % WordModulus) + AsWord(Negative(divider.qReg))
        subA     == (shiftedA - divider.mReg) % WideModulus
        isNeg    == subA >= WordModulus
        newA     == IF isNeg THEN shiftedA ELSE subA
        newQ     == Wrap(2 * divider.qReg) + AsWord(~isNeg)
        stepped  == [divider EXCEPT !.aReg = newA, !.qReg = newQ, !.count = @ - 1]
    IN  IF divider.count = 1
        THEN [stepped EXCEPT !.state = "DONE",
                             !.finalQuotient = NegateIf(divider.qNeg, newQ),
                             !.finalRemainder = NegateIf(divider.rNeg, Wrap(newA))]
        ELSE stepped

\* Fault: a kill is ignored.
DividerTickDeafToKill(start, kill, dividend, divisor, isSigned) ==
    divider' =
        CASE divider.state = "IDLE" ->
               IF start THEN Accept(dividend, divisor, isSigned) ELSE divider
          [] divider.state = "COMPUTE" -> Compute
          [] OTHER -> [divider EXCEPT !.state = "IDLE"]

\* Fault: DONE is not left by itself.
DividerTickStaysDone(start, kill, dividend, divisor, isSigned) ==
    divider' =
        CASE kill -> [divider EXCEPT !.state = "IDLE", !.count = 0]
          [] ~kill /\ divider.state = "IDLE" ->
               IF start THEN Accept(dividend, divisor, isSigned) ELSE divider
          [] ~kill /\ divider.state = "COMPUTE" -> Compute
          [] OTHER -> divider

DividerTick(start, kill, dividend, divisor, isSigned) ==
    divider' =
        CASE kill -> [divider EXCEPT !.state = "IDLE", !.count = 0]
          [] ~kill /\ divider.state = "IDLE" ->
               IF start THEN Accept(dividend, divisor, isSigned) ELSE divider
          [] ~kill /\ divider.state = "COMPUTE" -> Compute
          [] OTHER -> [divider EXCEPT !.state = "IDLE"]
=============================================================================
