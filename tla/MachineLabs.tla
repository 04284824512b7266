---------------------------- MODULE MachineLabs -----------------------------
(***************************************************************************)
(* The labs of the Objective 2 workbench with a state of their own: the    *)
(* divider stepped by hand, the Booth groups of two sliders, and the race  *)
(* of the two cores, which asks the backend and waits.  Numbers of         *)
(* JavaScript are integers; the word is Width bits, 32 in the design.      *)
(***************************************************************************)
EXTENDS ObjectiveOneHardware, LabPage

CONSTANTS
    Typed,              \* numbers typed into the fields of the divider
    Slider,             \* positions of the sliders
    Scenario,           \* the programs both cores run, in the order of the list
    Measured            \* of each: instructions, stalls, load-use stalls, taken branches

ASSUME MachineLabsAssumption ==
    /\ Typed \subseteq Int /\ Slider \subseteq -128 .. 127
    /\ Scenario \in Seq(DOMAIN Measured) /\ Scenario # <<>>
    /\ Measured \in [ToSet(Scenario) ->
           [instructions : Nat \ {0}, stalls : Nat, loadUse : Nat, taken : Nat]]

NoLogic(fn, a, b) == 0
Rv32M == INSTANCE An32Word WITH
    XLEN <- Width, ByteModulus <- 2^(Width \div 4), LogicAlu <- NoLogic

MinInt == -2^(Width - 1)
MaxInt == 2^(Width - 1) - 1

-----------------------------------------------------------------------------
(* The divider.                                                            *)

Unloaded == <<>>

IterativeDividerVisualizer ==
    [lab |-> "divider", dividend |-> 100, divisor |-> 7, step |-> 0,
     \* For the property only: the operands of the first step since the last reset.
     loaded |-> Unloaded]

\* Fault: the count goes on with the new operands.
DividerReset_Keeps(p) == p

DividerReset(p) == [p EXCEPT !.step = 0, !.loaded = Unloaded]

EditDivider ==
    /\ On("divider")
    /\ \E hook \in {"dividend", "divisor"}, n \in Typed :
          page' = DividerReset([page EXCEPT ![hook] = n])

DividerResetButton == On("divider") /\ page' = DividerReset(page)

isDone(p) == p.step >= Width

StepDivider ==
    /\ On("divider") /\ ~isDone(page)
    /\ page' = [page EXCEPT !.step = @ + 1,
                            !.loaded = IF page.step = 0 THEN <<page.dividend, page.divisor>>
                                       ELSE @]

currentRemaining(p) == Width - p.step

StateMachine(p) ==
    IF isDone(p) THEN "sDone" ELSE IF p.step > 0 THEN "sCompute" ELSE "sIdle"

\* expectedQuotient and expectedRemainder; division of JavaScript truncates.
Expected(p) ==
    LET quotient == Rv32M!Abs(p.dividend) \div Rv32M!Abs(p.divisor)
        rest     == Rv32M!Abs(p.dividend) % Rv32M!Abs(p.divisor)
    IN  CASE p.divisor = 0 -> <<-1, p.dividend>>
          [] p.divisor = -1 /\ p.dividend = MinInt -> <<MinInt, 0>>
          [] OTHER -> <<IF (p.dividend < 0) = (p.divisor < 0) THEN quotient ELSE -quotient,
                        IF p.dividend < 0 THEN -rest ELSE rest>>

-----------------------------------------------------------------------------
(* The Booth groups.                                                       *)

BoothWallaceVisualizer == [lab |-> "booth", valA |-> -17, valB |-> 25]

MoveSlider ==
    \/ Pick("booth", "valA", Slider)
    \/ Pick("booth", "valB", Slider)

\* x >> n: the shift is taken modulo the width.
ShiftRight(x, n) == x \div 2^(n % Width)

\* One group more than half the bits; the window of the first one is taken at bit -1.
boothGroups34(p) ==
    [i \in 0 .. Width \div 2 |->
        LET digit == ShiftRight(p.valB, 2 * i - 1) % 8
            multiplier == <<0, 1, 1, 2, -2, -1, -1, 0>>[digit + 1]
        IN  [multiplier |-> multiplier, partialProduct |-> p.valA * multiplier]]

\* low32 and high32 of the product.
Product(p) ==
    LET product == p.valA * p.valB
    IN  [low |-> SignedOf(WordOf(product)), high |-> SignedOf(WordOf(product \div 2^Width))]

-----------------------------------------------------------------------------
(* The race of the cores.  The answer to a lab that is no longer mounted   *)
(* is dropped.                                                             *)

NoComparison == [of |-> "none"]
NoRequest == "no request"

LabCompareCores ==
    [lab |-> "compare", selectedId |-> Scenario[1], comparison |-> NoComparison,
     loading |-> FALSE, request |-> NoRequest,
     \* For the property only: whether the selection is as it was when the button was
     \* clicked last, and whether that run failed.
     kept |-> TRUE, failed |-> FALSE]

SelectComparison ==
    /\ On("compare")
    /\ \E id \in ToSet(Scenario) \ {page.selectedId} :
          page' = [page EXCEPT !.selectedId = id, !.kept = FALSE]

\* The cycles the backend reports for both cores.
compare_cores(id) ==
    LET m == Measured[id]
    IN  [of |-> id,
         single_cycle |-> [instructions |-> m.instructions, cycles |-> m.instructions],
         pipelined |-> [instructions |-> m.instructions,
                        cycles |-> m.instructions + 4 + m.stalls,
                        load_use_stalls |-> m.loadUse, branch_flushes |-> 2 * m.taken]]

\* Fault: the program first in the list is sent, whatever is selected.
Requested_First(p) == Scenario[1]

Requested(p) == p.selectedId

RunComparison ==
    /\ On("compare") /\ ~page.loading
    /\ page' = [page EXCEPT !.loading = TRUE, !.request = Requested(page),
                            !.kept = TRUE, !.failed = FALSE]

ReceiveComparison ==
    /\ On("compare") /\ page.loading
    /\ page' = [page EXCEPT !.comparison = compare_cores(page.request), !.loading = FALSE,
                            !.request = NoRequest]

\* The error is only logged; the cards of the run before stay.
FailComparison ==
    /\ On("compare") /\ page.loading
    /\ page' = [page EXCEPT !.loading = FALSE, !.request = NoRequest, !.failed = TRUE]

\* The length of the pipelined core's track, in percent of the single-cycle core's.
RaceWidth(c) ==
    LET width == (c.single_cycle.cycles * 100) \div c.pipelined.cycles
    IN  IF width < 100 THEN width ELSE 100

-----------------------------------------------------------------------------

MachineStep ==
    \/ EditDivider \/ DividerResetButton \/ StepDivider
    \/ MoveSlider
    \/ SelectComparison \/ RunComparison \/ ReceiveComparison \/ FailComparison

MachineLab == {IterativeDividerVisualizer, BoothWallaceVisualizer, LabCompareCores}

-----------------------------------------------------------------------------
(* Properties.                                                             *)

InRange(n) == n \in MinInt .. MaxInt

\* When the divider lab says that it is done, it has counted every iteration on the operands
\* in its fields, and for operands that fit a word it shows what DIV and REM return.
DividerShowsQuotient ==
    On("divider") =>
        /\ StateMachine(page) = "sIdle" <=> page.loaded = Unloaded
        /\ StateMachine(page) = "sDone" => currentRemaining(page) = 0
        /\ isDone(page) => page.loaded = <<page.dividend, page.divisor>>
        /\ isDone(page) /\ InRange(page.dividend) /\ InRange(page.divisor) =>
               LET a == WordOf(page.dividend)
                   b == WordOf(page.divisor)
               IN  Expected(page) = <<SignedOf(Rv32M!Quotient(TRUE, a, b)),
                                      SignedOf(Rv32M!Remainder(TRUE, a, b))>>

\* Whatever the sliders: the low and the high word are those of MUL and MULH, and the partial
\* products shown, at their places, add up to the product but for that of the first group.
BoothAddsUp ==
    On("booth") =>
        LET a == WordOf(page.valA)
            b == WordOf(page.valB)
            first == BoothMultiple(BoothCode(b, 0), page.valA)
            shown == boothGroups34(page)
        IN  /\ Product(page).low  = SignedOf(Rv32M!Multiply("MUL", a, b))
            /\ Product(page).high = SignedOf(Rv32M!Multiply("MULH", a, b))
            /\ SumBelow([i \in 0 .. Width \div 2 - 1 |->
                             shown[i + 1].partialProduct * 4^(i + 1)], Width \div 2)
                   = page.valA * page.valB - first

\* However selections, clicks, answers and failures cross: once a run has succeeded, and the
\* selection is as it was when it was started, the cards and the race are those of the program
\* selected, and the pipelined core's track is never the longer one.
ComparisonIsOfSelection ==
    On("compare") =>
        /\ ~page.loading /\ page.kept /\ ~page.failed /\ page.comparison # NoComparison =>
               page.comparison = compare_cores(page.selectedId)
        /\ page.comparison # NoComparison => RaceWidth(page.comparison) \in 0 .. 99
=============================================================================
