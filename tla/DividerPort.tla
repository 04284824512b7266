---------------------------- MODULE DividerPort -----------------------------
(***************************************************************************)
(* The divider on its own, with a requester that starts it when it is not  *)
(* busy, holds the request until the answer, and may kill it at any clock: *)
(* what the execute stage and the trap logic do to it.                     *)
(***************************************************************************)
EXTENDS IterativeDivider

CONSTANTS
    RequestsAt(_),    \* the n-th request is one of [dividend, divisor, isSigned]
    MaxRequests     \* bound on the number of requests

Request == [dividend : Word, divisor : Word, isSigned : BOOLEAN]

ASSUME PortAssumption ==
    MaxRequests \in Nat /\ \A n \in 1 .. MaxRequests : RequestsAt(n) \subseteq Request

VARIABLES
    served,     \* requests accepted so far
    request,    \* the request the divider works on
    waited      \* clocks since it was accepted

portVars == <<divider, served, request, waited>>

NoRequest == [dividend |-> 0, divisor |-> 1, isSigned |-> FALSE]

PortInit ==
    /\ DividerInit
    /\ served = 0 /\ request = NoRequest /\ waited = 0

Start(r) ==
    /\ ~DividerBusy /\ served < MaxRequests
    /\ DividerTick(TRUE, FALSE, r.dividend, r.divisor, r.isSigned)
    /\ served' = served + 1 /\ request' = r /\ waited' = 1

\* The operands may change behind the divider's back: it has latched its own.
Wait ==
    /\ DividerBusy
    /\ DividerTick(FALSE, FALSE, 0, 0, FALSE)
    /\ waited' = waited + 1 /\ UNCHANGED <<served, request>>

\* Nobody kills the last request, so that the bound leaves its answer.
Kill ==
    /\ DividerBusy /\ served < MaxRequests
    /\ DividerTick(FALSE, TRUE, 0, 0, FALSE)
    /\ waited' = 0 /\ UNCHANGED <<served, request>>

Rest == ~DividerBusy /\ served = MaxRequests /\ UNCHANGED portVars

PortNext == (\E r \in RequestsAt(served + 1) : Start(r)) \/ Wait \/ Kill \/ Rest

PortSpec == PortInit /\ [][PortNext]_portVars

-----------------------------------------------------------------------------
\* The answer is quotient and remainder as RV32M defines them, for every pair of
\* operands, signed or not, whatever an earlier or killed request left behind.
AnswersRequest ==
    DividerDone =>
        /\ divider.finalQuotient =
              Quotient(request.isSigned, request.dividend, request.divisor)
        /\ divider.finalRemainder =
              Remainder(request.isSigned, request.dividend, request.divisor)

\* An answer comes XLEN + 1 clocks after its request, or after one clock when the
\* result needs no computation, and never later.
AnswersInTime ==
    /\ DividerBusy => waited <= XLEN + 1
    /\ DividerDone => waited \in {1, XLEN + 1}
=============================================================================
