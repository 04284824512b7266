-------------------------- MODULE SystemMmioTrace ---------------------------
(***************************************************************************)
(* SystemMMIO on its own, driven by any bus request and any security event *)
(* in the same cycle, as its unit tests drive it.  The trace of what it    *)
(* was given says, without the block's own state machine, what its sticky  *)
(* records must hold.                                                      *)
(***************************************************************************)
EXTENDS SystemMMIO, Sequences

CONSTANTS
    Requests,       \* the bus requests considered
    EventAt(_),     \* the security event a cycle may bring
    MaxCycles       \* bound on the length of a behaviour

ASSUME TraceAssumption ==
    /\ MaxCycles \in Nat
    /\ Requests \subseteq [read : BOOLEAN, write : BOOLEAN, address : Word, data : Word,
                          width : {1, 2, 4}]
    /\ \A k \in 0 .. MaxCycles : EventAt(k) \in SecurityEvent

VARIABLE trace      \* one entry for each clock edge so far

traceVars == <<mmioVars, trace>>

Idle == [read |-> FALSE, write |-> FALSE, address |-> 0, data |-> 0, width |-> 4]

Nothing == [valid |-> FALSE, pc |-> 0, address |-> 0, accessType |-> 0, reason |-> 0,
            context |-> 0]

NothingCounted == [retire |-> FALSE, commitPc |-> 0, branchTaken |-> FALSE,
                   loadUseStall |-> FALSE, dividerBusy |-> FALSE, pipelineStall |-> FALSE]

NothingRetired == [valid |-> FALSE, claActive |-> FALSE, multiplierActive |-> FALSE,
                   result |-> 0]

TraceInit == SystemMmioInit /\ trace = <<>>

TraceTick(request, event) ==
    /\ Len(trace) < MaxCycles
    /\ SystemMmioTick(request, event, NothingCounted, NothingRetired)
    /\ trace' = Append(trace, [request |-> request, event |-> event,
                               enable |-> trap.enable, active |-> trap.active])

\* The bound, not the block, ends a behaviour.
TraceEnd == Len(trace) = MaxCycles /\ UNCHANGED traceVars

TraceNext ==
    \/ TraceEnd
    \/ \E request \in Requests, event \in {Nothing, EventAt(Len(trace))} :
          TraceTick(request, event)

TraceSpec == TraceInit /\ [][TraceNext]_traceVars

-----------------------------------------------------------------------------
Cycles == DOMAIN trace

Wrote(k, name) == Stores(trace[k].request, name)

First(S) == CHOOSE k \in S : \A j \in S : k <= j
Last(S)  == CHOOSE k \in S : \A j \in S : j <= k

\* The violations since the log was last cleared; one that comes together with
\* the clear is not cleared.
Outstanding ==
    {k \in Cycles :
        /\ trace[k].event.valid
        /\ \A c \in Cycles : Wrote(c, "SEC_STATUS") /\ Odd(trace[c].request.data) => c <= k}

\* SEC_* is pending while a violation is outstanding and shows the first of them,
\* however clears and violations interleave.
LogHoldsFirstOutstanding ==
    /\ securityLog.pending = (Outstanding # {})
    /\ securityLog.pending =>
          LET e == trace[First(Outstanding)].event
          IN  /\ securityLog.pc = e.pc /\ securityLog.address = e.address
              /\ InfoWord(securityLog) = InfoWord(e) /\ securityLog.context = e.context

\* DOUBLE_FAULT remembers a violation in an open trap until it is cleared afterwards;
\* clearing it in the cycle of a nested fault does not lose that fault.
DoubleFaultRemembered ==
    trap.doubleFault =
        \E k \in Cycles :
            /\ trace[k].event.valid /\ trace[k].enable /\ trace[k].active
            /\ \A c \in Cycles : Wrote(c, "TRAP_STATUS") /\ Odd(trace[c].request.data \div 2)
                                    => c <= k

\* While a trap is open its evidence is that of the violation that opened it, and its
\* return address is that violation's pc or what the handler last wrote since.
OpenTrapHoldsItsCause ==
    LET opened == Last({k \in Cycles : /\ trace[k].event.valid /\ trace[k].enable
                                       /\ ~trace[k].active})
        moved  == {k \in Cycles : k > opened /\ Wrote(k, "TRAP_EPC")}
        e      == trace[opened].event
    IN  trap.active =>
            /\ InfoWord(trap) = InfoWord(e)
            /\ trap.address = e.address /\ trap.context = e.context
            /\ trap.epc = IF moved = {} THEN e.pc
                          ELSE WordAligned(trace[Last(moved)].request.data)
=============================================================================
