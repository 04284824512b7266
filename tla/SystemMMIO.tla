----------------------------- MODULE SystemMMIO -----------------------------
(***************************************************************************)
(* The memory-mapped system block: software hint registers, performance    *)
(* counters, the sticky security event log, the precise trap state machine *)
(* and the telemetry block of Objective 1 that it embeds.                  *)
(***************************************************************************)
EXTENDS CapabilityLite

VARIABLES
    software,       \* PROCESS_BEHAVIOR_CLASS, SCHED_HINT and CURRENT_CONTEXT
    perf,           \* performance event counters
    securityLog,    \* SEC_*: the first violation since the last clear
    trap,           \* TRAP_*: trap state machine and evidence of the open trap
    telemetry       \* result bus activity proxies

mmioVars == <<software, perf, securityLog, trap, telemetry>>

-----------------------------------------------------------------------------
SecurityEvent == [valid : BOOLEAN, pc : Word, address : Word,
                  accessType : AccessType, reason : Reason, context : Word]

SystemMmioTypeOK ==
    /\ software \in [behaviorClass : Word, schedHint : Word, currentContext : Word]
    /\ perf \in [retired : Word, branchTaken : Word, loadUseStall : Word,
                 divBusy : Word, pipelineStall : Word, lastCommitPc : Word]
    /\ securityLog \in [pending : BOOLEAN, pc : Word, address : Word,
                        accessType : AccessType, reason : Reason, context : Word]
    /\ trap \in [enable : BOOLEAN, active : BOOLEAN, doubleFault : BOOLEAN, vector : Word,
                 epc : Word, accessType : AccessType, reason : Reason,
                 address : Word, context : Word]
    /\ telemetry \in [claSwitching : Word, multiplierThermal : Word, previousResult : Word]

SystemMmioInit ==
    /\ software = [behaviorClass |-> 0, schedHint |-> 0, currentContext |-> 0]
    /\ perf = [retired |-> 0, branchTaken |-> 0, loadUseStall |-> 0,
               divBusy |-> 0, pipelineStall |-> 0, lastCommitPc |-> 0]
    /\ securityLog = [pending |-> FALSE, pc |-> 0, address |-> 0,
                      accessType |-> 0, reason |-> 0, context |-> 0]
    /\ trap = [enable |-> FALSE, active |-> FALSE, doubleFault |-> FALSE,
               vector |-> TrapVectorReset, epc |-> 0, accessType |-> 0, reason |-> 0,
               address |-> 0, context |-> 0]
    /\ telemetry = [claSwitching |-> 0, multiplierThermal |-> 0, previousResult |-> 0]

-----------------------------------------------------------------------------
\* Address decoding.  A request is [read, write, address, data, width]; only
\* aligned words reach a register.
Selects(request, name) ==
    /\ request.width = 4
    /\ request.address \in DOMAIN RegisterAt
    /\ RegisterAt[request.address] = name

Stores(request, name) == request.write /\ Selects(request, name)

InfoWord(e) == 16 * e.accessType + e.reason

ReadAccepted(request) ==
    request.read /\ \E name \in MmioRegister : Selects(request, name)

\* What a read of each register returns.
RegisterValue(name) ==
    CASE name = "CLA_SWITCHING"          -> telemetry.claSwitching
      [] name = "MUL_THERMAL"            -> telemetry.multiplierThermal
      [] name = "EDP_CURRENT"            -> Wrap(telemetry.claSwitching + telemetry.multiplierThermal)
      [] name = "EDP_CONFIG"             -> 1
      [] name = "PROCESS_BEHAVIOR_CLASS" -> software.behaviorClass
      [] name = "SCHED_HINT"             -> software.schedHint
      [] name = "CURRENT_CONTEXT"        -> software.currentContext
      [] name = "RETIRED_COUNT"          -> perf.retired
      [] name = "BRANCH_TAKEN_COUNT"     -> perf.branchTaken
      [] name = "LOAD_USE_STALL_COUNT"   -> perf.loadUseStall
      [] name = "DIV_BUSY_CYCLES"        -> perf.divBusy
      [] name = "PIPELINE_STALL_COUNT"   -> perf.pipelineStall
      [] name = "LAST_COMMIT_PC"         -> perf.lastCommitPc
      [] name = "SEC_STATUS"             -> AsWord(securityLog.pending)
      [] name = "SEC_PC"                 -> securityLog.pc
      [] name = "SEC_ADDR"               -> securityLog.address
      [] name = "SEC_INFO"               -> InfoWord(securityLog)
      [] name = "SEC_CONTEXT"            -> securityLog.context
      [] name = "TRAP_CONTROL"           -> AsWord(trap.enable)
      [] name = "TRAP_STATUS"            -> AsWord(trap.active) + 2 * AsWord(trap.doubleFault)
      [] name = "TRAP_VECTOR"            -> trap.vector
      [] name = "TRAP_EPC"               -> trap.epc
      [] name = "TRAP_CAUSE"             -> InfoWord(trap)
      [] name = "TRAP_ADDR"              -> trap.address
      [] name = "TRAP_CONTEXT"           -> trap.context
      [] OTHER -> 0     \* REV_ENERGY_ACC, BRANCH_CONFIDENCE, TRAP_RETURN

ReadData(request) ==
    IF ReadAccepted(request) THEN RegisterValue(RegisterAt[request.address]) ELSE 0

-----------------------------------------------------------------------------
\* Combinational outputs to the pipeline.
\* Fault: a nested fault traps again.
PreciseTrapReentrant(event) == event.valid /\ trap.enable

PreciseTrap(event)  == event.valid /\ trap.enable /\ ~trap.active
NestedFault(event)  == event.valid /\ trap.enable /\ trap.active
TrapReturn(request) == Stores(request, "TRAP_RETURN") /\ Odd(request.data) /\ trap.active

SoftwareTick(request) ==
    software' =
        [behaviorClass  |-> IF Stores(request, "PROCESS_BEHAVIOR_CLASS")
                            THEN request.data ELSE software.behaviorClass,
         schedHint      |-> IF Stores(request, "SCHED_HINT")
                            THEN request.data ELSE software.schedHint,
         currentContext |-> IF Stores(request, "CURRENT_CONTEXT")
                            THEN request.data ELSE software.currentContext]

\* The pipeline events counted in a cycle: [retire, commitPc, branchTaken,
\* loadUseStall, dividerBusy, pipelineStall].
PerfTick(counted) ==
    perf' =
        [retired       |-> Wrap(perf.retired + AsWord(counted.retire)),
         branchTaken   |-> Wrap(perf.branchTaken + AsWord(counted.branchTaken)),
         loadUseStall  |-> Wrap(perf.loadUseStall + AsWord(counted.loadUseStall)),
         divBusy       |-> Wrap(perf.divBusy + AsWord(counted.dividerBusy)),
         pipelineStall |-> Wrap(perf.pipelineStall + AsWord(counted.pipelineStall)),
         lastCommitPc  |-> IF counted.retire THEN counted.commitPc ELSE perf.lastCommitPc]

ClearsLog(request) == Stores(request, "SEC_STATUS") /\ Odd(request.data)

\* Fault: the context of the violation is not captured.
LogEntryWithoutContext(event) ==
    [pending |-> TRUE, pc |-> event.pc, address |-> event.address,
     accessType |-> event.accessType, reason |-> event.reason,
     context |-> securityLog.context]

LogEntry(event) ==
    [pending |-> TRUE, pc |-> event.pc, address |-> event.address,
     accessType |-> event.accessType, reason |-> event.reason, context |-> event.context]

\* Fault: clearing wins over a violation of the same cycle.
SecurityLogTickClearFirst(request, event) ==
    securityLog' = IF event.valid /\ ~securityLog.pending /\ ~ClearsLog(request)
                   THEN LogEntry(event)
                   ELSE [securityLog EXCEPT !.pending = @ /\ ~ClearsLog(request)]

\* The log keeps the first violation; clearing it loses to a violation of the
\* same cycle.
SecurityLogTick(request, event) ==
    securityLog' = IF event.valid /\ (~securityLog.pending \/ ClearsLog(request))
                   THEN LogEntry(event)
                   ELSE [securityLog EXCEPT !.pending = @ /\ ~ClearsLog(request)]

ClearsDoubleFault(request) == Stores(request, "TRAP_STATUS") /\ Odd(request.data \div 2)

\* Fault: clearing wins over a nested fault of the same cycle.
NextDoubleFaultClearFirst(request, event) ==
    (NestedFault(event) \/ trap.doubleFault) /\ ~ClearsDoubleFault(request)

NextDoubleFault(request, event) ==
    NestedFault(event) \/ (trap.doubleFault /\ ~ClearsDoubleFault(request))

\* Fault: the return address can be written when no trap is open.
NextEpcUnguarded(request, event) ==
    CASE Stores(request, "TRAP_EPC") -> WordAligned(request.data)
      [] ~Stores(request, "TRAP_EPC") /\ PreciseTrap(event) -> event.pc
      [] OTHER -> trap.epc

NextEpc(request, event) ==
    LET writes == Stores(request, "TRAP_EPC") /\ trap.active
    IN  CASE writes -> WordAligned(request.data)
          [] ~writes /\ PreciseTrap(event) -> event.pc
          [] OTHER -> trap.epc

\* The trap state machine: the evidence is captured when the trap is taken.
TrapTick(request, event) ==
    LET taken == PreciseTrap(event)
    IN  trap' =
            [enable      |-> IF Stores(request, "TRAP_CONTROL")
                             THEN Odd(request.data) ELSE trap.enable,
             active      |-> taken \/ (trap.active /\ ~TrapReturn(request)),
             doubleFault |-> NextDoubleFault(request, event),
             vector      |-> IF Stores(request, "TRAP_VECTOR")
                             THEN WordAligned(request.data) ELSE trap.vector,
             epc         |-> NextEpc(request, event),
             accessType  |-> IF taken THEN event.accessType ELSE trap.accessType,
             reason      |-> IF taken THEN event.reason ELSE trap.reason,
             address     |-> IF taken THEN event.address ELSE trap.address,
             context     |-> IF taken THEN event.context ELSE trap.context]

\* The telemetry block is driven by retiring instructions: [valid, claActive,
\* multiplierActive, result].  No instruction is reversible, so REV_ENERGY_ACC
\* stays 0 and EDP_CONFIG stays 1.
TelemetryTick(operation) ==
    LET activity == HammingDistance(operation.result, telemetry.previousResult)
    IN  telemetry' =
            IF operation.valid
            THEN [claSwitching |-> Wrap(telemetry.claSwitching
                                        + (IF operation.claActive THEN activity ELSE 0)),
                  multiplierThermal |-> Wrap(telemetry.multiplierThermal
                                        + (IF operation.multiplierActive THEN activity ELSE 0)),
                  previousResult |-> operation.result]
            ELSE telemetry

SystemMmioTick(request, event, counted, operation) ==
    /\ SoftwareTick(request)
    /\ PerfTick(counted)
    /\ SecurityLogTick(request, event)
    /\ TrapTick(request, event)
    /\ TelemetryTick(operation)
=============================================================================
