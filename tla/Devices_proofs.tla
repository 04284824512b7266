--------------------------- MODULE Devices_proofs ----------------------------
(***************************************************************************)
(* The two blocks that are checked on their own.  The divider's answers    *)
(* are right and in time, for every width, operands and history of         *)
(* requests and kills.  The sticky records of the system block hold what   *)
(* the trace says they must, after any number of clocks with any requests  *)
(* and violations.                                                         *)
(***************************************************************************)
EXTENDS DividerPort, SystemMmioTrace, Hardware_proofs

PortTypeOK == DividerTypeOK /\ Counting /\ served \in Nat /\ waited \in Nat /\ request \in Request

\* While the divider computes, its registers hold a division of the leading bits of the
\* request's dividend, and the count of clocks agrees with its own.
PortInv ==
    /\ PortTypeOK
    /\ divider.state = "COMPUTE" => waited = XLEN + 1 - divider.count /\ Computing(request)
    /\ AnswersRequest
    /\ DividerDone => waited \in {1, XLEN + 1}

LEMMA RequestTypes ==
    ASSUME NEW r \in RequestsAt(served + 1), served \in Nat, served < MaxRequests
    PROVE  r \in Request /\ r.dividend \in Word /\ r.divisor \in Word /\ r.isSigned \in BOOLEAN
<1>1. served + 1 \in 1 .. MaxRequests
  BY PortAssumption
<1>2. r \in Request
  BY <1>1, PortAssumption
<1>3. QED
  BY <1>2 DEF Request

-----------------------------------------------------------------------------
LEMMA PortInvInit == PortInit => PortInv
<1> SUFFICES ASSUME PortInit PROVE PortInv
  OBVIOUS
<1>1. DividerTypeOK /\ Counting /\ divider.state = "IDLE"
  BY DividerInitType DEF PortInit, DividerInit, Counting
<1>2. NoRequest \in Request
  BY SmallWord DEF NoRequest, Request
<1>3. QED
  BY <1>1, <1>2 DEF PortInit, PortInv, PortTypeOK, AnswersRequest, DividerDone

LEMMA PortInvStep == PortInv /\ [PortNext]_portVars => PortInv'
<1> SUFFICES ASSUME PortInv, [PortNext]_portVars PROVE PortInv'
  OBVIOUS
<1>1. ASSUME NEW r \in RequestsAt(served + 1), Start(r) PROVE PortInv'
  <2>1. /\ r \in Request /\ r.dividend \in Word /\ r.divisor \in Word
        /\ r.isSigned \in BOOLEAN
    BY <1>1, RequestTypes DEF Start, PortInv, PortTypeOK
  <2>2. PortTypeOK'
    <3>1. DividerTick(TRUE, FALSE, r.dividend, r.divisor, r.isSigned)
      BY <1>1 DEF Start
    <3>2. DividerTypeOK' /\ Counting'
      BY <2>1, <3>1, DividerTickType DEF PortInv, PortTypeOK
    <3>3. QED
      BY <1>1, <2>1, <3>2 DEF Start, PortInv, PortTypeOK
  <2>3. divider' = Accept(r.dividend, r.divisor, r.isSigned) /\ request' = r /\ waited' = 1
    BY <1>1 DEF Start, DividerTick, DividerBusy
  <2>4. /\ DividerDone' => /\ divider'.finalQuotient =
                                 Quotient(r.isSigned, r.dividend, r.divisor)
                           /\ divider'.finalRemainder =
                                 Remainder(r.isSigned, r.dividend, r.divisor)
        /\ divider'.state = "COMPUTE" => divider'.count = XLEN /\ Computing(r)'
    BY <2>1, <2>3, AcceptComputes DEF PortInv, PortTypeOK, Request, Division
  <2>5. AnswersRequest'
    BY <2>3, <2>4 DEF AnswersRequest
  <2>6. divider'.state = "COMPUTE" => waited' = XLEN + 1 - divider'.count
    BY <2>3, <2>4, WidthAssumption
  <2>7. Computing(r)' => Computing(request)'
    BY <2>3 DEF Computing
  <2>8. QED
    BY <2>2, <2>3, <2>4, <2>5, <2>6, <2>7 DEF PortInv
<1>2. CASE Wait
  <2>1. PortTypeOK'
    <3>1. 0 \in Word
      BY SmallWord
    <3>2. QED
      <4>1. DividerTick(FALSE, FALSE, 0, 0, FALSE)
        BY <1>2 DEF Wait
      <4>2. DividerTypeOK' /\ Counting'
        BY <3>1, <4>1, DividerTickType DEF PortInv, PortTypeOK
      <4>3. QED
        BY <1>2, <4>2 DEF Wait, PortInv, PortTypeOK
  <2>2. request' = request /\ waited' = waited + 1
    BY <1>2 DEF Wait
  <2>3. CASE divider.state = "COMPUTE"
    <3>1. divider' = Compute
      BY <1>2, <2>3 DEF Wait, DividerTick
    <3>2. /\ divider.count # 1 =>
                /\ divider'.state = "COMPUTE" /\ divider'.count = divider.count - 1
                /\ Computing(request)'
          /\ divider.count = 1 =>
                /\ DividerDone'
                /\ divider'.finalQuotient =
                      Quotient(request.isSigned, request.dividend, request.divisor)
                /\ divider'.finalRemainder =
                      Remainder(request.isSigned, request.dividend, request.divisor)
      <4>1. PICK r \in Request : r = request
        BY DEF PortInv, PortTypeOK
      <4>2. Computing(r) /\ (Computing(r)' => Computing(request)')
        BY <2>2, <2>3, <4>1 DEF PortInv, Computing
      <4>3. QED
        BY <2>3, <3>1, <4>1, <4>2, ComputeDivides DEF PortInv, PortTypeOK, Request, Division
    <3>3. waited = XLEN + 1 - divider.count /\ divider.count \in 1 .. XLEN /\ XLEN \in Nat
      BY <2>3, WidthAssumption DEF PortInv, PortTypeOK, Counting
    <3>4. QED
      BY <2>1, <2>2, <3>2, <3>3 DEF PortInv, AnswersRequest, DividerDone
  <2>4. CASE divider.state # "COMPUTE"
    <3>1. divider'.state = "IDLE"
      BY <1>2, <2>4 DEF Wait, DividerTick, DividerBusy, PortInv, PortTypeOK, DividerTypeOK,
                        DividerRegisters
    <3>2. QED
      BY <2>1, <3>1 DEF PortInv, AnswersRequest, DividerDone
  <2>5. QED
    BY <2>3, <2>4
<1>3. CASE Kill
  <2>1. PortTypeOK'
    <3>1. 0 \in Word
      BY SmallWord
    <3>2. QED
      BY <1>3, <3>1, DividerTickType DEF Kill, PortInv, PortTypeOK
  <2>2. divider'.state = "IDLE"
    BY <1>3 DEF Kill, DividerTick, PortInv, PortTypeOK, DividerTypeOK, DividerRegisters
  <2>3. QED
    BY <2>1, <2>2 DEF PortInv, AnswersRequest, DividerDone
<1>4. CASE Rest \/ UNCHANGED portVars
  BY <1>4 DEF Rest, portVars, PortInv, PortTypeOK, DividerTypeOK, Counting, Computing,
              AnswersRequest, DividerDone
<1>5. QED
  BY <1>1, <1>2, <1>3, <1>4 DEF PortNext

THEOREM PortInvariant == PortSpec => []PortInv
<1>1. QED
  BY PortInvInit, PortInvStep, PTL DEF PortSpec

\* The divider computes RV32M's quotient and remainder, for every width, every pair of
\* operands and whatever was killed before.
THEOREM DividesCorrectly == PortSpec => []AnswersRequest
<1>1. PortInv => AnswersRequest
  BY DEF PortInv
<1>2. QED
  BY <1>1, PortInvariant, PTL

\* It answers after one clock or after XLEN + 1 clocks.
THEOREM DividesInTime == PortSpec => []AnswersInTime
<1>1. PortInv => AnswersInTime
  <2>1. SUFFICES ASSUME PortInv PROVE AnswersInTime
    OBVIOUS
  <2>2. CASE divider.state = "COMPUTE"
    BY <2>1, <2>2, WidthAssumption
    DEF PortInv, PortTypeOK, Counting, AnswersInTime, DividerBusy, DividerDone
  <2>3. CASE divider.state = "DONE"
    BY <2>1, <2>3, WidthAssumption DEF PortInv, AnswersInTime, DividerBusy, DividerDone
  <2>4. QED
    BY <2>1, <2>2, <2>3
    DEF PortInv, PortTypeOK, DividerTypeOK, DividerRegisters, AnswersInTime, DividerBusy,
        DividerDone
<1>2. QED
  BY <1>1, PortInvariant, PTL

-----------------------------------------------------------------------------
(* The system block.                                                        *)

Entry == [request : BusRequest, event : SecurityEvent, enable : BOOLEAN, active : BOOLEAN]

TraceTypeOK == SystemMmioTypeOK /\ trace \in Seq(Entry)

\* The entry of a clock edge.
EntryOf(access, event) ==
    [request |-> access, event |-> event, enable |-> trap.enable, active |-> trap.active]

\* A clock edge with what the block was given: a typed request and a typed violation.
Edge(access, event) ==
    /\ access \in BusRequest /\ event \in SecurityEvent
    /\ TraceTypeOK /\ TraceTick(access, event)

-----------------------------------------------------------------------------
(* Types, and what a step does to the trace.                               *)

LEMMA DrivenTypes ==
    /\ Nothing \in SecurityEvent /\ NothingCounted \in CountedEvents
    /\ NothingRetired \in RetiredOperation
<1>1. 0 \in Word /\ 0 \in AccessType /\ 0 \in Reason
  BY SmallWord DEF AccessType, Reason
<1>2. QED
  BY <1>1 DEF Nothing, NothingCounted, NothingRetired, SecurityEvent, CountedEvents,
              RetiredOperation

\* Every step but the stuttering at the bound is an edge.
LEMMA StepIsEdge ==
    ASSUME TraceTypeOK, TraceNext, ~TraceEnd
    PROVE  \E access, event : Edge(access, event)
<1>1. PICK access \in Requests, event \in {Nothing, EventAt(Len(trace))} :
         TraceTick(access, event)
  BY DEF TraceNext
<1>2. access \in BusRequest
  BY TraceAssumption DEF BusRequest
<1>3. event \in SecurityEvent
  <2>1. Len(trace) \in 0 .. MaxCycles
    BY <1>1, TraceAssumption DEF TraceTypeOK, TraceTick
  <2>2. QED
    BY <2>1, DrivenTypes, TraceAssumption
<1>4. QED
  BY <1>1, <1>2, <1>3 DEF Edge

LEMMA EdgeTypes ==
    ASSUME NEW access, NEW event, Edge(access, event)
    PROVE  /\ EntryOf(access, event) \in Entry
           /\ trace' = Append(trace, EntryOf(access, event))
           /\ TraceTypeOK'
<1>1. EntryOf(access, event) \in Entry
  BY DEF Edge, EntryOf, Entry, TraceTypeOK, SystemMmioTypeOK
<1>2. trace' = Append(trace, EntryOf(access, event))
  BY DEF Edge, TraceTick, EntryOf
<1>3. trace' \in Seq(Entry)
  BY <1>1, <1>2 DEF Edge, TraceTypeOK
<1>4. SystemMmioTypeOK'
  BY DrivenTypes, SystemMmioTickType DEF Edge, TraceTick, TraceTypeOK
<1>5. QED
  BY <1>1, <1>2, <1>3, <1>4 DEF TraceTypeOK

\* The trace keeps its entries and gets one more.
LEMMA EdgeTrace ==
    ASSUME NEW access, NEW event, Edge(access, event), NEW n, n = Len(trace) + 1
    PROVE  /\ n \in Nat /\ n \notin Cycles
           /\ Cycles' = Cycles \union {n}
           /\ \A k \in Cycles : k \in Nat /\ k < n /\ trace'[k] = trace[k]
           /\ trace'[n] = EntryOf(access, event)
           /\ trace'[n].request = access /\ trace'[n].event = event
           /\ trace'[n].enable = trap.enable /\ trace'[n].active = trap.active
<1> DEFINE e == EntryOf(access, event)
<1>1. e \in Entry /\ trace' = Append(trace, e) /\ trace \in Seq(Entry)
  BY EdgeTypes DEF Edge, TraceTypeOK
<1> HIDE DEF e
<1>2. Len(trace) \in Nat /\ Cycles = 1 .. Len(trace) /\ n \in Nat
  BY <1>1 DEF Cycles
<1>3. Cycles' = 1 .. n
  BY <1>1, <1>2 DEF Cycles
<1>4. \A k \in Cycles : trace'[k] = trace[k]
  BY <1>1, <1>2
<1>5. trace'[n] = e
  BY <1>1, <1>2
<1>6. /\ e.request = access /\ e.event = event
      /\ e.enable = trap.enable /\ e.active = trap.active
  BY DEF e, EntryOf
<1>7. \A k \in Cycles : k \in Nat /\ k < n
  BY <1>2
<1>8. n \notin Cycles /\ Cycles' = Cycles \union {n}
  BY <1>2, <1>3
<1>9. e = EntryOf(access, event)
  BY DEF e
<1>10. QED
  BY <1>2, <1>4, <1>5, <1>6, <1>7, <1>8, <1>9

\* What a write of an earlier cycle, and of this one, is in the trace.
LEMMA EdgeWrites ==
    ASSUME NEW access, NEW event, Edge(access, event), NEW n, n = Len(trace) + 1, NEW name
    PROVE  /\ \A k \in Cycles : Wrote(k, name)' <=> Wrote(k, name)
           /\ Wrote(n, name)' <=> Stores(access, name)
<1>1. /\ \A k \in Cycles : trace'[k].request = trace[k].request
      /\ trace'[n].request = access
  BY EdgeTrace
<1>2. QED
  BY <1>1 DEF Wrote, Stores, Selects

-----------------------------------------------------------------------------
(* SEC_*: the oldest violation that no later clear has removed.            *)

LogShows(e) ==
    /\ securityLog.pc = e.pc /\ securityLog.address = e.address
    /\ InfoWord(securityLog) = InfoWord(e) /\ securityLog.context = e.context

\* LogHoldsFirstOutstanding with the first violation as a witness.
LogInv ==
    /\ securityLog.pending = (Outstanding # {})
    /\ securityLog.pending =>
          \E k \in Outstanding : (\A j \in Outstanding : k <= j) /\ LogShows(trace[k].event)

LEMMA LogInvSuffices ==
    ASSUME TraceTypeOK, LogInv PROVE LogHoldsFirstOutstanding
<1>1. CASE ~securityLog.pending
  BY <1>1 DEF LogInv, LogHoldsFirstOutstanding
<1>2. CASE securityLog.pending
  <2>1. PICK k \in Outstanding : (\A j \in Outstanding : k <= j) /\ LogShows(trace[k].event)
    BY <1>2 DEF LogInv
  <2>2. \A j \in Outstanding : j \in Nat
    BY DEF Outstanding, Cycles, TraceTypeOK
  <2>3. First(Outstanding) = k
    <3>1. \A j \in Outstanding : (\A i \in Outstanding : j <= i) => j = k
      BY <2>1, <2>2
    <3>2. QED
      BY <2>1, <3>1 DEF First
  <2>4. QED
    BY <1>2, <2>1, <2>3 DEF LogInv, LogHoldsFirstOutstanding, LogShows
<1>3. QED
  BY <1>1, <1>2

\* A clock edge removes what is outstanding if it clears and adds its own violation.
LEMMA EdgeOutstanding ==
    ASSUME NEW access, NEW event, Edge(access, event), NEW n, n = Len(trace) + 1
    PROVE  /\ \A k \in Outstanding : k \in Cycles
           /\ \A k : k \in Outstanding' <=>
                       \/ k \in Outstanding /\ ~ClearsLog(access)
                       \/ k = n /\ event.valid
<1> DEFINE Clears(c) == Wrote(c, "SEC_STATUS") /\ Odd(trace[c].request.data)
<1>1. \A c \in Cycles : Clears(c)' <=> Clears(c)
  BY EdgeWrites, EdgeTrace
<1>2. Clears(n)' <=> ClearsLog(access)
  BY EdgeWrites, EdgeTrace DEF ClearsLog
<1>3. \A k \in Cycles : trace'[k].event.valid = trace[k].event.valid
  BY EdgeTrace
<1>4. trace'[n].event.valid = event.valid
  BY EdgeTrace
<1>5. \A k : k \in Outstanding <=>
                /\ k \in Cycles /\ trace[k].event.valid
                /\ \A c \in Cycles : Clears(c) => c <= k
  BY DEF Outstanding
<1>6. \A k : k \in Outstanding' <=>
                /\ k \in Cycles' /\ trace'[k].event.valid
                /\ \A c \in Cycles' : Clears(c)' => c <= k
  BY DEF Outstanding
<1> HIDE DEF Clears
<1>7. QED
  BY <1>1, <1>2, <1>3, <1>4, <1>5, <1>6, EdgeTrace

LEMMA EdgeLogInv ==
    ASSUME NEW access, NEW event, Edge(access, event), LogInv
    PROVE  LogInv'
<1> PICK n : n = Len(trace) + 1
  OBVIOUS
<1> DEFINE clear == ClearsLog(access)
           kept(k) == (\A j \in Outstanding : k <= j) /\ LogShows(trace[k].event)
<1>0. event.valid \in BOOLEAN /\ securityLog.pending \in BOOLEAN
  BY DEF Edge, SecurityEvent, TraceTypeOK, SystemMmioTypeOK
<1>1. SecurityLogTick(access, event)
  BY DEF Edge, TraceTick, SystemMmioTick
<1>2. /\ \A k \in Outstanding : k \in Cycles
      /\ \A k : k \in Outstanding' <=>
                  \/ k \in Outstanding /\ ~clear
                  \/ k = n /\ event.valid
  BY EdgeOutstanding
<1>3. /\ n \in Nat /\ \A k \in Cycles : k \in Nat /\ k < n /\ trace'[k] = trace[k]
      /\ trace'[n].event = event
  BY EdgeTrace
<1>4. securityLog.pending = (Outstanding # {})
  BY DEF LogInv
<1> HIDE DEF clear
<1>5. CASE event.valid /\ (~securityLog.pending \/ clear)
  <2>1. securityLog' = LogEntry(event)
    BY <1>1, <1>5 DEF SecurityLogTick, clear
  <2>2. Outstanding' = {n}
    BY <1>2, <1>4, <1>5
  <2>3. /\ securityLog'.pending
        /\ securityLog'.pc = event.pc /\ securityLog'.address = event.address
        /\ InfoWord(securityLog') = InfoWord(event) /\ securityLog'.context = event.context
    BY <2>1 DEF LogEntry, InfoWord
  <2>4. LogShows(trace[n].event)'
    BY <1>3, <2>3 DEF LogShows
  <2>5. \A j \in Outstanding' : n <= j
    BY <1>3, <2>2
  <2>6. QED
    BY <2>2, <2>3, <2>4, <2>5 DEF LogInv
<1>6. CASE ~(event.valid /\ (~securityLog.pending \/ clear))
  <2>1. securityLog' = [securityLog EXCEPT !.pending = @ /\ ~clear]
    BY <1>1, <1>6 DEF SecurityLogTick, clear
  <2>2. /\ securityLog'.pending = (securityLog.pending /\ ~clear)
        /\ \A e : LogShows(e) => LogShows(e)'
    BY <2>1 DEF LogShows, InfoWord, TraceTypeOK, SystemMmioTypeOK, Edge
  <2>3. CASE securityLog.pending /\ ~clear
    <3>1. PICK k \in Outstanding : kept(k)
      BY <2>3 DEF LogInv
    <3>2. k \in Outstanding' /\ \A j \in Outstanding : k <= j
      BY <1>2, <2>3, <3>1
    <3>3. \A j \in Outstanding' : k <= j
      BY <1>2, <1>3, <3>2
    <3>4. LogShows(trace[k].event)'
      BY <1>2, <1>3, <2>2, <3>1
    <3>5. QED
      BY <2>2, <2>3, <3>2, <3>3, <3>4 DEF LogInv
  <2>4. CASE ~(securityLog.pending /\ ~clear)
    <3>1. Outstanding' = {}
      BY <1>0, <1>2, <1>4, <1>6, <2>4
    <3>2. QED
      BY <2>2, <2>4, <3>1 DEF LogInv
  <2>5. QED
    BY <2>3, <2>4
<1>7. QED
  BY <1>5, <1>6

-----------------------------------------------------------------------------
(* DOUBLE_FAULT.                                                           *)

LEMMA EdgeDoubleFault ==
    ASSUME NEW access, NEW event, Edge(access, event), DoubleFaultRemembered
    PROVE  DoubleFaultRemembered'
<1> PICK n : n = Len(trace) + 1
  OBVIOUS
<1> DEFINE nested(k) == trace[k].event.valid /\ trace[k].enable /\ trace[k].active
           clears(c) == Wrote(c, "TRAP_STATUS") /\ Odd(trace[c].request.data \div 2)
<1>1. trap'.doubleFault =
          (NestedFault(event) \/ (trap.doubleFault /\ ~ClearsDoubleFault(access)))
  BY DEF Edge, TraceTick, SystemMmioTick, TrapTick, NextDoubleFault
<1>2. /\ n \in Nat /\ n \notin Cycles /\ Cycles' = Cycles \union {n}
      /\ \A k \in Cycles : k \in Nat /\ k < n
  BY EdgeTrace
<1>3. (\A k \in Cycles : nested(k)' <=> nested(k)) /\ (nested(n)' <=> NestedFault(event))
  BY EdgeTrace DEF NestedFault
<1>4. /\ \A k \in Cycles : clears(k)' <=> clears(k)
      /\ clears(n)' <=> ClearsDoubleFault(access)
  BY EdgeWrites, EdgeTrace DEF ClearsDoubleFault
<1>5. /\ trap.doubleFault \in BOOLEAN /\ trap'.doubleFault \in BOOLEAN
      /\ NestedFault(event) \in BOOLEAN
  BY EdgeTypes DEF Edge, TraceTypeOK, SystemMmioTypeOK, NestedFault
<1>6. trap.doubleFault <=>
          \E k \in Cycles : nested(k) /\ \A c \in Cycles : clears(c) => c <= k
  BY <1>5 DEF DoubleFaultRemembered
<1>7. ASSUME trap'.doubleFault <=>
                \E k \in Cycles' : nested(k)' /\ \A c \in Cycles' : clears(c)' => c <= k
      PROVE  DoubleFaultRemembered'
  BY <1>5, <1>7 DEF DoubleFaultRemembered
<1> HIDE DEF nested, clears
<1>8. trap'.doubleFault <=>
          \E k \in Cycles' : nested(k)' /\ \A c \in Cycles' : clears(c)' => c <= k
  <2>1. CASE NestedFault(event)
    <3>1. nested(n)' /\ \A c \in Cycles' : clears(c)' => c <= n
      BY <1>2, <1>3, <2>1
    <3>2. QED
      BY <1>1, <1>2, <2>1, <3>1
  <2>2. CASE ~NestedFault(event)
    <3>1. \A k : (k \in Cycles' /\ nested(k)') <=> (k \in Cycles /\ nested(k))
      BY <1>2, <1>3, <2>2
    <3>2. \A k \in Cycles : (\A c \in Cycles' : clears(c)' => c <= k) <=>
                              /\ \A c \in Cycles : clears(c) => c <= k
                              /\ ~ClearsDoubleFault(access)
      BY <1>2, <1>4
    <3>3. QED
      BY <1>1, <1>5, <1>6, <2>2, <3>1, <3>2
  <2>3. QED
    BY <2>1, <2>2
<1>9. QED
  BY <1>7, <1>8

-----------------------------------------------------------------------------
(* The open trap: the last violation that opened one, and the last return  *)
(* address the handler wrote since.                                        *)

Openings == {k \in Cycles : trace[k].event.valid /\ trace[k].enable /\ ~trace[k].active}

Moved(o) == {k \in Cycles : k > o /\ Wrote(k, "TRAP_EPC")}

EvidenceOf(e) ==
    InfoWord(trap) = InfoWord(e) /\ trap.address = e.address /\ trap.context = e.context

ReturnsTo(o) ==
    \/ Moved(o) = {} /\ trap.epc = trace[o].event.pc
    \/ \E m \in Moved(o) : /\ \A j \in Moved(o) : j <= m
                           /\ trap.epc = WordAligned(trace[m].request.data)

\* OpenTrapHoldsItsCause with the last cycles as witnesses.
TrapInv ==
    trap.active => \E o \in Openings : /\ \A j \in Openings : j <= o
                                       /\ EvidenceOf(trace[o].event) /\ ReturnsTo(o)

\* The last element of a set of numbers is the one that bounds it.
LEMMA LastIs ==
    ASSUME NEW S, \A j \in S : j \in Nat, NEW k \in S, \A j \in S : j <= k
    PROVE  Last(S) = k
<1>1. \A j \in S : (\A i \in S : i <= j) => j = k
  OBVIOUS
<1>2. QED
  BY <1>1 DEF Last

LEMMA TrapInvSuffices ==
    ASSUME TraceTypeOK, TrapInv PROVE OpenTrapHoldsItsCause
<1>1. CASE ~trap.active
  BY <1>1 DEF OpenTrapHoldsItsCause
<1>2. CASE trap.active
  <2>1. PICK o \in Openings : /\ \A j \in Openings : j <= o
                              /\ EvidenceOf(trace[o].event) /\ ReturnsTo(o)
    BY <1>2 DEF TrapInv
  <2>2. /\ \A j \in Openings : j \in Nat
        /\ \A j \in Moved(o) : j \in Nat
    BY DEF Openings, Moved, Cycles, TraceTypeOK
  <2>3. Last(Openings) = o
    BY <2>1, <2>2, LastIs
  <2>4. trap.epc = IF Moved(o) = {} THEN trace[o].event.pc
                   ELSE WordAligned(trace[Last(Moved(o))].request.data)
    <3>1. CASE Moved(o) = {}
      BY <2>1, <3>1 DEF ReturnsTo
    <3>2. CASE Moved(o) # {}
      <4>1. PICK m \in Moved(o) : /\ \A j \in Moved(o) : j <= m
                                  /\ trap.epc = WordAligned(trace[m].request.data)
        BY <2>1, <3>2 DEF ReturnsTo
      <4>2. Last(Moved(o)) = m
        BY <2>2, <4>1, LastIs
      <4>3. QED
        BY <3>2, <4>1, <4>2
    <3>3. QED
      BY <3>1, <3>2
  <2>5. QED
    BY <2>1, <2>3, <2>4 DEF OpenTrapHoldsItsCause, Openings, Moved, EvidenceOf
<1>3. QED
  BY <1>1, <1>2

LEMMA EdgeTrapInv ==
    ASSUME NEW access, NEW event, Edge(access, event), TrapInv
    PROVE  TrapInv'
<1> PICK n : n = Len(trace) + 1
  OBVIOUS
<1>1. /\ trap'.active = (PreciseTrap(event) \/ (trap.active /\ ~TrapReturn(access)))
      /\ trap'.epc = NextEpc(access, event)
      /\ PreciseTrap(event) => /\ trap'.accessType = event.accessType
                               /\ trap'.reason = event.reason
                               /\ trap'.address = event.address
                               /\ trap'.context = event.context
      /\ ~PreciseTrap(event) => /\ trap'.accessType = trap.accessType
                                /\ trap'.reason = trap.reason
                                /\ trap'.address = trap.address
                                /\ trap'.context = trap.context
  BY DEF Edge, TraceTick, SystemMmioTick, TrapTick
<1>2. /\ n \in Nat /\ n \notin Cycles /\ Cycles' = Cycles \union {n}
      /\ \A k \in Cycles : k \in Nat /\ k < n /\ trace'[k] = trace[k]
      /\ trace'[n].event = event /\ trace'[n].request = access
      /\ trace'[n].enable = trap.enable /\ trace'[n].active = trap.active
  BY EdgeTrace
<1>3. \A k : k \in Openings' <=> \/ k \in Openings
                                 \/ k = n /\ PreciseTrap(event)
  BY <1>2 DEF Openings, PreciseTrap
<1>4. \A k \in Cycles : Wrote(k, "TRAP_EPC")' <=> Wrote(k, "TRAP_EPC")
  BY EdgeWrites
<1>5. Wrote(n, "TRAP_EPC")' <=> Stores(access, "TRAP_EPC")
  BY EdgeWrites
<1>6. CASE PreciseTrap(event)
  <2>1. n \in Openings' /\ \A j \in Openings' : j <= n
    BY <1>2, <1>3, <1>6 DEF Openings
  <2>2. EvidenceOf(trace[n].event)'
    BY <1>1, <1>2, <1>6 DEF EvidenceOf, InfoWord
  <2>3. Moved(n)' = {}
    BY <1>2 DEF Moved
  <2>4. trap'.epc = event.pc
    BY <1>1, <1>6 DEF NextEpc, PreciseTrap
  <2>5. ReturnsTo(n)'
    BY <1>2, <2>3, <2>4 DEF ReturnsTo
  <2>6. QED
    BY <2>1, <2>2, <2>5 DEF TrapInv
<1>7. CASE ~PreciseTrap(event) /\ trap.active
  <2>1. PICK o \in Openings : /\ \A j \in Openings : j <= o
                              /\ EvidenceOf(trace[o].event) /\ ReturnsTo(o)
    BY <1>7 DEF TrapInv
  <2>2. o \in Cycles /\ o \in Openings' /\ \A j \in Openings' : j <= o
    BY <1>3, <1>7, <2>1 DEF Openings
  <2>3. EvidenceOf(trace[o].event)'
    BY <1>1, <1>2, <1>7, <2>1, <2>2 DEF EvidenceOf, InfoWord
  <2>4. \A k : k \in Moved(o)' <=> \/ k \in Moved(o)
                                   \/ k = n /\ Stores(access, "TRAP_EPC")
    BY <1>2, <1>4, <1>5, <2>2 DEF Moved
  <2>5. CASE Stores(access, "TRAP_EPC")
    <3>1. n \in Moved(o)' /\ \A j \in Moved(o)' : j <= n
      BY <1>2, <2>4, <2>5 DEF Moved
    <3>2. trap'.epc = WordAligned(trace'[n].request.data)
      BY <1>1, <1>2, <1>7, <2>5 DEF NextEpc
    <3>3. ReturnsTo(o)'
      BY <3>1, <3>2 DEF ReturnsTo
    <3>4. QED
      BY <2>2, <2>3, <3>3 DEF TrapInv
  <2>6. CASE ~Stores(access, "TRAP_EPC")
    <3>1. trap'.epc = trap.epc
      BY <1>1, <1>7, <2>6 DEF NextEpc
    <3>2. Moved(o)' = Moved(o)
      BY <2>4, <2>6
    <3>3. \A k \in Moved(o) : trace'[k] = trace[k]
      BY <1>2 DEF Moved
    <3>4. ReturnsTo(o)'
      BY <1>2, <2>1, <2>2, <3>1, <3>2, <3>3 DEF ReturnsTo
    <3>5. QED
      BY <2>2, <2>3, <3>4 DEF TrapInv
  <2>7. QED
    BY <2>5, <2>6
<1>8. CASE ~PreciseTrap(event) /\ ~trap.active
  BY <1>1, <1>8 DEF TrapInv
<1>9. QED
  BY <1>6, <1>7, <1>8

-----------------------------------------------------------------------------
TraceInv == TraceTypeOK /\ LogInv /\ DoubleFaultRemembered /\ TrapInv

LEMMA TraceInvInit == TraceInit => TraceInv
<1> SUFFICES ASSUME TraceInit PROVE TraceInv
  OBVIOUS
<1>1. trace = <<>> /\ Cycles = {} /\ TraceTypeOK
  BY SystemMmioInitType DEF TraceInit, Cycles, TraceTypeOK
<1>2. ~securityLog.pending /\ ~trap.doubleFault /\ ~trap.active
  BY DEF TraceInit, SystemMmioInit
<1>3. LogInv
  BY <1>1, <1>2 DEF TraceInit, SystemMmioInit, LogInv, Outstanding
<1>4. DoubleFaultRemembered
  BY <1>1 DEF TraceInit, SystemMmioInit, DoubleFaultRemembered
<1>5. QED
  BY <1>1, <1>2, <1>3, <1>4 DEF TraceInv, TrapInv

LEMMA TraceInvStep == TraceInv /\ [TraceNext]_traceVars => TraceInv'
<1> SUFFICES ASSUME TraceInv, [TraceNext]_traceVars PROVE TraceInv'
  OBVIOUS
<1>1. CASE UNCHANGED traceVars
  <2>1. /\ UNCHANGED <<software, perf, securityLog, trap, telemetry, trace>>
    BY <1>1 DEF traceVars, mmioVars
  <2>2. TraceTypeOK'
    BY <2>1 DEF TraceInv, TraceTypeOK, SystemMmioTypeOK
  <2>3. LogInv'
    BY <2>1 DEF TraceInv, LogInv, Outstanding, LogShows, Cycles, Wrote
  <2>4. DoubleFaultRemembered'
    BY <2>1 DEF TraceInv, DoubleFaultRemembered, Cycles, Wrote
  <2>5. TrapInv'
    BY <2>1 DEF TraceInv, TrapInv, Openings, Moved, EvidenceOf, ReturnsTo, Cycles, Wrote
  <2>6. QED
    BY <2>2, <2>3, <2>4, <2>5 DEF TraceInv
<1>2. CASE TraceNext /\ ~UNCHANGED traceVars
  <2>1. PICK access, event : Edge(access, event)
    BY <1>2, StepIsEdge DEF TraceInv, TraceEnd
  <2>2. TraceTypeOK' /\ LogInv' /\ DoubleFaultRemembered' /\ TrapInv'
    BY <2>1, EdgeTypes, EdgeLogInv, EdgeDoubleFault, EdgeTrapInv DEF TraceInv
  <2>3. QED
    BY <2>2 DEF TraceInv
<1>3. QED
  BY <1>1, <1>2

\* TraceInv holds after any number of clocks.
THEOREM TraceInvariant == TraceSpec => []TraceInv
<1>1. QED
  BY TraceInvInit, TraceInvStep, PTL DEF TraceSpec

\* The security log shows the first violation no clear has removed, whatever the order
\* of violations and clears.
THEOREM LogHolds == TraceSpec => []LogHoldsFirstOutstanding
<1>1. TraceInv => LogHoldsFirstOutstanding
  BY LogInvSuffices DEF TraceInv
<1>2. QED
  BY <1>1, TraceInvariant, PTL

\* DOUBLE_FAULT is the memory of an uncleared nested fault and of nothing else.
THEOREM DoubleFaultHolds == TraceSpec => []DoubleFaultRemembered
<1>1. TraceInv => DoubleFaultRemembered
  BY DEF TraceInv
<1>2. QED
  BY <1>1, TraceInvariant, PTL

\* The evidence of an open trap is that of the violation that opened it, and its return
\* address is that violation's or the handler's.
THEOREM OpenTrapHolds == TraceSpec => []OpenTrapHoldsItsCause
<1>1. TraceInv => OpenTrapHoldsItsCause
  BY TrapInvSuffices DEF TraceInv
<1>2. QED
  BY <1>1, TraceInvariant, PTL
=============================================================================
