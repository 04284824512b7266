-------------------------- MODULE SimulatorBridge ---------------------------
(***************************************************************************)
(* The bridge of the Objective 1 workbench: server threads send requests   *)
(* as lines to one worker process that drives the RTL, wait for the line   *)
(* it answers, and cache the telemetry registers that come with it.  One   *)
(* lock protects the pipe; reset clears the cache after releasing it.      *)
(*                                                                         *)
(* The result of an execute request stands for its operands: what the ALU  *)
(* makes of them is PipelinedCore's business.  Reading the cache or the    *)
(* health of the worker changes nothing and is no step.                    *)
(***************************************************************************)
EXTENDS Integers, Sequences, FiniteSets

CONSTANTS
    Thread,             \* the server's threads
    NoThread,
    Result,             \* results of the ALU
    Distance(_, _),     \* the Hamming distance of two of them
    MaxRequests,        \* bound on the requests of a behaviour
    MaxStarts           \* bound on the times the server starts

ASSUME BridgeAssumption ==
    /\ NoThread \notin Thread
    /\ 0 \in Result /\ \A r, s \in Result : Distance(r, s) \in Nat

Reset == [command |-> "reset"]
Payload ==
    {Reset} \union
    [command : {"execute"}, result : Result, unit : {"cla", "multiplier", "other"},
     operationValid : BOOLEAN]

\* The registers as they are read.
Telemetry == [rev_energy_acc : Nat, cla_switching : Nat, mul_thermal : Nat,
              edp_current : Nat, edp_config : Nat]
Zeros == [rev_energy_acc |-> 0, cla_switching |-> 0, mul_thermal |-> 0,
          edp_current |-> 0, edp_config |-> 0]

Response ==
    {Reset} \union [command : {"execute"}, result : Result, telemetry : Telemetry]
Pending == [command |-> "pending"]
Error   == [command |-> "error"]

\* The registers of the RTL that a request can change.
Rtl == [claSwitching : Nat, multiplierThermal : Nat, previousResult : Result]
RtlReset == [claSwitching |-> 0, multiplierThermal |-> 0, previousResult |-> 0]

VARIABLES
    process,        \* none, running or exited
    stdin, stdout,  \* the lines under way to and from the worker
    rtl,
    lock,           \* the thread inside the lock
    telemetry,      \* the cached registers
    stage,          \* where each thread is in its handler
    payload,        \* what it asks
    response,       \* what it answers: Pending, Error or a response
    requests, starts,
    executed        \* whether this worker has executed a request, for the properties only

workerVars  == <<process, stdin, stdout, rtl, executed>>
handlerVars == <<stage, payload, response, lock, telemetry>>
bridgeVars  == <<workerVars, handlerVars, requests, starts>>

BridgeInit ==
    /\ process = "none" /\ stdin = <<>> /\ stdout = <<>> /\ rtl = RtlReset
    /\ lock = NoThread /\ telemetry = Zeros
    /\ stage = [t \in Thread |-> "idle"]
    /\ payload = [t \in Thread |-> Reset]
    /\ response = [t \in Thread |-> Pending]
    /\ requests = 0 /\ starts = 0 /\ executed = FALSE

-----------------------------------------------------------------------------
(* The server and its worker.                                              *)

Start ==
    /\ process = "none" /\ starts < MaxStarts
    /\ process' = "running" /\ starts' = starts + 1
    /\ stdin' = <<>> /\ stdout' = <<>> /\ rtl' = RtlReset /\ executed' = FALSE
    /\ UNCHANGED <<handlerVars, requests>>

\* The server stops once its handlers have ended; the cache stays.
Stop ==
    /\ process # "none" /\ \A t \in Thread : stage[t] = "idle"
    /\ process' = "none"
    /\ stdin' = <<>> /\ stdout' = <<>>
    /\ UNCHANGED <<rtl, executed, handlerVars, requests, starts>>

\* Whatever makes a worker exit loses the line it has not answered.
WorkerExits ==
    /\ process = "running"
    /\ process' = "exited" /\ stdin' = <<>>
    /\ UNCHANGED <<stdout, rtl, executed, handlerVars, requests, starts>>

\* One clock of the RTL with an operation.
RtlTick(r, p) ==
    LET distance == Distance(p.result, r.previousResult)
    IN  IF ~p.operationValid THEN r
        ELSE [claSwitching |-> r.claSwitching + (IF p.unit = "cla" THEN distance ELSE 0),
              multiplierThermal |->
                  r.multiplierThermal + (IF p.unit = "multiplier" THEN distance ELSE 0),
              previousResult |-> p.result]

\* The registers as the worker reads them; the scale is fixed.
ReadTelemetry(r) ==
    [rev_energy_acc |-> 0, cla_switching |-> r.claSwitching,
     mul_thermal |-> r.multiplierThermal,
     edp_current |-> r.claSwitching + r.multiplierThermal, edp_config |-> 1]

WorkerAnswers ==
    /\ process = "running" /\ stdin # <<>>
    /\ stdin' = Tail(stdin)
    /\ \/ /\ Head(stdin).command = "reset"
          /\ rtl' = RtlReset /\ UNCHANGED executed
          /\ stdout' = Append(stdout, Reset)
       \/ /\ Head(stdin).command = "execute"
          /\ rtl' = RtlTick(rtl, Head(stdin)) /\ executed' = TRUE
          /\ stdout' = Append(stdout, [command |-> "execute", result |-> Head(stdin).result,
                                       telemetry |-> ReadTelemetry(rtl')])
    /\ UNCHANGED <<process, handlerVars, requests, starts>>

-----------------------------------------------------------------------------
(* A handler, from one step that other threads can see to the next.        *)

At(t, from) == stage[t] = from

Goto(t, to) == stage' = [stage EXCEPT ![t] = to]

\* A request arrives while the server is up.
Begin(t, p) ==
    /\ process # "none" /\ requests < MaxRequests
    /\ At(t, "idle") /\ Goto(t, "waiting")
    /\ payload' = [payload EXCEPT ![t] = p]
    /\ response' = [response EXCEPT ![t] = Pending]
    /\ requests' = requests + 1
    /\ UNCHANGED <<workerVars, lock, telemetry, starts>>

\* Fault: there is no lock.
LockFree_Always == TRUE

LockFree == lock = NoThread

Acquire(t) ==
    /\ At(t, "waiting") /\ LockFree
    /\ lock' = t /\ Goto(t, "checking")
    /\ UNCHANGED <<workerVars, payload, response, telemetry, requests, starts>>

\* Fault: an error leaves the lock taken.
Fail_KeepsLock(t) ==
    /\ response' = [response EXCEPT ![t] = Error]
    /\ Goto(t, "idle")
    /\ UNCHANGED <<workerVars, lock, payload, telemetry, requests, starts>>

\* An exception leaves the lock's block and ends the handler.
Fail(t) ==
    /\ response' = [response EXCEPT ![t] = Error]
    /\ lock' = NoThread /\ Goto(t, "idle")
    /\ UNCHANGED <<workerVars, payload, telemetry, requests, starts>>

Poll(t) ==
    /\ At(t, "checking")
    /\ \/ process # "running" /\ Fail(t)
       \/ /\ process = "running" /\ Goto(t, "writing")
          /\ UNCHANGED <<workerVars, payload, response, lock, telemetry, requests, starts>>

\* The worker may have exited since it was polled.
Write(t) ==
    /\ At(t, "writing")
    /\ \/ process # "running" /\ Fail(t)
       \/ /\ process = "running"
          /\ stdin' = Append(stdin, payload[t]) /\ Goto(t, "reading")
          /\ UNCHANGED <<process, stdout, rtl, executed>>
          /\ UNCHANGED <<payload, response, lock, telemetry, requests, starts>>

\* Fault: the lock protects the pipe but not the cache.
ReadLine_Unlocks(t) ==
    /\ At(t, "reading") /\ stdout # <<>>
    /\ response' = [response EXCEPT ![t] = Head(stdout)]
    /\ stdout' = Tail(stdout) /\ Goto(t, "caching") /\ lock' = NoThread
    /\ UNCHANGED <<process, stdin, rtl, executed, payload, telemetry, requests, starts>>

ReadLine(t) ==
    /\ At(t, "reading") /\ stdout # <<>>
    /\ response' = [response EXCEPT ![t] = Head(stdout)]
    /\ stdout' = Tail(stdout) /\ Goto(t, "caching")
    /\ UNCHANGED <<process, stdin, rtl, executed, payload, lock, telemetry, requests, starts>>

\* Fault: a worker that is gone is noticed before what it has written is read.
ReadEnd_Early(t) ==
    /\ At(t, "reading") /\ process # "running"
    /\ Fail(t)

\* The end of the worker's output.
ReadEnd(t) ==
    /\ At(t, "reading") /\ stdout = <<>> /\ process # "running"
    /\ Fail(t)

\* Only the answer to an execute request carries telemetry.
Cache(t) ==
    /\ At(t, "caching") /\ Goto(t, "releasing")
    /\ telemetry' = IF response[t].command = "execute" THEN response[t].telemetry ELSE telemetry
    /\ UNCHANGED <<workerVars, payload, response, lock, requests, starts>>

\* A handler of execute ends here, one of reset has the cache to clear.
Release(t) ==
    /\ At(t, "releasing")
    /\ Goto(t, IF payload[t].command = "reset" THEN "clearing" ELSE "idle")
    /\ lock' = NoThread
    /\ UNCHANGED <<workerVars, payload, response, telemetry, requests, starts>>

ClearCache(t) ==
    /\ At(t, "clearing") /\ Goto(t, "idle")
    /\ telemetry' = Zeros
    /\ UNCHANGED <<workerVars, payload, response, lock, requests, starts>>

Handle(t) ==
    \/ Acquire(t) \/ Poll(t) \/ Write(t) \/ ReadLine(t) \/ ReadEnd(t)
    \/ Cache(t) \/ Release(t) \/ ClearCache(t)

BridgeNext ==
    \/ Start \/ Stop \/ WorkerExits \/ WorkerAnswers
    \/ \E t \in Thread : (\E p \in Payload : Begin(t, p)) \/ Handle(t)

BridgeSpec == BridgeInit /\ [][BridgeNext]_bridgeVars

\* Threads run, and a worker that does not exit answers.
BridgeFairness ==
    WF_bridgeVars(WorkerAnswers) /\ \A t \in Thread : WF_bridgeVars(Handle(t))

FairBridgeSpec == BridgeSpec /\ BridgeFairness

-----------------------------------------------------------------------------
(* Properties.                                                             *)

InLock == {"checking", "writing", "reading", "caching", "releasing"}

\* The shape of the state, with the discipline of lock and pipe: one thread at most is
\* inside the lock, and a line is under way only while that thread reads.
BridgeTypeOK ==
    /\ process \in {"none", "running", "exited"}
    /\ rtl \in Rtl /\ telemetry \in Telemetry
    /\ stage \in [Thread -> InLock \union {"idle", "waiting", "clearing"}]
    /\ payload \in [Thread -> Payload]
    /\ response \in [Thread -> Response \union {Pending, Error}]
    /\ requests \in Nat /\ starts \in Nat /\ executed \in BOOLEAN
    /\ \A t \in Thread : stage[t] \in InLock <=> lock = t
    /\ lock \in Thread \union {NoThread}
    /\ stdin \in Seq(Payload) /\ stdout \in Seq(Response)
    /\ stdin # <<>> \/ stdout # <<>> =>
          /\ Len(stdin) + Len(stdout) = 1
          /\ \E t \in Thread : lock = t /\ stage[t] = "reading"

\* A handler answers with the worker's response to its own request, whoever else asks
\* at the time and whenever a worker exits or is replaced.
ResponseIsOwn ==
    \A t \in Thread :
        response[t] \in {Pending, Error}
        \/ /\ response[t].command = payload[t].command
           /\ payload[t].command = "execute" => response[t].result = payload[t].result

\* When all is quiet the cache holds what the worker's registers hold now, or nothing: a
\* reset can clear too late, but no older answer ever replaces a newer one.
CacheIsLatestOrCleared ==
    process = "running" /\ executed /\ (\A t \in Thread : stage[t] \in {"idle", "waiting"}) =>
        telemetry \in {ReadTelemetry(rtl), Zeros}

\* The bridge implements the service it stands for: from outside, the pipe, the lock and
\* the worker's death are one instant at which a request takes effect, or its refusal.
RtlAfter(r, p) == IF p.command = "reset" THEN RtlReset ELSE RtlTick(r, p)

RtlAnswer(r, p) ==
    IF p.command = "reset" THEN Reset
    ELSE [command |-> "execute", result |-> p.result, telemetry |-> ReadTelemetry(r)]

Answered(t) == stage[t] = "reading" /\ stdout # <<>>

PhaseOf(t) ==
    IF stage[t] = "idle" THEN "idle"
    ELSE IF stage[t] \in {"caching", "releasing", "clearing"} \/ Answered(t) THEN "served"
    ELSE "asked"

Service == INSTANCE RtlService WITH
    Caller <- Thread, Request <- Payload,
    DeviceReset <- RtlReset, Effect <- RtlAfter, Answer <- RtlAnswer,
    NoReply <- Pending, ErrorReply <- Error,
    device <- rtl,
    phase <- [t \in Thread |-> PhaseOf(t)],
    request <- payload,
    reply <- [t \in Thread |-> IF Answered(t) THEN Head(stdout) ELSE response[t]]

RefinesService == Service!ServiceSpec

\* Every request is answered, with an error if need be.
EveryRequestEnds ==
    \A t \in Thread : stage[t] # "idle" ~> stage[t] = "idle"
=============================================================================
