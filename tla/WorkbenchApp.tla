---------------------------- MODULE WorkbenchApp ----------------------------
(***************************************************************************)
(* The Objective 2 web front end on top of its engine: App and the state   *)
(* of the pages that send requests or sample replies.  A handler sends a   *)
(* request, and what follows its await runs when the reply is received;    *)
(* nothing disables a button meanwhile, so requests overlap, and replies   *)
(* arrive in any order.  State of a page lives while its tab is open.      *)
(***************************************************************************)
EXTENDS WorkbenchEngine

CONSTANTS
    FirstScenario,  \* the first of the catalog, selected when the list arrives
    Empty,          \* the editor without text: a program of no instructions
    Tab, MaxSamples,
    MaxRequests,    \* bound on the requests the user makes
    MaxMoves,       \* bound on what else the user does
    MaxLost         \* bound on the replies and requests the network loses

ASSUME AppAssumption ==
    /\ FirstScenario \in Scenario /\ Empty \in Custom
    /\ {"lab2", "lab5"} \subseteq Tab /\ MaxSamples \in Nat \ {0}

VARIABLES
    activeTab, scenarios, currentScenarioId,
    state,          \* the reply on display, or none
    editorCode,     \* Lab 2
    selectedReg,    \* Lab 5: the register of the form
    history,        \* Lab 5: the samples of the oscilloscope
    requests, moves, lost,  \* counted against the bounds
    alone,          \* nothing else was under way since the last request was sent
    tidy,           \* nor since the last time a program was loaded
    lastFailed      \* the request that ended last failed; these three for the properties only

pageVars  == <<activeTab, editorCode, selectedReg, history>>
ghostVars == <<requests, moves, lost, alone, tidy, lastFailed>>
vars == <<engineVars, pageVars, scenarios, currentScenarioId, state, ghostVars>>

None == [status |-> "none"]

Init ==
    /\ EngineInit
    /\ activeTab = "lab2" /\ scenarios = "fetching" /\ currentScenarioId = FirstScenario
    /\ state = None
    /\ editorCode = Empty /\ selectedReg = "SCHED_HINT" /\ history = <<>>
    /\ requests = 0 /\ moves = 0 /\ lost = 0
    /\ alone = TRUE /\ tidy = TRUE /\ lastFailed = FALSE

Quiet == \A c \in Call : At(c, "free")

\* A handler up to its await: it starts a request in c and keeps what follows for later.
Send(c, request, then) ==
    /\ At(c, "free")
    /\ call' = [call EXCEPT ![c] = Called(request, then)]
    /\ alone' = Quiet /\ tidy' = (tidy /\ Quiet)
    /\ UNCHANGED <<engine, interp, state, lost, lastFailed>>

Click == requests < MaxRequests /\ requests' = requests + 1 /\ UNCHANGED moves
Move  == moves < MaxMoves /\ moves' = moves + 1 /\ UNCHANGED requests

-----------------------------------------------------------------------------
(* The handlers of App.                                                    *)

\* What is shown when the await of any of them ends well.
Show == [after |-> "show"]

\* The list arrives or its request fails; the first scenario is then selected.
FetchScenarios(c) ==
    /\ scenarios = "fetching"
    /\ \/ /\ scenarios' = "ready" /\ currentScenarioId' = FirstScenario
          /\ Send(c, [op |-> "load", id |-> FirstScenario], Show)
       \/ /\ scenarios' = "failed"
          /\ UNCHANGED <<engineVars, currentScenarioId, state, alone, tidy, lost, lastFailed>>
    /\ UNCHANGED <<pageVars, requests, moves>>

\* Fault: the selector is left alone.
SelectScenario_NoCurrent(c, id) ==
    /\ Click
    /\ scenarios = "ready" \/ activeTab # "lab2"
    /\ Send(c, [op |-> "load", id |-> id], Show)
    /\ UNCHANGED <<pageVars, scenarios, currentScenarioId>>

\* From the list in the header or from the buttons of a lab, which need no list.
SelectScenario(c, id) ==
    /\ Click
    /\ scenarios = "ready" \/ activeTab # "lab2"
    /\ currentScenarioId' = id
    /\ Send(c, [op |-> "load", id |-> id], Show)
    /\ UNCHANGED <<pageVars, scenarios>>

Step(c) ==
    /\ Click /\ state # None
    /\ Send(c, [op |-> "step"], Show)
    /\ UNCHANGED <<pageVars, scenarios, currentScenarioId>>

Run(c) ==
    /\ Click /\ state # None
    /\ Send(c, [op |-> "run"], Show)
    /\ UNCHANGED <<pageVars, scenarios, currentScenarioId>>

\* The scenario to load again is the one current when the button was clicked.
Reset(c) ==
    /\ Click
    /\ Send(c, [op |-> "reset"], [after |-> "select", id |-> currentScenarioId])
    /\ UNCHANGED <<pageVars, scenarios, currentScenarioId>>

LoadCustomAssembly(c) ==
    /\ Click /\ activeTab = "lab2"
    /\ Send(c, [op |-> "assemble", source |-> editorCode], Show)
    /\ UNCHANGED <<pageVars, scenarios, currentScenarioId>>

\* The form of the telemetry table and its presets, which select the register too.
WriteMMIO(c, reg, value) ==
    /\ Click /\ activeTab = "lab5" /\ state # None
    /\ reg \in {selectedReg, "SCHED_HINT"} /\ selectedReg' = reg
    /\ Send(c, [op |-> "write", reg |-> reg, value |-> value], Show)
    /\ UNCHANGED <<activeTab, editorCode, history, scenarios, currentScenarioId>>

-----------------------------------------------------------------------------
(* The pages.                                                              *)

Sample(samples, reply) ==
    LET n == Len(samples)
        all == Append(samples, [cycle |-> IF n = 0 THEN 1 ELSE samples[n].cycle + 1,
                                retired |-> reply.mmio.RETIRED_COUNT])
    IN  SubSeq(all, IF n + 1 > MaxSamples THEN n + 2 - MaxSamples ELSE 1, n + 1)

\* Fault: a sample at every reply.
HistoryAfter_Always(reply) ==
    IF activeTab # "lab5" THEN history ELSE Sample(history, reply)

HistoryAfter(reply) ==
    IF activeTab # "lab5" THEN history
    ELSE IF history # <<>> /\ state.mmio.RETIRED_COUNT = reply.mmio.RETIRED_COUNT THEN history
    ELSE Sample(history, reply)

\* A page is mounted with its initial state and the one left is forgotten.
OpenTab(tab) ==
    /\ Move /\ tab # activeTab /\ activeTab' = tab
    /\ editorCode' = IF tab = "lab2" /\ scenarios = "ready" THEN currentScenarioId ELSE Empty
    /\ selectedReg' = "SCHED_HINT"
    /\ history' = IF tab = "lab5" /\ state # None THEN Sample(<<>>, state) ELSE <<>>
    /\ UNCHANGED <<engineVars, scenarios, currentScenarioId, state, alone, tidy, lost,
                   lastFailed>>

EditCode(source) ==
    /\ Move /\ activeTab = "lab2" /\ source # editorCode /\ editorCode' = source
    /\ UNCHANGED <<engineVars, activeTab, selectedReg, history, scenarios, currentScenarioId,
                   state, alone, tidy, lost, lastFailed>>

SelectRegister(reg) ==
    /\ Move /\ activeTab = "lab5" /\ state # None /\ reg # selectedReg /\ selectedReg' = reg
    /\ UNCHANGED <<engineVars, activeTab, editorCode, history, scenarios, currentScenarioId,
                   state, alone, tidy, lost, lastFailed>>

-----------------------------------------------------------------------------
(* Replies.                                                                *)

\* The rest of a handler whose request succeeded.
Receive(c) ==
    /\ At(c, "done") /\ call[c].reply.status = "ok"
    /\ state' = call[c].reply /\ history' = HistoryAfter(call[c].reply)
    /\ lastFailed' = FALSE
    /\ IF call[c].then.after = "select"
       THEN LET id == call[c].then.id
            IN  /\ currentScenarioId' = id
                /\ call' = [call EXCEPT ![c] = Called([op |-> "load", id |-> id], Show)]
                /\ alone' = \A d \in Call \ {c} : At(d, "free")
                /\ tidy' = (tidy /\ alone')
       ELSE /\ Goto(c, "free") /\ UNCHANGED <<currentScenarioId, alone>>
            /\ tidy' = (tidy \/ (alone /\ call[c].request.op \in {"load", "assemble"}))
    /\ UNCHANGED <<engine, interp, activeTab, editorCode, selectedReg, scenarios,
                   requests, moves, lost>>

\* A refused request throws, the handler logs it and the display stays.
ReceiveError(c) ==
    /\ At(c, "done") /\ call[c].reply.status = "error"
    /\ Goto(c, "free") /\ lastFailed' = TRUE
    /\ UNCHANGED <<engine, interp, pageVars, scenarios, currentScenarioId, state,
                   requests, moves, lost, alone, tidy>>

\* The network loses a request no handler has begun, or a reply.
Lose(c) ==
    /\ lost < MaxLost /\ lost' = lost + 1
    /\ ~At(c, "free")
    /\ \/ At(c, "done")
       \/ At(c, Entry(call[c].request)) /\ call[c].steps = 0
    /\ Goto(c, "free") /\ lastFailed' = TRUE
    /\ UNCHANGED <<engine, interp, pageVars, scenarios, currentScenarioId, state, requests, moves,
                   alone, tidy>>

User ==
    \/ \E c \in Call :
          \/ Step(c) \/ Run(c) \/ Reset(c) \/ LoadCustomAssembly(c)
          \/ \E id \in Scenario : SelectScenario(c, id)
          \/ \E reg \in {"SCHED_HINT", "TRAP_CONTROL"}, v \in Hint : WriteMMIO(c, reg, v)
    \/ \E tab \in Tab : OpenTab(tab)
    \/ \E source \in Custom \union {Malformed} : EditCode(source)
    \/ \E reg \in {"SCHED_HINT", "TRAP_CONTROL"} : SelectRegister(reg)

Serve(c) == Handle(c) /\ UNCHANGED <<pageVars, scenarios, currentScenarioId, state, ghostVars>>

Next ==
    \/ User
    \/ \E c \in Call : FetchScenarios(c) \/ Serve(c) \/ Receive(c) \/ ReceiveError(c) \/ Lose(c)

Spec == Init /\ [][Next]_vars

-----------------------------------------------------------------------------
(* Properties.                                                             *)

\* A request that nothing overlaps, once it has ended well, leaves the engine as it is on
\* display, whatever was clicked at once, refused or lost before.
CarefulUserSeesEngine ==
    alone /\ Quiet /\ state # None /\ ~lastFailed =>
        state = [status |-> "ok", scalars |-> Scalars, mmio |-> Registers]

\* TRAP_VECTOR is the one register that engine and interpreter reset to different values.
VectorAgrees ==
    IF engine.cycle_count = 0
    THEN engine.TRAP_VECTOR = EngineTrapVector /\ interp.vector = InterpTrapVector
    ELSE engine.TRAP_VECTOR = interp.vector

\* With one request at a time since a program was loaded, the engine's copies agree with
\* its interpreter whenever it rests, also after a load that was refused half way and
\* whoever wrote last, user or program.  Before the first step TRAP_VECTOR does not agree: the
\* engine then shows a reset value of its own, and the interpreter's from that step on.
CarefulCopiesAgree ==
    tidy /\ Quiet =>
        /\ engine.gpr = Regs(interp)
        /\ engine.RETIRED_COUNT = interp.retired
        /\ engine.instruction_count = interp.retired
        /\ engine.SCHED_HINT = interp.hint
        /\ VectorAgrees
        /\ engine.cycle_count >= interp.pos

\* While the badge says RTL the selector in the header names the program that runs, as
\* long as the user waits for answers and none is lost.
SelectorNamesProgram ==
    tidy /\ Quiet /\ lost = 0 /\ state # None /\ state.scalars.engine = "rtl" =>
        interp.program = currentScenarioId

\* The oscilloscope ends with the values on display, keeps as many samples as it has room
\* for, and no two samples in a row are the same, in whatever order replies arrive and pages open.
ScopeFollowsDisplay ==
    activeTab = "lab5" /\ state # None =>
        /\ history # <<>> /\ Len(history) <= MaxSamples
        /\ history[Len(history)].retired = state.mmio.RETIRED_COUNT
        /\ \A k \in 1 .. Len(history) - 1 :
              history[k + 1].retired # history[k].retired
              /\ history[k + 1].cycle = history[k].cycle + 1
=============================================================================
