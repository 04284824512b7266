-------------------------- MODULE WorkbenchEngine --------------------------
(***************************************************************************)
(* The engine behind the Objective 2 workbench and the request handlers    *)
(* that share it.  The server runs each handler in a thread of its own and *)
(* takes no lock, so handlers interleave from one group of statements on   *)
(* shared state to the next.  A reply is encoded after its handler has     *)
(* returned, and the register dictionaries in it are the engine's own.     *)
(*                                                                         *)
(* Registers are what they are after so many steps of a program.  One      *)
(* counter (RETIRED_COUNT), one hint that user and program write           *)
(* (SCHED_HINT) and the register that engine and interpreter reset to      *)
(* different values (TRAP_VECTOR) stand for the MMIO dictionary; stages,   *)
(* signals and capabilities are cleared and copied with it.  An            *)
(* instruction of the interpreter is one step.                             *)
(***************************************************************************)
EXTENDS Naturals, Sequences

CONSTANTS
    Scenario,   \* ids of the catalog; an id also stands for its assembly
    Custom,     \* other assembly that assembles
    NoProgram,  \* the instruction memory before anything was loaded
    Malformed,  \* assembly that does not assemble
    NoScenario,
    Hint,       \* values a user writes to SCHED_HINT
    Length,     \* Length[p]: the steps p takes before the interpreter halts
    Traps,      \* <<p, n>>: the instruction p takes after n others traps
    Stores,     \* Stores[<<p, n>>]: the register the instruction p takes after n others
                \* stores to, and the value it leaves there
    MaxSteps,   \* the max_steps of a run
    Call        \* the requests that can be under way at a time

Program == Scenario \union Custom \union {NoProgram}

ASSUME EngineAssumption ==
    /\ Hint \subseteq Nat /\ MaxSteps \in Nat
    /\ Length \in [Program -> Nat]
    /\ \A at \in DOMAIN Stores :
          Stores[at] \in [reg : {"SCHED_HINT", "TRAP_VECTOR"}, value : Nat]
    /\ Malformed \notin Program /\ NoScenario \notin Scenario

VARIABLES
    engine,     \* the fields of SimulationEngine
    interp,     \* its reference_interp
    call        \* the requests and how far their handlers are

engineVars == <<engine, interp, call>>

Zero == [of |-> NoProgram, after |-> 0]

\* Where TRAP_VECTOR starts, in the engine's dictionary and in the interpreter.
EngineTrapVector == 128
InterpTrapVector == 2048

EngineInit ==
    /\ engine = [active_engine |-> "rtl", current_scenario_id |-> NoScenario,
                 cycle_count |-> 0, instruction_count |-> 0, gpr |-> Zero,
                 RETIRED_COUNT |-> 0, SCHED_HINT |-> 0, TRAP_VECTOR |-> EngineTrapVector]
    /\ interp = [program |-> NoProgram, pos |-> 0, retired |-> 0, hint |-> 0,
                 vector |-> InterpTrapVector, halted |-> FALSE]
    /\ call = [c \in Call |-> [at |-> "free"]]

Regs(i) == IF i.pos = 0 THEN Zero ELSE [of |-> i.program, after |-> i.pos]

-----------------------------------------------------------------------------
(* Handlers: a call is at a statement, moves on and may set locals.        *)

At(c, where) == call[c].at = where

Goto(c, where) == call' = [call EXCEPT ![c].at = where]

Request == [op : {"step", "run", "reset"}]
    \union [op : {"load"}, id : Scenario]
    \union [op : {"assemble"}, source : Scenario \union Custom \union {Malformed}]
    \union [op : {"write"}, reg : {"SCHED_HINT", "TRAP_CONTROL"}, value : Hint]

\* Where the handler of a request begins.
Entry(request) ==
    CASE request.op = "step"  -> "count"
      [] request.op = "run"   -> "loop"
      [] request.op = "write" -> "poke"
      [] OTHER                -> "clear"

Called(request, then) ==
    [at |-> Entry(request), request |-> request, then |-> then,
     steps |-> 0, ev |-> FALSE, reply |-> [status |-> "none"]]

Fail(c) == call' = [call EXCEPT ![c].at = "done", ![c].reply = [status |-> "error"]]

Count(c) ==
    /\ At(c, "count") /\ Goto(c, "execute")
    /\ engine' = [engine EXCEPT !.cycle_count = @ + 1]
    /\ UNCHANGED interp

\* What a register of the interpreter holds after the instruction at a place.
Stored(at, reg, old) ==
    IF at \in DOMAIN Stores /\ Stores[at].reg = reg THEN Stores[at].value ELSE old

\* A trap does not retire the instruction, which then stores nothing, and yields no event;
\* nor does a halted interpreter.
Execute(c) ==
    LET at   == <<interp.program, interp.pos>>
        ends == interp.pos >= Length[interp.program]
        ev   == ~ends /\ at \notin Traps
    IN  /\ At(c, "execute")
        /\ call' = [call EXCEPT ![c].at = "publish", ![c].ev = ev]
        /\ interp' = CASE ends -> [interp EXCEPT !.halted = TRUE]
                       [] ev   -> [interp EXCEPT !.pos = @ + 1, !.retired = @ + 1,
                                                 !.hint = Stored(at, "SCHED_HINT", @),
                                                 !.vector = Stored(at, "TRAP_VECTOR", @)]
                       [] OTHER -> [interp EXCEPT !.pos = @ + 1]
        /\ UNCHANGED engine

\* get_state() copies the scalars; the registers join when the reply is encoded.
ScalarsOf(e, i) ==
    [engine |-> e.active_engine, scenario_id |-> e.current_scenario_id,
     cycle_count |-> e.cycle_count, instruction_count |-> e.instruction_count,
     gpr |-> e.gpr, halted |-> i.halted, pc |-> i.pos]
Scalars == ScalarsOf(engine, interp)
Registers == [RETIRED_COUNT |-> engine.RETIRED_COUNT, SCHED_HINT |-> engine.SCHED_HINT,
              TRAP_VECTOR |-> engine.TRAP_VECTOR]

\* Fault: the state is read before the handler's last statement.
Return_Early(c) ==
    call' = [call EXCEPT ![c].at = "encode", ![c].reply = [status |-> "ok", scalars |-> Scalars]]

\* A handler's last statement on the engine.
Return(c) ==
    call' = [call EXCEPT ![c].at = "encode",
                         ![c].reply = [status |-> "ok", scalars |-> ScalarsOf(engine', interp')]]

\* Fault: a hint that the program has stored is not copied.
Publish_NoHint(c) ==
    /\ At(c, "publish")
    /\ engine' = [engine EXCEPT !.gpr = Regs(interp), !.RETIRED_COUNT = interp.retired,
                                !.TRAP_VECTOR = interp.vector,
                                !.instruction_count = @ + (IF call[c].ev THEN 1 ELSE 0)]
    /\ UNCHANGED interp
    /\ IF call[c].request.op = "run"
       THEN call' = [call EXCEPT ![c].at = "loop", ![c].steps = @ + 1]
       ELSE Return(c)

\* Copies the interpreter's registers and counts the event; a step ends here, an
\* iteration of a run goes back to the loop.
Publish(c) ==
    /\ At(c, "publish")
    /\ engine' = [engine EXCEPT !.gpr = Regs(interp), !.RETIRED_COUNT = interp.retired,
                                !.SCHED_HINT = interp.hint, !.TRAP_VECTOR = interp.vector,
                                !.instruction_count = @ + (IF call[c].ev THEN 1 ELSE 0)]
    /\ UNCHANGED interp
    /\ IF call[c].request.op = "run"
       THEN call' = [call EXCEPT ![c].at = "loop", ![c].steps = @ + 1]
       ELSE Return(c)

Loop(c) ==
    /\ At(c, "loop") /\ UNCHANGED <<engine, interp>>
    /\ IF interp.halted \/ call[c].steps >= MaxSteps THEN Return(c) ELSE Goto(c, "count")

\* reset() clears the engine's own fields and then the interpreter; the program, the
\* mode and the scenario stay.
Clear(c) ==
    /\ At(c, "clear") /\ Goto(c, "clearInterp")
    /\ engine' = [engine EXCEPT !.cycle_count = 0, !.instruction_count = 0, !.gpr = Zero,
                                !.RETIRED_COUNT = 0, !.SCHED_HINT = 0,
                                !.TRAP_VECTOR = EngineTrapVector]
    /\ UNCHANGED interp

ClearInterp(c) ==
    /\ At(c, "clearInterp")
    /\ interp' = [interp EXCEPT !.pos = 0, !.retired = 0, !.hint = 0,
                                !.vector = InterpTrapVector, !.halted = FALSE]
    /\ UNCHANGED engine
    /\ IF call[c].request.op = "reset" THEN Return(c) ELSE Goto(c, "select")

SelectMode(c) ==
    /\ At(c, "select") /\ Goto(c, "program")
    /\ engine' = IF call[c].request.op = "load"
                 THEN [engine EXCEPT !.active_engine = "rtl",
                                     !.current_scenario_id = call[c].request.id]
                 ELSE [engine EXCEPT !.active_engine = "reference",
                                     !.current_scenario_id = NoScenario]
    /\ UNCHANGED interp

\* Assembly that is refused leaves the old program in a machine that was just reset.
LoadProgram(c) ==
    LET r == call[c].request
        p == IF r.op = "load" THEN r.id ELSE r.source
    IN  /\ At(c, "program") /\ UNCHANGED engine
        /\ \/ p = Malformed /\ Fail(c) /\ UNCHANGED interp
           \/ p # Malformed /\ interp' = [interp EXCEPT !.program = p] /\ Return(c)

\* Only the hint registers can be written.
Poke(c) ==
    /\ At(c, "poke") /\ UNCHANGED engine
    /\ \/ call[c].request.reg # "SCHED_HINT" /\ Fail(c) /\ UNCHANGED interp
       \/ /\ call[c].request.reg = "SCHED_HINT" /\ Goto(c, "show")
          /\ interp' = [interp EXCEPT !.hint = call[c].request.value]

ShowHint(c) ==
    /\ At(c, "show")
    /\ engine' = [engine EXCEPT !.SCHED_HINT = call[c].request.value]
    /\ UNCHANGED interp /\ Return(c)

Encode(c) ==
    /\ At(c, "encode")
    /\ call' = [call EXCEPT ![c].at = "done",
                            ![c].reply = [status |-> "ok", scalars |-> @.scalars,
                                          mmio |-> Registers]]
    /\ UNCHANGED <<engine, interp>>

Handle(c) ==
    \/ Count(c) \/ Execute(c) \/ Publish(c) \/ Loop(c)
    \/ Clear(c) \/ ClearInterp(c) \/ SelectMode(c) \/ LoadProgram(c)
    \/ Poke(c) \/ ShowHint(c) \/ Encode(c)
=============================================================================
