------------------------- MODULE WorkbenchApp_proofs -------------------------
(***************************************************************************)
(* Proofs about the Objective 2 workbench: the front end and the engine    *)
(* that its requests share.  A user who waits for each answer sees the     *)
(* engine as it is, and the oscilloscope is in order for every user.       *)
(***************************************************************************)
EXTENDS WorkbenchApp, SequenceTheorems, TLAPS

-----------------------------------------------------------------------------
(* The shape of the state.                                                 *)

Point ==
    {"free", "count", "execute", "publish", "loop", "clear", "clearInterp", "select",
     "program", "poke", "show", "encode", "done"}

EngineState ==
    [active_engine : {"rtl", "reference"}, current_scenario_id : Scenario \union {NoScenario},
     cycle_count : Nat, instruction_count : Nat, gpr : [of : Program, after : Nat],
     RETIRED_COUNT : Nat, SCHED_HINT : Nat, TRAP_VECTOR : Nat]

Interpreter ==
    [program : Program, pos : Nat, retired : Nat, hint : Nat, vector : Nat, halted : BOOLEAN]

ScalarFields ==
    [engine : {"rtl", "reference"}, scenario_id : Scenario \union {NoScenario},
     cycle_count : Nat, instruction_count : Nat, gpr : [of : Program, after : Nat],
     halted : BOOLEAN, pc : Nat]

Refusal == [status : {"error"}]
Partial == [status : {"ok"}, scalars : ScalarFields]
Answer  == [status : {"ok"}, scalars : ScalarFields,
            mmio : [RETIRED_COUNT : Nat, SCHED_HINT : Nat, TRAP_VECTOR : Nat]]

Rest == {Show} \union [after : {"select"}, id : Scenario]

UnderWay ==
    [at : Point, request : Request, then : Rest, steps : Nat, ev : BOOLEAN,
     reply : {None} \union Refusal \union Partial \union Answer]

\* A handler is at a statement of its own, and its reply is as far as it is.
AtOwnStatement(k) ==
    /\ k.at \in {"count", "execute", "publish"} => k.request.op \in {"step", "run"}
    /\ k.at = "loop" => k.request.op = "run"
    /\ k.at \in {"clear", "clearInterp"} => k.request.op \in {"reset", "load", "assemble"}
    /\ k.at \in {"select", "program"} => k.request.op \in {"load", "assemble"}
    /\ k.at \in {"poke", "show"} => k.request.op = "write"
    /\ k.at = "encode" => k.reply \in Partial
    /\ k.at = "done" => k.reply \in Refusal \union Answer

CallTypes ==
    /\ DOMAIN call = Call
    /\ \A c \in Call : ~At(c, "free") => call[c] \in UnderWay /\ AtOwnStatement(call[c])

EngineTypes == engine \in EngineState /\ interp \in Interpreter

Samples == Seq([cycle : Nat, retired : Nat])

PageTypes ==
    /\ currentScenarioId \in Scenario /\ editorCode \in Scenario \union Custom \union {Malformed}
    /\ state \in {None} \union Answer /\ history \in Samples
    /\ alone \in BOOLEAN /\ tidy \in BOOLEAN

Types == EngineTypes /\ CallTypes /\ PageTypes

LEMMA RequestShape ==
    ASSUME NEW r \in Request
    PROVE  /\ r.op \in {"step", "run", "reset", "load", "assemble", "write"}
           /\ r.op = "load" => r.id \in Scenario
           /\ r.op = "assemble" => r.source \in Scenario \union Custom \union {Malformed}
           /\ r.op = "write" => r.value \in Nat
  BY EngineAssumption DEF Request

LEMMA EntryPoint ==
    ASSUME NEW r \in Request
    PROVE  /\ r.op = "step" => Entry(r) = "count"
           /\ r.op = "run" => Entry(r) = "loop"
           /\ r.op = "write" => Entry(r) = "poke"
           /\ r.op \in {"reset", "load", "assemble"} => Entry(r) = "clear"
  BY RequestShape DEF Entry

LEMMA RegsType == ASSUME EngineTypes PROVE Regs(interp) \in [of : Program, after : Nat]
  BY DEF EngineTypes, Interpreter, Regs, Zero, Program

LEMMA StoredType ==
    ASSUME NEW at, NEW reg, NEW old \in Nat
    PROVE  Stored(at, reg, old) \in Nat
  BY EngineAssumption DEF Stored

LEMMA ScalarsType == ASSUME EngineTypes PROVE Scalars \in ScalarFields
  BY DEF EngineTypes, EngineState, Interpreter, Scalars, ScalarsOf, ScalarFields

LEMMA ReplyKinds ==
    /\ \A r \in Answer : r.status = "ok" /\ r # None
    /\ \A r \in Partial : r.status = "ok"
    /\ \A r \in Refusal : r.status = "error"
  BY DEF Answer, Partial, Refusal, None

-----------------------------------------------------------------------------
(* A step of a handler.                                                    *)

\* What a step does to the record of its call: it moves on and may set locals.
Moved(c, p) ==
    /\ ~At(c, "free") /\ DOMAIN call' = Call
    /\ call'[c] \in UnderWay /\ AtOwnStatement(call'[c]) /\ call'[c].at = p
    /\ call'[c].request = call[c].request /\ call'[c].then = call[c].then
    /\ \A d \in Call \ {c} : call'[d] = call[d]

LEMMA GotoMoves ==
    ASSUME CallTypes, NEW c \in Call, ~At(c, "free"), NEW p \in Point \ {"free"}, Goto(c, p),
           AtOwnStatement([call[c] EXCEPT !.at = p])
    PROVE  Moved(c, p) /\ call'[c] = [call[c] EXCEPT !.at = p]
  BY DEF CallTypes, Goto, Moved, UnderWay

LEMMA FailMoves ==
    ASSUME CallTypes, NEW c \in Call, ~At(c, "free"), Fail(c)
    PROVE  Moved(c, "done") /\ call'[c].reply = [status |-> "error"]
<1> DEFINE k == [call[c] EXCEPT !.at = "done", !.reply = [status |-> "error"]]
<1>1. call' = [call EXCEPT ![c] = k]
  BY DEF Fail
<1>2. /\ k \in UnderWay /\ k.at = "done" /\ k.reply = [status |-> "error"]
      /\ k.request = call[c].request /\ k.then = call[c].then
  BY DEF CallTypes, UnderWay, Refusal, Point
<1>3. AtOwnStatement(k)
  BY <1>2 DEF AtOwnStatement, Refusal
<1> QED
  BY <1>1, <1>2, <1>3 DEF Moved, CallTypes

LEMMA ReturnMoves ==
    ASSUME CallTypes, EngineTypes', NEW c \in Call, ~At(c, "free"), Return(c)
    PROVE  Moved(c, "encode") /\ call'[c].reply.scalars = Scalars'
<1> DEFINE r == [status |-> "ok", scalars |-> ScalarsOf(engine', interp')]
           k == [call[c] EXCEPT !.at = "encode", !.reply = r]
<1>1. call' = [call EXCEPT ![c] = k]
  BY DEF Return
<1>2. Scalars' = ScalarsOf(engine', interp')
  BY DEF Scalars
<1>3. r \in Partial
  <2>1. ScalarsOf(engine', interp') \in ScalarFields
    BY DEF EngineTypes, EngineState, Interpreter, ScalarsOf, ScalarFields
  <2> QED
    BY <2>1 DEF Partial
<1>4. /\ k \in UnderWay /\ k.at = "encode" /\ k.reply = r
      /\ k.request = call[c].request /\ k.then = call[c].then
  BY <1>3 DEF CallTypes, UnderWay, Point
<1>5. AtOwnStatement(k)
  BY <1>3, <1>4 DEF AtOwnStatement
<1> QED
  BY <1>1, <1>2, <1>4, <1>5 DEF Moved, CallTypes

LEMMA CountMoves ==
    ASSUME CallTypes, EngineTypes, NEW c \in Call, Count(c)
    PROVE  EngineTypes' /\ Moved(c, "execute")
<1>1. EngineTypes'
  BY DEF EngineTypes, EngineState, Count
<1>2. ~At(c, "free") /\ Goto(c, "execute") /\ call[c].request.op \in {"step", "run"}
  BY DEF Count, At, CallTypes, AtOwnStatement
<1>3. AtOwnStatement([call[c] EXCEPT !.at = "execute"])
  BY <1>2 DEF AtOwnStatement, CallTypes, UnderWay
<1> QED
  BY <1>1, <1>2, <1>3, GotoMoves DEF Point

LEMMA ExecuteMoves ==
    ASSUME CallTypes, EngineTypes, NEW c \in Call, Execute(c)
    PROVE  EngineTypes' /\ Moved(c, "publish")
<1> DEFINE ends == interp.pos >= Length[interp.program]
           ev == ~ends /\ <<interp.program, interp.pos>> \notin Traps
           k == [call[c] EXCEPT !.at = "publish", !.ev = ev]
<1>1. call' = [call EXCEPT ![c] = k] /\ ev \in BOOLEAN
  BY DEF Execute
<1>2. EngineTypes'
  <2>1. CASE ends
    BY <2>1 DEF EngineTypes, Interpreter, Execute
  <2>2. CASE ~ends
    <3>1. interp.pos \in Nat /\ interp.retired \in Nat /\ interp.hint \in Nat /\ interp.vector \in Nat
      BY DEF EngineTypes, Interpreter
    <3>2. PICK p \in Nat, r \in Nat : p = interp.pos + 1 /\ r = interp.retired + 1
      BY <3>1
    <3>3. CASE ev
      <4> DEFINE at == <<interp.program, interp.pos>>
      <4>1. PICK h \in Nat, v \in Nat :
              h = Stored(at, "SCHED_HINT", interp.hint) /\ v = Stored(at, "TRAP_VECTOR", interp.vector)
        BY <3>1, StoredType
      <4>2. /\ interp' = [interp EXCEPT !.pos = p, !.retired = r, !.hint = h, !.vector = v]
            /\ UNCHANGED engine
        BY <2>2, <3>2, <3>3, <4>1 DEF Execute
      <4> QED
        BY <4>2 DEF EngineTypes, Interpreter
    <3>4. CASE ~ev
      <4>1. interp' = [interp EXCEPT !.pos = p] /\ UNCHANGED engine
        BY <2>2, <3>2, <3>4 DEF Execute
      <4> QED
        BY <4>1 DEF EngineTypes, Interpreter
    <3> QED
      BY <3>3, <3>4
  <2> QED
    BY <2>1, <2>2
<1>3. ~At(c, "free") /\ call[c].request.op \in {"step", "run"}
  BY DEF Execute, At, CallTypes, AtOwnStatement
<1> HIDE DEF ev
<1>4. /\ k \in UnderWay /\ k.at = "publish" /\ k.request = call[c].request
      /\ k.then = call[c].then
  BY <1>1, <1>3 DEF CallTypes, UnderWay, Point
<1>5. AtOwnStatement(k)
  BY <1>3, <1>4 DEF AtOwnStatement
<1> QED
  BY <1>1, <1>2, <1>3, <1>4, <1>5 DEF Moved, CallTypes

LEMMA PublishMoves ==
    ASSUME CallTypes, EngineTypes, NEW c \in Call, Publish(c)
    PROVE  /\ EngineTypes'
           /\ call[c].request.op = "run" => Moved(c, "loop")
           /\ call[c].request.op # "run" =>
                Moved(c, "encode") /\ call'[c].reply.scalars = Scalars'
<1>1. EngineTypes'
  <2>1. Regs(interp) \in [of : Program, after : Nat]
    BY RegsType
  <2>2. PICK n : n = IF call[c].ev THEN 1 ELSE 0
    OBVIOUS
  <2>3. PICK g : g = Regs(interp)
    OBVIOUS
  <2>4. n \in Nat /\ engine.instruction_count \in Nat
    BY <2>2 DEF EngineTypes, EngineState
  <2>5. PICK m \in Nat : m = engine.instruction_count + n
    BY <2>4
  <2>6. /\ UNCHANGED interp /\ g \in [of : Program, after : Nat]
        /\ engine' = [engine EXCEPT !.gpr = g, !.RETIRED_COUNT = interp.retired,
                                    !.SCHED_HINT = interp.hint, !.TRAP_VECTOR = interp.vector,
                                    !.instruction_count = m]
    BY <2>1, <2>2, <2>3, <2>5 DEF Publish
  <2> QED
    BY <2>6 DEF EngineTypes, EngineState, Interpreter
<1>2. ~At(c, "free") /\ call[c].request.op \in {"step", "run"}
  BY DEF Publish, At, CallTypes, AtOwnStatement
<1>3. CASE call[c].request.op = "run"
  <2>1. call[c] \in UnderWay /\ call[c].steps \in Nat
    BY <1>2 DEF CallTypes, UnderWay
  <2>2. PICK m \in Nat : m = call[c].steps + 1
    BY <2>1
  <2> DEFINE k == [call[c] EXCEPT !.at = "loop", !.steps = m]
  <2>3. call' = [call EXCEPT ![c] = k]
    BY <1>3, <2>2 DEF Publish
  <2>4. /\ k \in UnderWay /\ k.at = "loop" /\ k.request = call[c].request
        /\ k.then = call[c].then
    BY <2>1 DEF UnderWay, Point
  <2>5. AtOwnStatement(k)
    BY <1>3, <2>4 DEF AtOwnStatement
  <2> QED
    BY <1>1, <1>2, <1>3, <2>3, <2>4, <2>5 DEF Moved, CallTypes
<1>4. CASE call[c].request.op # "run"
  BY <1>1, <1>2, <1>4, ReturnMoves DEF Publish
<1> QED
  BY <1>1, <1>3, <1>4

LEMMA LoopMoves ==
    ASSUME CallTypes, EngineTypes, NEW c \in Call, Loop(c)
    PROVE  /\ EngineTypes'
           /\ \/ Moved(c, "encode") /\ call'[c].reply.scalars = Scalars'
              \/ Moved(c, "count")
<1>1. EngineTypes'
  BY DEF EngineTypes, Loop
<1>2. ~At(c, "free") /\ call[c].request.op = "run"
  BY DEF Loop, At, CallTypes, AtOwnStatement
<1>3. AtOwnStatement([call[c] EXCEPT !.at = "count"])
  BY <1>2 DEF AtOwnStatement, CallTypes, UnderWay
<1>4. CASE Return(c)
  BY <1>1, <1>2, <1>4, ReturnMoves
<1>5. CASE Goto(c, "count")
  BY <1>1, <1>2, <1>3, <1>5, GotoMoves DEF Point
<1> QED
  BY <1>4, <1>5 DEF Loop

LEMMA ClearMoves ==
    ASSUME CallTypes, EngineTypes, NEW c \in Call, Clear(c)
    PROVE  EngineTypes' /\ Moved(c, "clearInterp")
<1>1. EngineTypes'
  BY DEF EngineTypes, EngineState, Clear, Zero, Program, EngineTrapVector
<1>2. /\ ~At(c, "free") /\ Goto(c, "clearInterp")
      /\ call[c].request.op \in {"reset", "load", "assemble"}
  BY DEF Clear, At, CallTypes, AtOwnStatement
<1>3. AtOwnStatement([call[c] EXCEPT !.at = "clearInterp"])
  BY <1>2 DEF AtOwnStatement, CallTypes, UnderWay
<1> QED
  BY <1>1, <1>2, <1>3, GotoMoves DEF Point

LEMMA ClearInterpMoves ==
    ASSUME CallTypes, EngineTypes, NEW c \in Call, ClearInterp(c)
    PROVE  /\ EngineTypes'
           /\ call[c].request.op = "reset" =>
                Moved(c, "encode") /\ call'[c].reply.scalars = Scalars'
           /\ call[c].request.op # "reset" => Moved(c, "select")
<1>1. EngineTypes'
  <2>1. InterpTrapVector \in Nat
    BY DEF InterpTrapVector
  <2> QED
    BY <2>1 DEF EngineTypes, Interpreter, ClearInterp
<1>2. ~At(c, "free") /\ call[c].request.op \in {"reset", "load", "assemble"}
  BY DEF ClearInterp, At, CallTypes, AtOwnStatement
<1>3. CASE call[c].request.op = "reset"
  BY <1>1, <1>2, <1>3, ReturnMoves DEF ClearInterp
<1>4. CASE call[c].request.op # "reset"
  <2>1. AtOwnStatement([call[c] EXCEPT !.at = "select"])
    BY <1>2, <1>4 DEF AtOwnStatement, CallTypes, UnderWay
  <2> QED
    BY <1>1, <1>2, <1>4, <2>1, GotoMoves DEF ClearInterp, Point
<1> QED
  BY <1>1, <1>3, <1>4

LEMMA SelectModeMoves ==
    ASSUME CallTypes, EngineTypes, NEW c \in Call, SelectMode(c)
    PROVE  EngineTypes' /\ Moved(c, "program")
<1>1. /\ ~At(c, "free") /\ Goto(c, "program") /\ call[c].request \in Request
      /\ call[c].request.op \in {"load", "assemble"}
  BY DEF SelectMode, At, CallTypes, AtOwnStatement, UnderWay
<1>2. call[c].request.op = "load" => call[c].request.id \in Scenario
  BY <1>1, RequestShape
<1>3. EngineTypes'
  BY <1>2 DEF EngineTypes, EngineState, SelectMode
<1>4. AtOwnStatement([call[c] EXCEPT !.at = "program"])
  BY <1>1 DEF AtOwnStatement, CallTypes, UnderWay
<1> QED
  BY <1>1, <1>3, <1>4, GotoMoves DEF Point

LEMMA LoadProgramMoves ==
    ASSUME CallTypes, EngineTypes, NEW c \in Call, LoadProgram(c)
    PROVE  /\ EngineTypes' /\ UNCHANGED engine
           /\ \/ /\ Moved(c, "done") /\ call'[c].reply = [status |-> "error"]
                 /\ call[c].request.op = "assemble" /\ UNCHANGED interp
              \/ /\ Moved(c, "encode") /\ call'[c].reply.scalars = Scalars'
                 /\ call[c].request.op = "load" =>
                      interp' = [interp EXCEPT !.program = call[c].request.id]
                 /\ \E p \in Program : interp' = [interp EXCEPT !.program = p]
<1> DEFINE r == call[c].request
           p == IF r.op = "load" THEN r.id ELSE r.source
<1>1. ~At(c, "free") /\ r \in Request /\ r.op \in {"load", "assemble"}
  BY DEF LoadProgram, At, CallTypes, AtOwnStatement, UnderWay
<1>2. p \in Program \union {Malformed} /\ (r.op = "load" => p \in Program)
  BY <1>1, RequestShape DEF Program
<1>3. UNCHANGED engine
  BY DEF LoadProgram
<1>4. CASE p = Malformed /\ Fail(c) /\ UNCHANGED interp
  <2>1. r.op = "assemble"
    BY <1>1, <1>2, <1>4, EngineAssumption
  <2> QED
    BY <1>1, <1>3, <1>4, <2>1, FailMoves DEF EngineTypes
<1>5. CASE p # Malformed /\ interp' = [interp EXCEPT !.program = p] /\ Return(c)
  <2>1. p \in Program
    BY <1>2, <1>5
  <2>2. EngineTypes'
    BY <1>3, <1>5, <2>1 DEF EngineTypes, Interpreter
  <2>3. Moved(c, "encode") /\ call'[c].reply.scalars = Scalars'
    BY <1>1, <1>5, <2>2, ReturnMoves
  <2> QED
    BY <1>3, <1>5, <2>1, <2>2, <2>3
<1> QED
  BY <1>4, <1>5 DEF LoadProgram

LEMMA PokeMoves ==
    ASSUME CallTypes, EngineTypes, NEW c \in Call, Poke(c)
    PROVE  /\ EngineTypes' /\ UNCHANGED engine
           /\ \/ /\ Moved(c, "done") /\ call'[c].reply = [status |-> "error"]
                 /\ UNCHANGED interp
              \/ /\ Moved(c, "show")
                 /\ interp' = [interp EXCEPT !.hint = call[c].request.value]
<1>1. /\ ~At(c, "free") /\ call[c].request.op = "write" /\ call[c].request \in Request
  BY DEF Poke, At, CallTypes, AtOwnStatement, UnderWay
<1>2. CASE Fail(c) /\ UNCHANGED interp
  BY <1>1, <1>2, FailMoves DEF EngineTypes, Poke
<1>3. CASE Goto(c, "show") /\ interp' = [interp EXCEPT !.hint = call[c].request.value]
  <2>1. call[c].request.value \in Nat
    BY <1>1, RequestShape
  <2>2. EngineTypes' /\ UNCHANGED engine
    BY <1>3, <2>1 DEF EngineTypes, Interpreter, Poke
  <2>3. AtOwnStatement([call[c] EXCEPT !.at = "show"])
    BY <1>1 DEF AtOwnStatement, CallTypes, UnderWay
  <2> QED
    BY <1>1, <1>3, <2>2, <2>3, GotoMoves DEF Point
<1> QED
  BY <1>2, <1>3 DEF Poke

LEMMA ShowHintMoves ==
    ASSUME CallTypes, EngineTypes, NEW c \in Call, ShowHint(c)
    PROVE  EngineTypes' /\ Moved(c, "encode") /\ call'[c].reply.scalars = Scalars'
<1>1. /\ ~At(c, "free") /\ call[c].request.op = "write" /\ call[c].request \in Request
  BY DEF ShowHint, At, CallTypes, AtOwnStatement, UnderWay
<1>2. call[c].request.value \in Nat
  BY <1>1, RequestShape
<1>3. EngineTypes'
  BY <1>2 DEF EngineTypes, EngineState, ShowHint
<1> QED
  BY <1>1, <1>3, ReturnMoves DEF ShowHint

LEMMA EncodeMoves ==
    ASSUME CallTypes, EngineTypes, NEW c \in Call, Encode(c)
    PROVE  /\ EngineTypes' /\ UNCHANGED <<engine, interp>> /\ Moved(c, "done")
           /\ call'[c].reply.status = "ok"
           /\ call'[c].reply = [status |-> "ok", scalars |-> call[c].reply.scalars,
                                mmio |-> Registers]
<1> DEFINE r == [status |-> "ok", scalars |-> call[c].reply.scalars, mmio |-> Registers]
           k == [call[c] EXCEPT !.at = "done", !.reply = r]
<1>1. ~At(c, "free") /\ call[c].reply \in Partial /\ UNCHANGED <<engine, interp>>
  BY DEF Encode, At, CallTypes, AtOwnStatement
<1>2. call' = [call EXCEPT ![c] = k]
  BY DEF Encode
<1>3. Registers \in [RETIRED_COUNT : Nat, SCHED_HINT : Nat, TRAP_VECTOR : Nat]
  BY DEF Registers, EngineTypes, EngineState
<1>4. r \in Answer
  BY <1>1, <1>3 DEF Answer, Partial
<1>5. /\ k \in UnderWay /\ k.at = "done" /\ k.reply = r /\ k.reply.status = "ok"
      /\ k.request = call[c].request /\ k.then = call[c].then
  BY <1>1, <1>4 DEF CallTypes, UnderWay, Point
<1>6. AtOwnStatement(k)
  BY <1>4, <1>5 DEF AtOwnStatement
<1> QED
  BY <1>1, <1>2, <1>5, <1>6 DEF Moved, CallTypes, EngineTypes

\* A handler never frees its call, and leaves the others alone.
LEMMA HandleMoves ==
    ASSUME CallTypes, EngineTypes, NEW c \in Call, Handle(c)
    PROVE  EngineTypes' /\ \E p \in Point \ {"free"} : Moved(c, p)
  BY CountMoves, ExecuteMoves, PublishMoves, LoopMoves, ClearMoves, ClearInterpMoves,
     SelectModeMoves, LoadProgramMoves, PokeMoves, ShowHintMoves, EncodeMoves
     DEF Handle, Point

-----------------------------------------------------------------------------
(* The oscilloscope.                                                       *)

\* Samples that follow one another, no two in a row the same, as many as there is room for.
InOrder(h) ==
    /\ Len(h) <= MaxSamples
    /\ \A k \in 1 .. Len(h) - 1 :
          h[k + 1].retired # h[k].retired /\ h[k + 1].cycle = h[k].cycle + 1

EndsWith(h, reply) == h # <<>> /\ h[Len(h)].retired = reply.mmio.RETIRED_COUNT

LEMMA SampleInOrder ==
    ASSUME NEW h \in Samples, InOrder(h), NEW r \in Answer, ~EndsWith(h, r)
    PROVE  Sample(h, r) \in Samples /\ InOrder(Sample(h, r)) /\ EndsWith(Sample(h, r), r)
<1> DEFINE One == [cycle : Nat, retired : Nat]
<1>1. PICK n \in Nat : n = Len(h)
  BY DEF Samples
<1>2. (\A k \in 1 .. n : h[k] \in One) /\ (h = <<>> <=> n = 0)
  <2>1. \A k \in 1 .. n : h[k] \in One
    BY <1>1, ElementOfSeq DEF Samples
  <2>2. h = <<>> <=> n = 0
    BY <1>1, EmptySeq DEF Samples
  <2> QED
    BY <2>1, <2>2
<1>3. PICK x \in Nat : x = IF n = 0 THEN 1 ELSE h[n].cycle + 1
  <2>1. CASE n = 0
    BY <2>1
  <2>2. CASE n # 0
    <3>1. h[n] \in One
      BY <1>2, <2>2
    <3> QED
      BY <2>2, <3>1
  <2> QED
    BY <2>1, <2>2
<1>4. PICK y \in Nat : y = r.mmio.RETIRED_COUNT
  BY DEF Answer
<1>5. PICK m \in 1 .. n + 1 : m = IF n + 1 > MaxSamples THEN n + 2 - MaxSamples ELSE 1
  <2>1. MaxSamples \in Nat /\ MaxSamples >= 1
    BY AppAssumption
  <2>2. CASE n + 1 > MaxSamples
    BY <2>1, <2>2
  <2>3. CASE ~(n + 1 > MaxSamples)
    BY <2>1, <2>3
  <2> QED
    BY <2>2, <2>3
<1> DEFINE e == [cycle |-> x, retired |-> y]
           all == Append(h, e)
           s == SubSeq(all, m, n + 1)
<1>6. e \in One
  OBVIOUS
<1>7. /\ all \in Seq(One) /\ Len(all) = n + 1
      /\ \A k \in 1 .. n : all[k] = h[k]
      /\ all[n + 1] = e
  BY <1>1, <1>6, AppendProperties DEF Samples
<1>8. Sample(h, r) = s
  BY <1>1, <1>3, <1>4, <1>5 DEF Sample
<1> HIDE DEF all, e
<1>9. \A k \in m .. n + 1 : all[k] \in One
  <2> HIDE DEF One
  <2>1. \A k \in 1 .. n : all[k] \in One
    BY <1>2, <1>7
  <2>2. all[n + 1] \in One
    BY <1>6, <1>7
  <2>3. TAKE k \in m .. n + 1
  <2>4. k \in 1 .. n \/ k = n + 1
    BY <1>5
  <2> QED
    BY <2>1, <2>2, <2>4
<1>10. /\ s \in Seq(One)
       /\ Len(s) = IF m <= n + 1 THEN n + 1 - m + 1 ELSE 0
       /\ \A k \in 1 .. n + 1 - m + 1 : s[k] = all[m + k - 1]
  BY <1>9, SubSeqProperties
<1> HIDE DEF s
<1>11. PICK l \in Nat \ {0} : l = n + 2 - m
  BY <1>5
<1>12. Len(s) = l /\ \A k \in 1 .. l : s[k] = all[m + k - 1]
  BY <1>10, <1>11
<1>13. l <= MaxSamples
  BY <1>5, <1>11, AppAssumption
<1>14. e.cycle = x /\ e.retired = y
  BY DEF e
<1>15. s[l] = e
  <2>1. m + l - 1 = n + 1 /\ l \in 1 .. l
    BY <1>11
  <2> QED
    BY <1>7, <1>12, <2>1
<1>16. \A k \in 1 .. n : all[k + 1].retired # all[k].retired
                         /\ all[k + 1].cycle = all[k].cycle + 1
  <2>1. SUFFICES ASSUME NEW k \in 1 .. n
                 PROVE  /\ all[k + 1].retired # all[k].retired
                        /\ all[k + 1].cycle = all[k].cycle + 1
    OBVIOUS
  <2>2. CASE k = n
    BY <1>1, <1>2, <1>3, <1>4, <1>7, <1>14, <2>2 DEF EndsWith
  <2>3. CASE k # n
    <3>1. k + 1 \in 1 .. n /\ k \in 1 .. Len(h) - 1
      BY <1>1, <2>3
    <3>2. h[k + 1].retired # h[k].retired /\ h[k + 1].cycle = h[k].cycle + 1
      BY <3>1 DEF InOrder
    <3> QED
      BY <1>7, <3>1, <3>2
  <2> QED
    BY <2>2, <2>3
<1>17. \A k \in 1 .. l - 1 : s[k + 1].retired # s[k].retired
                             /\ s[k + 1].cycle = s[k].cycle + 1
  <2>1. SUFFICES ASSUME NEW k \in 1 .. l - 1
                 PROVE  /\ s[k + 1].retired # s[k].retired
                        /\ s[k + 1].cycle = s[k].cycle + 1
    OBVIOUS
  <2>2. PICK j \in 1 .. n : j = m + k - 1
    BY <1>11
  <2>3. s[k] = all[j] /\ s[k + 1] = all[j + 1]
    BY <1>12, <2>2
  <2> QED
    BY <1>16, <2>3
<1>18. InOrder(s)
  BY <1>12, <1>13, <1>17 DEF InOrder
<1>19. EndsWith(s, r)
  BY <1>4, <1>10, <1>12, <1>14, <1>15 DEF EndsWith
<1> QED
  BY <1>8, <1>10, <1>18, <1>19 DEF Samples

-----------------------------------------------------------------------------
(* The kinds of steps, and the shape of the state after each.              *)

Source == Scenario \union Custom \union {Malformed}

\* A handler of the page sends a request; the selector names the scenario it loads.
Ask(c, r, t) ==
    /\ Send(c, r, t) /\ r \in Request /\ t \in Rest
    /\ UNCHANGED <<activeTab, editorCode, history>>
    /\ r.op \in {"step", "run", "write"} => state # None
    /\ r.op = "load" => currentScenarioId' = r.id
    /\ r.op # "load" => UNCHANGED currentScenarioId
    /\ r.op = "reset" => t.after = "select"

\* The page changes and nothing behind it.
Turn ==
    /\ UNCHANGED <<engineVars, currentScenarioId, state, alone, tidy, lost, lastFailed>>
    /\ editorCode' \in Source
    /\ \/ UNCHANGED <<activeTab, history>>
       \/ history' = IF activeTab' = "lab5" /\ state # None THEN Sample(<<>>, state) ELSE <<>>

LEMMA KindsOfSteps ==
    ASSUME PageTypes, [Next]_vars
    PROVE  \/ \E c \in Call, r \in Request, t \in Rest : Ask(c, r, t)
           \/ \E c \in Call : Serve(c) \/ Receive(c) \/ ReceiveError(c) \/ Lose(c)
           \/ Turn
<1>0. Show \in Rest /\ editorCode \in Source /\ currentScenarioId \in Scenario
  BY DEF Rest, PageTypes, Source
<1>1. ASSUME NEW c \in Call, Step(c) PROVE Ask(c, [op |-> "step"], Show)
  BY <1>0, <1>1 DEF Step, Ask, Request, pageVars
<1>2. ASSUME NEW c \in Call, Run(c) PROVE Ask(c, [op |-> "run"], Show)
  BY <1>0, <1>2 DEF Run, Ask, Request, pageVars
<1>3. ASSUME NEW c \in Call, Reset(c)
      PROVE  Ask(c, [op |-> "reset"], [after |-> "select", id |-> currentScenarioId])
  BY <1>0, <1>3 DEF Reset, Ask, Request, Rest, pageVars
<1>4. ASSUME NEW c \in Call, LoadCustomAssembly(c)
      PROVE  Ask(c, [op |-> "assemble", source |-> editorCode], Show)
  BY <1>0, <1>4 DEF LoadCustomAssembly, Ask, Request, Source, pageVars
<1>5. ASSUME NEW c \in Call, NEW id \in Scenario, SelectScenario(c, id)
      PROVE  Ask(c, [op |-> "load", id |-> id], Show)
  BY <1>0, <1>5 DEF SelectScenario, Ask, Request, pageVars
<1>6. ASSUME NEW c \in Call, NEW reg \in {"SCHED_HINT", "TRAP_CONTROL"}, NEW v \in Hint,
             WriteMMIO(c, reg, v)
      PROVE  Ask(c, [op |-> "write", reg |-> reg, value |-> v], Show)
  BY <1>0, <1>6 DEF WriteMMIO, Ask, Request
<1>7. ASSUME NEW tab \in Tab, OpenTab(tab) PROVE Turn
  <2>1. editorCode' \in Source
    BY <1>0, <1>7, AppAssumption DEF OpenTab, Source
  <2> QED
    BY <1>7, <2>1 DEF OpenTab, Turn
<1>8. ASSUME NEW source \in Custom \union {Malformed}, EditCode(source) PROVE Turn
  BY <1>8 DEF EditCode, Turn, Source
<1>9. ASSUME NEW reg \in {"SCHED_HINT", "TRAP_CONTROL"}, SelectRegister(reg) PROVE Turn
  BY <1>0, <1>9 DEF SelectRegister, Turn
<1>10. ASSUME NEW c \in Call, FetchScenarios(c)
       PROVE  Ask(c, [op |-> "load", id |-> FirstScenario], Show) \/ Turn
  <2>1. CASE Send(c, [op |-> "load", id |-> FirstScenario], Show)
             /\ currentScenarioId' = FirstScenario
    BY <1>0, <1>10, <2>1, AppAssumption DEF FetchScenarios, Ask, Request, pageVars
  <2>2. CASE UNCHANGED <<engineVars, currentScenarioId, state, alone, tidy, lost, lastFailed>>
    BY <1>0, <1>10, <2>2 DEF FetchScenarios, Turn, pageVars
  <2> QED
    BY <1>10, <2>1, <2>2 DEF FetchScenarios
<1>11. ASSUME UNCHANGED vars PROVE Turn
  BY <1>0, <1>11 DEF vars, pageVars, ghostVars, Turn
<1>12. ASSUME NEW c \in Call, NEW r, NEW t, Ask(c, r, t)
       PROVE  \E d \in Call, q \in Request, u \in Rest : Ask(d, q, u)
  BY <1>12 DEF Ask
<1>13. CASE User
  BY <1>1, <1>2, <1>3, <1>4, <1>5, <1>6, <1>7, <1>8, <1>9, <1>12, <1>13 DEF User
<1>14. CASE \E c \in Call : FetchScenarios(c)
  BY <1>10, <1>12, <1>14
<1> QED
  BY <1>11, <1>13, <1>14 DEF Next

\* What the step does to the calls.
LEMMA AskedCall ==
    ASSUME CallTypes, NEW c \in Call, NEW r \in Request, NEW t \in Rest, Ask(c, r, t)
    PROVE  /\ CallTypes' /\ At(c, "free") /\ ~At(c, "free")'
           /\ call'[c].at = Entry(r) /\ call'[c].request = r /\ call'[c].then = t
           /\ \A d \in Call \ {c} : call'[d] = call[d]
<1>1. call' = [call EXCEPT ![c] = Called(r, t)] /\ At(c, "free")
  BY DEF Ask, Send
<1>2. /\ Called(r, t) \in UnderWay /\ Called(r, t).at = Entry(r) /\ Called(r, t).request = r
      /\ Called(r, t).then = t
      /\ Entry(r) \in {"count", "loop", "poke", "clear"}
  BY EntryPoint, RequestShape DEF Called, UnderWay, Point, None
<1>3. AtOwnStatement(Called(r, t))
  BY <1>2, EntryPoint, RequestShape DEF AtOwnStatement
<1> QED
  BY <1>1, <1>2, <1>3 DEF CallTypes, At

LEMMA FreedCall ==
    ASSUME CallTypes, NEW c \in Call, Goto(c, "free")
    PROVE  /\ CallTypes' /\ At(c, "free")'
           /\ \A d \in Call \ {c} : call'[d] = call[d]
  BY DEF CallTypes, Goto, At

LEMMA ReceivedCall ==
    ASSUME CallTypes, PageTypes, NEW c \in Call, Receive(c)
    PROVE  /\ CallTypes' /\ ~At(c, "free") /\ call[c] \in UnderWay /\ call[c].reply \in Answer
           /\ \A d \in Call \ {c} : call'[d] = call[d]
           /\ \/ /\ call[c].then.after = "select" /\ call[c].then.id \in Scenario
                 /\ call'[c].at = "clear"
                 /\ call'[c].request = [op |-> "load", id |-> call[c].then.id]
              \/ call[c].then.after # "select" /\ At(c, "free")'
<1>1. ~At(c, "free") /\ call[c] \in UnderWay /\ call[c].reply \in Answer /\ call[c].then \in Rest
  BY ReplyKinds DEF Receive, At, CallTypes, AtOwnStatement, UnderWay
<1>2. CASE call[c].then.after = "select"
  <2> DEFINE r == [op |-> "load", id |-> call[c].then.id]
  <2>1. call[c].then.id \in Scenario
    BY <1>1, <1>2 DEF Rest, Show
  <2>2. r \in Request /\ r.op = "load" /\ Show \in Rest
    BY <2>1 DEF Request, Rest
  <2>3. call' = [call EXCEPT ![c] = Called(r, Show)]
    BY <1>2 DEF Receive
  <2> HIDE DEF r
  <2>4. /\ Called(r, Show) \in UnderWay /\ Called(r, Show).at = Entry(r)
        /\ Called(r, Show).request = r /\ Entry(r) = "clear"
    BY <2>2, EntryPoint, RequestShape DEF Called, UnderWay, Point, None
  <2>5. AtOwnStatement(Called(r, Show))
    BY <2>2, <2>4, EntryPoint, RequestShape DEF AtOwnStatement
  <2>6. CallTypes' /\ call'[c].at = "clear" /\ call'[c].request = r /\ \A d \in Call \ {c} : call'[d] = call[d]
    BY <2>3, <2>4, <2>5 DEF CallTypes, At
  <2> QED
    BY <1>1, <1>2, <2>1, <2>6 DEF r
<1>3. CASE call[c].then.after # "select"
  BY <1>1, <1>3, FreedCall DEF Receive
<1> QED
  BY <1>2, <1>3

-----------------------------------------------------------------------------
(* The oscilloscope follows the display, in whatever order replies arrive. *)

Scope ==
    IF activeTab = "lab5" /\ state # None
    THEN InOrder(history) /\ EndsWith(history, state)
    ELSE history = <<>>

LEMMA ScopeShows ==
    ASSUME Scope
    PROVE  ScopeFollowsDisplay
  BY DEF Scope, ScopeFollowsDisplay, InOrder, EndsWith

LEMMA NoSamples == <<>> \in Samples /\ InOrder(<<>>) /\ \A r : ~EndsWith(<<>>, r)
  BY EmptySeq, AppAssumption DEF Samples, InOrder, EndsWith

LEMMA ReceiveScope ==
    ASSUME CallTypes, PageTypes, Scope, NEW c \in Call, Receive(c)
    PROVE  history' \in Samples /\ Scope'
<1>1. PICK r \in Answer : r = call[c].reply
  BY ReceivedCall
<1>2. state' = r /\ r # None /\ activeTab' = activeTab /\ history' = HistoryAfter(r)
  BY <1>1, ReplyKinds DEF Receive
<1>3. CASE activeTab # "lab5"
  BY <1>2, <1>3 DEF Scope, HistoryAfter, PageTypes
<1>4. CASE activeTab = "lab5" /\ EndsWith(history, r)
  <2>1. history # <<>> /\ state # None /\ EndsWith(history, state) /\ InOrder(history)
    BY <1>4 DEF Scope, EndsWith
  <2>2. history' = history
    BY <1>2, <1>4, <2>1 DEF HistoryAfter, EndsWith
  <2> QED
    BY <1>2, <1>4, <2>1, <2>2 DEF Scope, PageTypes, EndsWith, InOrder
<1>5. CASE activeTab = "lab5" /\ ~EndsWith(history, r)
  <2>1. InOrder(history) /\ (history # <<>> => EndsWith(history, state))
    BY <1>5, NoSamples DEF Scope
  <2>2. history' = Sample(history, r)
    BY <1>2, <1>5, <2>1 DEF HistoryAfter, EndsWith
  <2>3. /\ Sample(history, r) \in Samples /\ InOrder(Sample(history, r))
        /\ EndsWith(Sample(history, r), r)
    BY <1>5, <2>1, SampleInOrder DEF PageTypes
  <2>4. InOrder(history') /\ EndsWith(history', r)
    BY <2>2, <2>3
  <2> QED
    BY <1>2, <1>5, <2>2, <2>3, <2>4 DEF Scope, EndsWith, InOrder
<1> QED
  BY <1>3, <1>4, <1>5

LEMMA TurnScope ==
    ASSUME PageTypes, Scope, Turn
    PROVE  history' \in Samples /\ Scope'
<1>1. CASE UNCHANGED <<activeTab, history>>
  BY <1>1 DEF Turn, Scope, PageTypes, InOrder, EndsWith
<1>2. CASE activeTab' = "lab5" /\ state # None /\ history' = Sample(<<>>, state)
  <2>1. state \in Answer
    BY <1>2 DEF PageTypes
  <2>2. /\ Sample(<<>>, state) \in Samples /\ InOrder(Sample(<<>>, state))
        /\ EndsWith(Sample(<<>>, state), state)
    BY <2>1, NoSamples, SampleInOrder
  <2> QED
    BY <1>2, <2>2 DEF Turn, Scope, InOrder, EndsWith
<1>3. CASE ~(activeTab' = "lab5" /\ state # None) /\ history' = <<>>
  BY <1>3, NoSamples DEF Turn, Scope
<1> QED
  BY <1>1, <1>2, <1>3 DEF Turn

LEMMA TypesHold ==
    ASSUME Types, Scope, [Next]_vars
    PROVE  Types' /\ Scope'
<1>0. /\ EngineTypes /\ CallTypes /\ PageTypes
  BY DEF Types
<1>1. ASSUME NEW c \in Call, NEW r \in Request, NEW t \in Rest, Ask(c, r, t)
      PROVE  Types' /\ Scope'
  <2>1. CallTypes' /\ EngineTypes'
    BY <1>0, <1>1, AskedCall DEF Ask, Send, EngineTypes
  <2>2. UNCHANGED <<activeTab, editorCode, history, state>> /\ alone' \in BOOLEAN
        /\ tidy' \in BOOLEAN
    BY <1>0, <1>1 DEF Ask, Send, PageTypes, Quiet
  <2>3. currentScenarioId' \in Scenario
    BY <1>0, <1>1, RequestShape DEF Ask, PageTypes
  <2> QED
    BY <1>0, <2>1, <2>2, <2>3 DEF Types, PageTypes, Scope, InOrder, EndsWith
<1>2. ASSUME NEW c \in Call, Serve(c) PROVE Types' /\ Scope'
  <2>1. CallTypes' /\ EngineTypes'
    BY <1>0, <1>2, HandleMoves DEF Serve, CallTypes, Moved, At
  <2> QED
    BY <1>0, <1>2, <2>1
       DEF Serve, Types, PageTypes, Scope, InOrder, EndsWith, pageVars, ghostVars
<1>3. ASSUME NEW c \in Call, Receive(c) PROVE Types' /\ Scope'
  <2>1. CallTypes' /\ EngineTypes' /\ state' \in Answer
    BY <1>0, <1>3, ReceivedCall DEF Receive, EngineTypes
  <2>2. history' \in Samples /\ Scope'
    BY <1>0, <1>3, ReceiveScope
  <2>3. currentScenarioId' \in Scenario /\ UNCHANGED editorCode
    BY <1>0, <1>3, ReceivedCall DEF Receive, PageTypes
  <2>4. alone' \in BOOLEAN /\ tidy' \in BOOLEAN
    BY <1>0, <1>3 DEF Receive, PageTypes
  <2> QED
    BY <1>0, <2>1, <2>2, <2>3, <2>4 DEF Types, PageTypes
<1>4. ASSUME NEW c \in Call, ReceiveError(c) \/ Lose(c) PROVE Types' /\ Scope'
  <2>1. CallTypes' /\ EngineTypes'
    BY <1>0, <1>4, FreedCall DEF ReceiveError, Lose, EngineTypes
  <2> QED
    BY <1>0, <1>4, <2>1
       DEF ReceiveError, Lose, Types, PageTypes, Scope, InOrder, EndsWith, pageVars
<1>5. CASE Turn
  <2>1. CallTypes' /\ EngineTypes'
    BY <1>0, <1>5 DEF Turn, engineVars, EngineTypes, CallTypes, At
  <2>2. history' \in Samples /\ Scope'
    BY <1>0, <1>5, TurnScope
  <2> QED
    BY <1>0, <1>5, <2>1, <2>2 DEF Turn, Types, PageTypes, Source
<1> QED
  BY <1>0, <1>1, <1>2, <1>3, <1>4, <1>5, KindsOfSteps

LEMMA TypesInit == ASSUME Init PROVE Types /\ Scope
<1>1. EngineTypes
  BY DEF Init, EngineInit, EngineTypes, EngineState, Interpreter, Zero, Program,
     EngineTrapVector, InterpTrapVector
<1>2. CallTypes
  BY DEF Init, EngineInit, CallTypes, At
<1>3. PageTypes
  BY AppAssumption, NoSamples DEF Init, PageTypes
<1> QED
  BY <1>1, <1>2, <1>3 DEF Types, Init, Scope

\* The oscilloscope ends with what is on display, in order and within its room, for any
\* number of requests, replies in any order, and tabs opened in between.
THEOREM ScopeFollows == Spec => []ScopeFollowsDisplay
<1>1. Init => Types /\ Scope
  BY TypesInit
<1>2. Types /\ Scope /\ [Next]_vars => (Types /\ Scope)'
  BY TypesHold
<1>3. Types /\ Scope => ScopeFollowsDisplay
  BY ScopeShows
<1> QED
  BY <1>1, <1>2, <1>3, PTL DEF Spec

-----------------------------------------------------------------------------
(* A request made alone.                                                   *)

\* What the engine shows at this moment.
Display == [status |-> "ok", scalars |-> Scalars, mmio |-> Registers]

Copied ==
    /\ engine.gpr = Regs(interp) /\ engine.RETIRED_COUNT = interp.retired
    /\ engine.instruction_count = interp.retired /\ engine.SCHED_HINT = interp.hint
    /\ engine.cycle_count >= interp.pos

CopiesAgree == Copied /\ VectorAgrees

EngineCleared ==
    /\ engine.cycle_count = 0 /\ engine.instruction_count = 0 /\ engine.gpr = Zero
    /\ engine.RETIRED_COUNT = 0 /\ engine.SCHED_HINT = 0
    /\ engine.TRAP_VECTOR = EngineTrapVector

InterpCleared ==
    /\ interp.pos = 0 /\ interp.retired = 0 /\ interp.hint = 0
    /\ interp.vector = InterpTrapVector

Op(c) == call[c].request.op

\* How far a reset has come, and what the request has loaded.
LoadAt(c) ==
    /\ At(c, "clearInterp") => EngineCleared
    /\ call[c].at \in {"select", "program"} => EngineCleared /\ InterpCleared
    /\ Op(c) \in {"load", "assemble"} /\ call[c].at \in {"encode", "done"} => CopiesAgree
    /\ Op(c) = "load" =>
         /\ call[c].request.id = currentScenarioId
         /\ call[c].at \in {"encode", "done"} => interp.program = currentScenarioId
    /\ Op(c) = "assemble" /\ call[c].at \in {"program", "encode", "done"} =>
         engine.active_engine = "reference"

\* The reply is what the engine shows.
ReplyAt(c) ==
    /\ At(c, "encode") => call[c].reply.scalars = Scalars
    /\ At(c, "done") /\ call[c].reply.status = "ok" => call[c].reply = Display

LEMMA HandleReplies ==
    ASSUME CallTypes, EngineTypes, NEW c \in Call, Handle(c), ReplyAt(c)
    PROVE  ReplyAt(c)'
<1> DEFINE Fresh == At(c, "encode")' /\ call'[c].reply.scalars = Scalars'
           Done == At(c, "done")' /\ call'[c].reply.status = "ok" => call'[c].reply = Display'
<1>1. ASSUME Fresh PROVE ReplyAt(c)'
  BY <1>1 DEF ReplyAt, At
<1>2. ASSUME NEW p \in Point \ {"encode", "done"}, Moved(c, p) PROVE ReplyAt(c)'
  BY <1>2 DEF ReplyAt, Moved, At
<1>3. ASSUME call'[c].reply = [status |-> "error"], Moved(c, "done") PROVE ReplyAt(c)'
  BY <1>3 DEF ReplyAt, Moved, At
<1>4. ASSUME NEW p, Moved(c, p) PROVE call'[c].at = p
  BY <1>4 DEF Moved
<1>5. CASE Encode(c)
  <2>1. At(c, "encode") /\ call[c].reply.scalars = Scalars
    BY <1>5 DEF Encode, ReplyAt
  <2>2. Scalars' = Scalars /\ Registers' = Registers
    BY <1>5, EncodeMoves DEF Scalars, Registers
  <2>3. call'[c].reply = Display'
    BY <1>5, <2>1, <2>2, EncodeMoves DEF Display
  <2> QED
    BY <1>5, <2>3, EncodeMoves DEF ReplyAt, Moved, At
<1>6. CASE Count(c) \/ Execute(c) \/ Clear(c) \/ SelectMode(c)
  BY <1>2, <1>6, CountMoves, ExecuteMoves, ClearMoves, SelectModeMoves DEF Point
<1>7. CASE Publish(c) \/ ClearInterp(c) \/ Loop(c)
  BY <1>1, <1>2, <1>4, <1>7, PublishMoves, ClearInterpMoves, LoopMoves DEF Point, At
<1>8. CASE LoadProgram(c) \/ Poke(c) \/ ShowHint(c)
  BY <1>1, <1>2, <1>3, <1>4, <1>8, LoadProgramMoves, PokeMoves, ShowHintMoves DEF Point, At
<1> QED
  BY <1>5, <1>6, <1>7, <1>8 DEF Handle

LEMMA HandleLoads ==
    ASSUME CallTypes, EngineTypes, NEW c \in Call, Handle(c), UNCHANGED currentScenarioId,
           LoadAt(c)
    PROVE  LoadAt(c)'
<1>1. ASSUME NEW p, Moved(c, p)
      PROVE  /\ call'[c].at = p /\ call'[c].request = call[c].request
             /\ ~At(c, "free") /\ AtOwnStatement(call[c])
             /\ Op(c) \in {"step", "run", "reset", "load", "assemble", "write"}
  BY <1>1, RequestShape DEF Moved, CallTypes, UnderWay, Op
<1>2. CASE Count(c) \/ Execute(c) \/ Publish(c) \/ Loop(c)
  <2>1. Op(c) \in {"step", "run"}
    BY <1>2 DEF Count, Execute, Publish, Loop, CallTypes, At, AtOwnStatement, Op
  <2>2. /\ call'[c].request = call[c].request
        /\ call'[c].at \in {"execute", "publish", "loop", "encode", "count"}
    BY <1>1, <1>2, CountMoves, ExecuteMoves, PublishMoves, LoopMoves
  <2> QED
    BY <2>1, <2>2 DEF LoadAt, Op, At
<1>3. CASE Clear(c)
  <2>1. EngineCleared'
    BY <1>3 DEF Clear, EngineTypes, EngineState, EngineCleared, Zero
  <2>2. call'[c].at = "clearInterp" /\ call'[c].request = call[c].request
    BY <1>1, <1>3, ClearMoves
  <2> QED
    BY <2>1, <2>2 DEF LoadAt, Op, At
<1>4. CASE ClearInterp(c)
  <2>1. EngineCleared' /\ InterpCleared'
    BY <1>4 DEF ClearInterp, EngineTypes, Interpreter, EngineCleared, InterpCleared, LoadAt
  <2>2. /\ call'[c].request = call[c].request
        /\ \/ call'[c].at = "encode" /\ Op(c) = "reset"
           \/ call'[c].at = "select"
    BY <1>1, <1>4, ClearInterpMoves DEF Op
  <2> QED
    BY <2>1, <2>2 DEF LoadAt, Op, At
<1>5. CASE SelectMode(c)
  <2>1. EngineCleared' /\ InterpCleared'
    BY <1>5 DEF SelectMode, EngineTypes, EngineState, EngineCleared, InterpCleared, LoadAt, At
  <2>2. call'[c].at = "program" /\ call'[c].request = call[c].request
    BY <1>1, <1>5, SelectModeMoves
  <2>3. Op(c) = "assemble" => engine'.active_engine = "reference"
    BY <1>5 DEF SelectMode, EngineTypes, EngineState, Op
  <2> QED
    BY <2>1, <2>2, <2>3 DEF LoadAt, Op, At
<1>6. CASE LoadProgram(c)
  <2>1. EngineCleared /\ InterpCleared
    BY <1>6 DEF LoadProgram, LoadAt, At
  <2>2. EngineCleared' /\ InterpCleared'
    BY <1>6, <2>1, LoadProgramMoves DEF EngineTypes, Interpreter, EngineCleared, InterpCleared
  <2>3. CopiesAgree'
    BY <2>2 DEF EngineCleared, InterpCleared, CopiesAgree, Copied, VectorAgrees, Regs
  <2>4. /\ call'[c].at \in {"encode", "done"} /\ call'[c].request = call[c].request
        /\ Op(c) = "load" => interp'.program = call[c].request.id
    BY <1>1, <1>6, LoadProgramMoves DEF EngineTypes, Interpreter, Op
  <2>5. Op(c) = "assemble" => engine'.active_engine = "reference"
    BY <1>6, LoadProgramMoves DEF LoadProgram, LoadAt, At
  <2> QED
    BY <2>3, <2>4, <2>5 DEF LoadAt, Op, At
<1>7. CASE Poke(c) \/ ShowHint(c)
  <2>1. Op(c) = "write"
    BY <1>7 DEF Poke, ShowHint, CallTypes, At, AtOwnStatement, Op
  <2>2. /\ call'[c].request = call[c].request /\ call'[c].at \in {"done", "show", "encode"}
    BY <1>1, <1>7, PokeMoves, ShowHintMoves
  <2> QED
    BY <2>1, <2>2 DEF LoadAt, Op, At
<1>8. CASE Encode(c)
  <2>1. /\ call'[c].request = call[c].request /\ call'[c].at = "done" /\ At(c, "encode")
        /\ UNCHANGED <<engine, interp>>
    BY <1>1, <1>8, EncodeMoves DEF Encode
  <2> QED
    BY <2>1 DEF LoadAt, Op, At, CopiesAgree, Copied, VectorAgrees, Regs
<1> QED
  BY <1>2, <1>3, <1>4, <1>5, <1>6, <1>7, <1>8 DEF Handle

\* Since a program was loaded every request was made alone: the copies agree but for what
\* the handler is about to copy, and for TRAP_VECTOR from the count of the first step on.
TidyAt(c) ==
    /\ call[c].at \in {"count", "loop", "clear", "poke", "encode", "done"} => CopiesAgree
    /\ At(c, "execute") => Copied /\ engine.cycle_count > interp.pos
    /\ At(c, "publish") =>
         /\ engine.cycle_count >= interp.pos /\ engine.cycle_count # 0
         /\ engine.instruction_count + (IF call[c].ev THEN 1 ELSE 0) = interp.retired
    /\ At(c, "show") =>
         /\ engine.gpr = Regs(interp) /\ engine.RETIRED_COUNT = interp.retired
         /\ engine.instruction_count = interp.retired /\ engine.cycle_count >= interp.pos
         /\ VectorAgrees /\ interp.hint = call[c].request.value

LEMMA HandleTidy ==
    ASSUME CallTypes, EngineTypes, NEW c \in Call, Handle(c), LoadAt(c), TidyAt(c)
    PROVE  TidyAt(c)'
<1> DEFINE p == call'[c].at
<1>0. ASSUME NEW q, Moved(c, q) PROVE p = q /\ call'[c].request = call[c].request
  BY <1>0 DEF Moved
<1>1. CASE Count(c)
  <2>1. p = "execute"
    BY <1>0, <1>1, CountMoves
  <2>2. CopiesAgree
    BY <1>1 DEF Count, TidyAt, At
  <2>3. Copied' /\ engine'.cycle_count > interp'.pos
    BY <1>1, <2>2 DEF Count, EngineTypes, EngineState, Interpreter, CopiesAgree, Copied, Regs
  <2> QED
    BY <2>1, <2>3 DEF TidyAt, At
<1>2. CASE Execute(c)
  <2>1. p = "publish"
    BY <1>0, <1>2, ExecuteMoves
  <2>2. Copied /\ engine.cycle_count > interp.pos /\ UNCHANGED engine
    BY <1>2 DEF Execute, TidyAt
  <2>3. PICK ev : ev = /\ ~(interp.pos >= Length[interp.program])
                       /\ <<interp.program, interp.pos>> \notin Traps
    OBVIOUS
  <2>4. call'[c].ev = ev
    BY <1>2, <2>3 DEF Execute, CallTypes, At, UnderWay
  <2>5. /\ interp.pos \in Nat /\ interp.retired \in Nat /\ engine.cycle_count \in Nat
        /\ engine.instruction_count \in Nat
    BY DEF EngineTypes, EngineState, Interpreter
  <2>6. PICK n \in {0, 1} : n = IF ev THEN 1 ELSE 0
    OBVIOUS
  <2>7. /\ interp'.retired = interp.retired + n
        /\ interp'.pos \in {interp.pos, interp.pos + 1}
    BY <1>2, <2>3, <2>5, <2>6 DEF Execute, EngineTypes, Interpreter
  <2>8. /\ engine'.cycle_count >= interp'.pos /\ engine'.cycle_count # 0
        /\ engine'.instruction_count + (IF call'[c].ev THEN 1 ELSE 0) = interp'.retired
    BY <2>2, <2>4, <2>5, <2>6, <2>7 DEF Copied
  <2> QED
    BY <2>1, <2>8 DEF TidyAt, At
<1>3. CASE Publish(c)
  <2>1. p \in {"loop", "encode"}
    BY <1>0, <1>3, PublishMoves
  <2>2. PICK n : n = IF call[c].ev THEN 1 ELSE 0
    OBVIOUS
  <2>3. PICK g : g = Regs(interp)
    OBVIOUS
  <2>4. PICK m : m = engine.instruction_count + n
    OBVIOUS
  <2>5. /\ interp' = interp
        /\ engine' = [engine EXCEPT !.gpr = g, !.RETIRED_COUNT = interp.retired,
                                    !.SCHED_HINT = interp.hint, !.TRAP_VECTOR = interp.vector,
                                    !.instruction_count = m]
    BY <1>3, <2>2, <2>3, <2>4 DEF Publish
  <2>6. /\ m = interp.retired
        /\ engine.cycle_count >= interp.pos /\ engine.cycle_count # 0
    BY <1>3, <2>2, <2>4 DEF Publish, TidyAt
  <2>7. Regs(interp)' = g
    BY <2>3, <2>5 DEF Regs
  <2>8. CopiesAgree'
    BY <2>5, <2>6, <2>7 DEF CopiesAgree, Copied, VectorAgrees, EngineTypes, EngineState
  <2> QED
    BY <2>1, <2>8 DEF TidyAt, At
<1>4. CASE Loop(c) \/ Encode(c)
  <2>1. p \in {"encode", "count", "done"}
    BY <1>0, <1>4, LoopMoves, EncodeMoves
  <2>2. CopiesAgree /\ UNCHANGED <<engine, interp>>
    BY <1>4 DEF Loop, Encode, TidyAt, At
  <2> QED
    BY <2>1, <2>2 DEF TidyAt, At, CopiesAgree, Copied, VectorAgrees, Regs
<1>5. CASE Clear(c) \/ SelectMode(c)
  BY <1>0, <1>5, ClearMoves, SelectModeMoves DEF TidyAt, At
<1>6. CASE ClearInterp(c)
  <2>1. EngineCleared' /\ InterpCleared'
    BY <1>6 DEF ClearInterp, EngineTypes, Interpreter, EngineCleared, InterpCleared, LoadAt
  <2>2. CopiesAgree'
    BY <2>1 DEF EngineCleared, InterpCleared, CopiesAgree, Copied, VectorAgrees, Regs
  <2>3. p \in {"encode", "select"}
    BY <1>0, <1>6, ClearInterpMoves
  <2> QED
    BY <2>2, <2>3 DEF TidyAt, At
<1>7. CASE LoadProgram(c)
  <2>1. EngineCleared /\ InterpCleared
    BY <1>7 DEF LoadProgram, LoadAt, At
  <2>2. EngineCleared' /\ InterpCleared'
    BY <1>7, <2>1, LoadProgramMoves DEF EngineTypes, Interpreter, EngineCleared, InterpCleared
  <2>3. CopiesAgree'
    BY <2>2 DEF EngineCleared, InterpCleared, CopiesAgree, Copied, VectorAgrees, Regs
  <2>4. p \in {"encode", "done"}
    BY <1>0, <1>7, LoadProgramMoves
  <2> QED
    BY <2>3, <2>4 DEF TidyAt, At
<1>8. CASE Poke(c)
  <2>1. CopiesAgree /\ UNCHANGED engine
    BY <1>8 DEF Poke, TidyAt, At
  <2>2. CASE p = "done" /\ UNCHANGED interp
    BY <2>1, <2>2 DEF TidyAt, At, CopiesAgree, Copied, VectorAgrees, Regs
  <2>3. CASE /\ p = "show" /\ call'[c].request = call[c].request
             /\ interp' = [interp EXCEPT !.hint = call[c].request.value]
    <3>1. /\ interp'.pos = interp.pos /\ interp'.retired = interp.retired
          /\ interp'.vector = interp.vector
          /\ interp'.program = interp.program /\ interp'.hint = call[c].request.value
      BY <2>3 DEF EngineTypes, Interpreter
    <3>2. Regs(interp)' = Regs(interp)
      BY <3>1 DEF Regs
    <3> QED
      BY <2>1, <2>3, <3>1, <3>2 DEF TidyAt, At, CopiesAgree, Copied, VectorAgrees
  <2> QED
    BY <1>0, <1>8, <2>2, <2>3, PokeMoves
<1>9. CASE ShowHint(c)
  <2>1. p = "encode"
    BY <1>0, <1>9, ShowHintMoves
  <2>2. engine' = [engine EXCEPT !.SCHED_HINT = interp.hint] /\ UNCHANGED interp
    BY <1>9 DEF ShowHint, TidyAt
  <2>3. CopiesAgree'
    BY <1>9, <2>2 DEF ShowHint, TidyAt, CopiesAgree, Copied, VectorAgrees, Regs, EngineTypes, EngineState
  <2> QED
    BY <2>1, <2>3 DEF TidyAt, At
<1> QED
  BY <1>1, <1>2, <1>3, <1>4, <1>5, <1>6, <1>7, <1>8, <1>9 DEF Handle

\* While the badge or the engine says RTL the program is the one the selector names.
Names ==
    state # None /\ "rtl" \in {state.scalars.engine, engine.active_engine} =>
        interp.program = currentScenarioId

\* A load will make it so, and assembly that was accepted has left RTL.
NamedAt(c) ==
    \/ Op(c) = "load"
    \/ Op(c) = "assemble" /\ (At(c, "encode") \/ (At(c, "done") /\ call[c].reply.status = "ok"))
    \/ Names

LEMMA HandleNames ==
    ASSUME CallTypes, EngineTypes, NEW c \in Call, Handle(c),
           UNCHANGED <<currentScenarioId, state>>, NamedAt(c)
    PROVE  NamedAt(c)'
<1>0. ASSUME NEW q, Moved(c, q)
      PROVE  call'[c].at = q /\ call'[c].request = call[c].request
  BY <1>0 DEF Moved
<1>1. CASE Op(c) = "load"
  BY <1>0, <1>1, HandleMoves DEF NamedAt, Op
<1>2. ASSUME Names, interp'.program = interp.program,
             engine'.active_engine \in {engine.active_engine, "reference"}
      PROVE  NamedAt(c)'
  BY <1>2 DEF Names, NamedAt
<1>3. ASSUME ~(At(c, "encode") \/ At(c, "done")), Op(c) # "load"
      PROVE  Names
  BY <1>3 DEF NamedAt
<1>4. CASE Op(c) # "load" /\ (Count(c) \/ Execute(c) \/ Publish(c) \/ Loop(c))
  <2>1. ~(At(c, "encode") \/ At(c, "done"))
    BY <1>4 DEF Count, Execute, Publish, Loop, At
  <2>2. interp'.program = interp.program /\ engine'.active_engine = engine.active_engine
    BY <1>4 DEF Count, Execute, Publish, Loop, EngineTypes, EngineState, Interpreter
  <2> QED
    BY <1>2, <1>3, <1>4, <2>1, <2>2
<1>5. CASE Op(c) # "load" /\ (Clear(c) \/ ClearInterp(c) \/ SelectMode(c))
  <2>1. ~(At(c, "encode") \/ At(c, "done"))
    BY <1>5 DEF Clear, ClearInterp, SelectMode, At
  <2>2. /\ interp'.program = interp.program
        /\ engine'.active_engine \in {engine.active_engine, "reference"}
    BY <1>5 DEF Clear, ClearInterp, SelectMode, EngineTypes, EngineState, Interpreter, Op
  <2> QED
    BY <1>2, <1>3, <1>5, <2>1, <2>2
<1>6. CASE Op(c) # "load" /\ (Poke(c) \/ ShowHint(c))
  <2>1. ~(At(c, "encode") \/ At(c, "done"))
    BY <1>6 DEF Poke, ShowHint, At
  <2>2. interp'.program = interp.program /\ engine'.active_engine = engine.active_engine
    BY <1>6 DEF Poke, ShowHint, EngineTypes, EngineState, Interpreter
  <2> QED
    BY <1>2, <1>3, <1>6, <2>1, <2>2
<1>7. CASE Op(c) # "load" /\ LoadProgram(c)
  <2>1. Names /\ Op(c) = "assemble"
    BY <1>3, <1>7 DEF LoadProgram, CallTypes, At, AtOwnStatement, Op
  <2>2. CASE Moved(c, "encode")
    BY <1>0, <2>1, <2>2 DEF NamedAt, Op, At
  <2>3. CASE UNCHANGED <<engine, interp>>
    BY <1>2, <2>1, <2>3
  <2> QED
    BY <1>7, <2>2, <2>3, LoadProgramMoves
<1>8. CASE Op(c) # "load" /\ Encode(c)
  <2>1. /\ UNCHANGED <<engine, interp>> /\ call'[c].at = "done"
        /\ call'[c].request = call[c].request
    BY <1>0, <1>8, EncodeMoves
  <2>2. call'[c].reply.status = "ok"
    BY <1>8, EncodeMoves
  <2>3. CASE Op(c) = "assemble"
    BY <2>1, <2>2, <2>3 DEF NamedAt, Op, At
  <2>4. CASE Names
    BY <1>2, <2>1, <2>4
  <2> QED
    BY <1>8, <2>3, <2>4 DEF NamedAt, Encode, At
<1> QED
  BY <1>1, <1>4, <1>5, <1>6, <1>7, <1>8 DEF Handle

-----------------------------------------------------------------------------
(* The inductive invariant.                                                *)

Busy(c) == ~At(c, "free")

\* What the page has to show, or will do next, for a request it sends.
Asked ==
    /\ lost \in Nat
    /\ \A c \in Call : Busy(c) =>
         /\ Op(c) \in {"step", "run", "write"} => state # None
         /\ Op(c) = "reset" => call[c].then.after = "select"

Others(c) == \A d \in Call \ {c} : At(d, "free")

AloneInv ==
    alone =>
      /\ \A c \in Call : Busy(c) => Others(c) /\ LoadAt(c) /\ ReplyAt(c)
      /\ Quiet /\ state # None /\ ~lastFailed => state = Display

TidyInv ==
    tidy =>
      /\ alone
      /\ Quiet => CopiesAgree
      /\ \A c \in Call : Busy(c) => TidyAt(c)

NamesInv ==
    tidy /\ lost = 0 =>
      /\ Quiet => Names
      /\ \A c \in Call : Busy(c) => NamedAt(c)

WorkInv == Types /\ Scope /\ Asked /\ AloneInv /\ TidyInv /\ NamesInv

LEMMA AskedHolds ==
    ASSUME Types, Asked, [Next]_vars
    PROVE  Asked'
<1>0. CallTypes /\ PageTypes
  BY DEF Types
<1>1. ASSUME NEW c \in Call, NEW r \in Request, NEW t \in Rest, Ask(c, r, t) PROVE Asked'
  <2>1. UNCHANGED <<lost, state>>
    BY <1>1 DEF Ask, Send
  <2>2. /\ call'[c].request = r /\ call'[c].then = t
        /\ \A d \in Call \ {c} : call'[d] = call[d]
    BY <1>0, <1>1, AskedCall
  <2> QED
    BY <1>1, <2>1, <2>2 DEF Ask, Asked, Op, Busy, At
<1>2. ASSUME NEW c \in Call, Serve(c) PROVE Asked'
  <2>1. UNCHANGED <<lost, state>>
    BY <1>2 DEF Serve, ghostVars
  <2>2. PICK p : Moved(c, p)
    BY <1>0, <1>2, HandleMoves DEF Serve, Types
  <2> QED
    BY <2>1, <2>2 DEF Moved, Asked, Op, Busy, At
<1>3. ASSUME NEW c \in Call, Receive(c) PROVE Asked'
  <2>1. /\ UNCHANGED lost /\ state' # None
        /\ \A d \in Call \ {c} : call'[d] = call[d]
    BY <1>0, <1>3, ReceivedCall, ReplyKinds DEF Receive
  <2>2. \/ call'[c].request = [op |-> "load", id |-> call[c].then.id]
        \/ At(c, "free")'
    BY <1>0, <1>3, ReceivedCall
  <2>3. Busy(c)' => Op(c)' = "load"
    BY <2>2 DEF Busy, Op
  <2> QED
    BY <2>1, <2>3 DEF Asked, Op, Busy, At
<1>4. ASSUME NEW c \in Call, ReceiveError(c) \/ Lose(c) PROVE Asked'
  <2>1. At(c, "free")' /\ \A d \in Call \ {c} : call'[d] = call[d]
    BY <1>0, <1>4, FreedCall DEF ReceiveError, Lose
  <2>2. lost' \in Nat /\ UNCHANGED state
    BY <1>4 DEF ReceiveError, Lose, Asked
  <2> QED
    BY <2>1, <2>2 DEF Asked, Op, Busy, At
<1>5. CASE Turn
  BY <1>5 DEF Turn, engineVars, Asked, Op, Busy, At
<1> QED
  BY <1>0, <1>1, <1>2, <1>3, <1>4, <1>5, KindsOfSteps

\* A request is sent.
LEMMA AskKeeps ==
    ASSUME WorkInv, NEW c \in Call, NEW r \in Request, NEW t \in Rest, Ask(c, r, t)
    PROVE  AloneInv' /\ TidyInv' /\ NamesInv'
<1>0. CallTypes
  BY DEF WorkInv, Types
<1>1. /\ At(c, "free") /\ Busy(c)' /\ call'[c].request = r /\ call'[c].at = Entry(r)
      /\ \A d \in Call \ {c} : call'[d] = call[d]
  BY <1>0, AskedCall DEF Busy
<1>2. /\ UNCHANGED <<engine, interp, state, lost, lastFailed>>
      /\ alone' = Quiet /\ tidy' = (tidy /\ Quiet)
  BY DEF Ask, Send
<1>3. Entry(r) \in {"count", "loop", "poke", "clear"}
  BY EntryPoint, RequestShape
<1>4. LoadAt(c)' /\ ReplyAt(c)'
  <2>1. r.op = "load" => currentScenarioId' = r.id
    BY DEF Ask
  <2> QED
    BY <1>1, <1>3, <2>1 DEF LoadAt, ReplyAt, Op, At
<1>5. ~Quiet' /\ \A d \in Call : Quiet /\ Busy(d)' => d = c
  BY <1>1 DEF Quiet, Busy, At
<1>6. AloneInv'
  BY <1>1, <1>2, <1>4, <1>5 DEF AloneInv, Others, Busy, At, Quiet
<1>7. tidy' => TidyAt(c)'
  <2>1. tidy' => CopiesAgree
    BY <1>2 DEF WorkInv, TidyInv
  <2>2. CopiesAgree => CopiesAgree'
    BY <1>2 DEF CopiesAgree, Copied, VectorAgrees, Regs
  <2> QED
    BY <1>1, <1>3, <2>1, <2>2 DEF TidyAt, At
<1>8. TidyInv'
  BY <1>2, <1>5, <1>7 DEF TidyInv, WorkInv
<1>9. tidy' /\ lost' = 0 => NamedAt(c)'
  <2>1. tidy' /\ lost' = 0 => Names
    BY <1>2 DEF WorkInv, NamesInv
  <2>2. r.op # "load" => UNCHANGED currentScenarioId
    BY DEF Ask
  <2>3. r.op # "load" /\ Names => Names'
    BY <1>2, <2>2 DEF Names
  <2> QED
    BY <1>1, <2>1, <2>3 DEF NamedAt, Op
<1>10. NamesInv'
  BY <1>2, <1>5, <1>9 DEF NamesInv
<1> QED
  BY <1>6, <1>8, <1>10

\* A handler goes on.
LEMMA ServeKeeps ==
    ASSUME WorkInv, NEW c \in Call, Serve(c)
    PROVE  AloneInv' /\ TidyInv' /\ NamesInv'
<1>0. CallTypes /\ EngineTypes /\ Handle(c)
  BY DEF WorkInv, Types, Serve
<1>1. UNCHANGED <<currentScenarioId, state, lost, alone, tidy, lastFailed>>
  BY DEF Serve, ghostVars
<1>2. /\ Busy(c) /\ Busy(c)' /\ \A d \in Call \ {c} : call'[d] = call[d]
  BY <1>0, HandleMoves DEF Moved, Busy, At
<1>3. ~Quiet'
  BY <1>2 DEF Quiet, Busy, At
<1>4. CASE ~alone
  BY <1>1, <1>4 DEF WorkInv, AloneInv, TidyInv, NamesInv
<1>5. CASE alone
  <2>1. Others(c) /\ LoadAt(c) /\ ReplyAt(c)
    BY <1>2, <1>5 DEF WorkInv, AloneInv
  <2>2. Others(c)' /\ \A d \in Call : Busy(d)' => d = c
    BY <1>2, <2>1 DEF Others, Busy, At
  <2>3. LoadAt(c)' /\ ReplyAt(c)'
    BY <1>0, <1>1, <2>1, HandleLoads, HandleReplies
  <2>4. AloneInv'
    BY <1>3, <2>2, <2>3 DEF AloneInv
  <2>5. tidy => TidyAt(c)'
    BY <1>0, <1>2, <2>1, HandleTidy DEF WorkInv, TidyInv
  <2>6. TidyInv'
    BY <1>1, <1>3, <1>5, <2>2, <2>5 DEF TidyInv
  <2>7. tidy /\ lost = 0 => NamedAt(c)'
    BY <1>0, <1>1, <1>2, HandleNames DEF WorkInv, NamesInv
  <2>8. NamesInv'
    BY <1>1, <1>3, <2>2, <2>7 DEF NamesInv
  <2> QED
    BY <2>4, <2>6, <2>8
<1> QED
  BY <1>4, <1>5

\* A reply arrives.
LEMMA ReceiveKeeps ==
    ASSUME WorkInv, NEW c \in Call, Receive(c)
    PROVE  AloneInv' /\ TidyInv' /\ NamesInv'
<1>0. CallTypes /\ PageTypes
  BY DEF WorkInv, Types
<1>1. /\ Busy(c) /\ At(c, "done") /\ call[c].reply.status = "ok"
      /\ UNCHANGED <<engine, interp, lost>> /\ state' = call[c].reply /\ ~lastFailed'
  BY DEF Receive, Busy, At
<1>2. \A d \in Call \ {c} : call'[d] = call[d]
  BY <1>0, ReceivedCall
<1>3. CopiesAgree' <=> CopiesAgree
  BY <1>1 DEF CopiesAgree, Copied, VectorAgrees, Regs
<1>4. tidy => CopiesAgree /\ alone
  BY <1>1 DEF WorkInv, TidyInv, TidyAt, At
<1>5. CASE call[c].then.after = "select"
  <2>1. /\ call'[c].at = "clear" /\ currentScenarioId' = call[c].then.id
        /\ call'[c].request = [op |-> "load", id |-> call[c].then.id]
    BY <1>0, <1>5, ReceivedCall DEF Receive
  <2>2. alone' = Others(c) /\ tidy' = (tidy /\ alone')
    BY <1>5 DEF Receive, Others
  <2>3. Op(c)' = "load" /\ Busy(c)' /\ ~Quiet'
    BY <2>1 DEF Op, Busy, At, Quiet
  <2>4. Others(c) => Others(c)' /\ \A d \in Call : Busy(d)' => d = c
    BY <1>2 DEF Others, Busy, At
  <2>5. LoadAt(c)' /\ ReplyAt(c)'
    BY <2>1, <2>3 DEF LoadAt, ReplyAt, At
  <2>6. AloneInv'
    BY <2>2, <2>3, <2>4, <2>5 DEF AloneInv
  <2>7. tidy' => TidyAt(c)'
    BY <1>3, <1>4, <2>1, <2>2 DEF TidyAt, At
  <2>8. TidyInv'
    BY <2>2, <2>3, <2>4, <2>7 DEF TidyInv
  <2>9. NamesInv'
    BY <2>2, <2>3, <2>4 DEF NamesInv, NamedAt
  <2> QED
    BY <2>6, <2>8, <2>9
<1>6. CASE call[c].then.after # "select"
  <2>1. /\ At(c, "free")' /\ UNCHANGED <<currentScenarioId, alone>>
        /\ tidy' = (tidy \/ (alone /\ Op(c) \in {"load", "assemble"}))
    BY <1>0, <1>6, ReceivedCall DEF Receive, Op
  <2>2. alone => Others(c) /\ LoadAt(c) /\ ReplyAt(c)
    BY <1>1 DEF WorkInv, AloneInv
  <2>3. alone => \A d \in Call : ~Busy(d)'
    BY <1>2, <2>1, <2>2 DEF Others, Busy, At
  <2>4. alone => state' = Display'
    <3>1. Display' = Display
      BY <1>1 DEF Display, Scalars, ScalarsOf, Registers
    <3> QED
      BY <1>1, <2>2, <3>1 DEF ReplyAt
  <2>5. AloneInv'
    BY <2>1, <2>3, <2>4 DEF AloneInv
  <2>6. tidy' => alone' /\ CopiesAgree'
    BY <1>1, <1>3, <1>4, <2>1, <2>2 DEF LoadAt, At
  <2>7. TidyInv'
    BY <2>1, <2>3, <2>6 DEF TidyInv
  <2>8. ASSUME tidy', lost' = 0 PROVE Names'
    <3>1. alone /\ LoadAt(c) /\ state' = Display'
      BY <1>4, <2>1, <2>2, <2>4, <2>8
    <3>2. state'.scalars.engine = engine'.active_engine
      BY <3>1 DEF Display, Scalars, ScalarsOf
    <3>3. UNCHANGED <<engine, interp, currentScenarioId>>
      BY <1>1, <2>1
    <3>4. CASE Op(c) = "load"
      <4>1. interp.program = currentScenarioId
        BY <1>1, <3>1, <3>4 DEF LoadAt, At
      <4> QED
        BY <3>3, <4>1 DEF Names
    <3>5. CASE Op(c) = "assemble"
      <4>1. engine.active_engine = "reference"
        BY <1>1, <3>1, <3>5 DEF LoadAt, At
      <4> QED
        BY <3>2, <3>3, <4>1 DEF Names
    <3>6. CASE Op(c) \notin {"load", "assemble"}
      <4>1. Op(c) \in {"step", "run", "reset", "write"}
        BY <1>0, <1>1, <3>6, RequestShape DEF CallTypes, Busy, UnderWay, Op
      <4>2. state # None
        BY <1>1, <1>6, <4>1 DEF WorkInv, Asked
      <4>3. Names
        BY <1>1, <2>1, <2>8, <3>6 DEF WorkInv, NamesInv, NamedAt
      <4> QED
        BY <3>2, <3>3, <4>2, <4>3 DEF Names
    <3> QED
      BY <3>4, <3>5, <3>6
  <2>9. NamesInv'
    BY <2>3, <2>6, <2>1, <2>8 DEF NamesInv
  <2> QED
    BY <2>5, <2>7, <2>9
<1> QED
  BY <1>5, <1>6

\* A request is refused, or lost with its reply.
LEMMA EndKeeps ==
    ASSUME WorkInv, NEW c \in Call, ReceiveError(c) \/ Lose(c)
    PROVE  AloneInv' /\ TidyInv' /\ NamesInv'
<1>0. CallTypes
  BY DEF WorkInv, Types
<1>1. /\ At(c, "free")' /\ \A d \in Call \ {c} : call'[d] = call[d]
  BY <1>0, FreedCall DEF ReceiveError, Lose
<1>2. /\ UNCHANGED <<engine, interp, state, currentScenarioId, alone, tidy>> /\ lastFailed'
      /\ Busy(c)
  BY DEF ReceiveError, Lose, Busy, At
<1>3. alone => \A d \in Call : ~Busy(d)'
  BY <1>1, <1>2 DEF WorkInv, AloneInv, Others, Busy, At
<1>4. AloneInv'
  BY <1>2, <1>3 DEF AloneInv
<1>5. call[c].at \in {"count", "loop", "poke", "clear", "done"}
  <2>1. Entry(call[c].request) \in {"count", "loop", "poke", "clear"}
    BY <1>0, <1>2, EntryPoint, RequestShape DEF CallTypes, Busy, UnderWay
  <2> QED
    BY <2>1 DEF ReceiveError, Lose, At
<1>6. tidy => alone /\ CopiesAgree
  BY <1>2, <1>5 DEF WorkInv, TidyInv, TidyAt, At
<1>7. CopiesAgree' <=> CopiesAgree
  BY <1>2 DEF CopiesAgree, Copied, VectorAgrees, Regs
<1>8. TidyInv'
  BY <1>2, <1>3, <1>6, <1>7 DEF TidyInv
<1>9. CASE Lose(c)
  <2>1. lost' # 0
    BY <1>9 DEF Lose, WorkInv, Asked
  <2> QED
    BY <1>4, <1>8, <2>1 DEF NamesInv
<1>10. CASE ReceiveError(c)
  <2>1. At(c, "done") /\ call[c].reply.status # "ok" /\ UNCHANGED lost
    BY <1>10 DEF ReceiveError
  <2>2. ASSUME tidy, lost = 0 PROVE Names
    <3>1. NamedAt(c) /\ LoadAt(c)
      BY <1>2, <1>6, <2>2 DEF WorkInv, NamesInv, AloneInv
    <3>2. CASE Op(c) = "load"
      BY <2>1, <3>1, <3>2 DEF LoadAt, At, Names
    <3> QED
      BY <2>1, <3>1, <3>2 DEF NamedAt, At
  <2>3. Names' <=> Names
    BY <1>2 DEF Names
  <2>4. NamesInv'
    BY <1>2, <1>3, <1>6, <2>1, <2>2, <2>3 DEF NamesInv
  <2> QED
    BY <1>4, <1>8, <2>4
<1> QED
  BY <1>9, <1>10

LEMMA TurnKeeps ==
    ASSUME WorkInv, Turn
    PROVE  AloneInv' /\ TidyInv' /\ NamesInv'
<1>1. UNCHANGED <<engine, interp, call, currentScenarioId, state, alone, tidy, lost, lastFailed>>
  BY DEF Turn, engineVars
<1>2. /\ CopiesAgree' <=> CopiesAgree
      /\ Display' = Display
      /\ Names' <=> Names
      /\ Quiet' <=> Quiet
  BY <1>1 DEF CopiesAgree, Copied, VectorAgrees, Regs, Display, Scalars, ScalarsOf, Registers,
     Names, Quiet, At
<1>3. ASSUME NEW c \in Call
      PROVE  /\ Busy(c)' <=> Busy(c)
             /\ Others(c)' <=> Others(c)
             /\ Op(c)' = Op(c)
  BY <1>1 DEF Busy, Others, Op, At
<1>4. ASSUME NEW c \in Call PROVE LoadAt(c)' <=> LoadAt(c)
  BY <1>1, <1>2, <1>3 DEF LoadAt, EngineCleared, InterpCleared, At
<1>5. ASSUME NEW c \in Call PROVE ReplyAt(c)' <=> ReplyAt(c)
  BY <1>1, <1>2 DEF ReplyAt, At, Scalars, ScalarsOf
<1>6. ASSUME NEW c \in Call PROVE TidyAt(c)' <=> TidyAt(c)
  BY <1>1, <1>2 DEF TidyAt, At, Regs, Copied, VectorAgrees
<1>7. ASSUME NEW c \in Call PROVE NamedAt(c)' <=> NamedAt(c)
  BY <1>1, <1>2, <1>3 DEF NamedAt, At
<1>8. AloneInv'
  BY <1>1, <1>2, <1>3, <1>4, <1>5 DEF WorkInv, AloneInv
<1>9. TidyInv'
  BY <1>1, <1>2, <1>3, <1>6 DEF WorkInv, TidyInv
<1>10. NamesInv'
  BY <1>1, <1>2, <1>3, <1>7 DEF WorkInv, NamesInv
<1> QED
  BY <1>8, <1>9, <1>10

LEMMA WorkInit == ASSUME Init PROVE WorkInv
<1>1. Types /\ Scope
  BY TypesInit
<1>2. \A c \in Call : ~Busy(c)
  BY DEF Init, EngineInit, Busy, At
<1>3. /\ state = None /\ lost = 0
      /\ engine.gpr = Zero /\ engine.RETIRED_COUNT = 0 /\ engine.instruction_count = 0
      /\ engine.SCHED_HINT = 0 /\ engine.cycle_count = 0
      /\ interp.pos = 0 /\ interp.retired = 0 /\ interp.hint = 0 /\ alone
      /\ engine.TRAP_VECTOR = EngineTrapVector /\ interp.vector = InterpTrapVector
  BY DEF Init, EngineInit
<1>4. CopiesAgree
  BY <1>3 DEF CopiesAgree, Copied, VectorAgrees, Regs
<1> QED
  BY <1>1, <1>2, <1>3, <1>4 DEF WorkInv, Asked, AloneInv, TidyInv, NamesInv, Names

LEMMA WorkStep == ASSUME WorkInv, [Next]_vars PROVE WorkInv'
<1>1. Types' /\ Scope' /\ Asked'
  BY TypesHold, AskedHolds DEF WorkInv
<1>2. AloneInv' /\ TidyInv' /\ NamesInv'
  BY KindsOfSteps, AskKeeps, ServeKeeps, ReceiveKeeps, EndKeeps, TurnKeeps DEF WorkInv, Types
<1> QED
  BY <1>1, <1>2 DEF WorkInv

THEOREM WorkbenchInvariant == Spec => []WorkInv
<1>1. Init => WorkInv
  BY WorkInit
<1>2. WorkInv /\ [Next]_vars => WorkInv'
  BY WorkStep
<1> QED
  BY <1>1, <1>2, PTL DEF Spec

\* A request that nothing overlaps, once it has ended well, leaves the engine as it is on
\* display, for any number of requests and handlers, whatever was lost or refused before.
THEOREM CarefulUser == Spec => []CarefulUserSeesEngine
<1>1. WorkInv => CarefulUserSeesEngine
  BY DEF WorkInv, AloneInv, CarefulUserSeesEngine, Display
<1> QED
  BY <1>1, WorkbenchInvariant, PTL

\* With one request at a time since a program was loaded, the engine's copies agree with its
\* interpreter whenever it rests, however often the user loads, runs, resets or writes and
\* whatever a program stores; TRAP_VECTOR agrees from the first step after a load or reset on.
THEOREM CarefulCopies == Spec => []CarefulCopiesAgree
<1>1. WorkInv => CarefulCopiesAgree
  BY DEF WorkInv, TidyInv, CarefulCopiesAgree, CopiesAgree, Copied
<1> QED
  BY <1>1, WorkbenchInvariant, PTL

\* While the badge says RTL the selector names the program that runs, as long as the user
\* waits for answers and none is lost, for any catalog of scenarios.
THEOREM SelectorNames == Spec => []SelectorNamesProgram
<1>1. WorkInv => SelectorNamesProgram
  BY DEF WorkInv, NamesInv, Names, SelectorNamesProgram
<1> QED
  BY <1>1, WorkbenchInvariant, PTL
=============================================================================
