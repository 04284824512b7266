----------------------------- MODULE StudioApp ------------------------------
(***************************************************************************)
(* The page of the Objective 1 workbench, over the hardware as RtlService  *)
(* promises it.  The page executes an operation or resets the device,      *)
(* waits for the answer without blocking, and shows the latest answer, a   *)
(* waveform of the last ones and whether it is busy.  A benchmark sequence *)
(* runs presets on its own, one every 650 ms, even after its panel is gone.*)
(*                                                                         *)
(* React shows what a handler sets at its next render: a click renders at  *)
(* once, an answer or a timer some time later.  Operands and opcode are    *)
(* one vector; the device is the number of operations it has executed,     *)
(* which stands for its telemetry.                                         *)
(***************************************************************************)
EXTENDS Integers, Sequences, FiniteSets

CONSTANTS
    Call,               \* the requests the page can have under way
    Loop,               \* the benchmark sequences it can have under way
    Vector, NoVector,   \* operands and opcode
    Presets,            \* PRESET_TEST_CASES.slice(0, 5)
    HistoryLimit,       \* entries of the waveform: 20
    MinColumns,         \* columns it has at least: 8
    MaxClicks           \* bound on what the user, the server and the network do

ASSUME StudioAssumption ==
    /\ NoVector \notin Vector
    /\ Presets \in Seq(Vector) /\ Presets # <<>>
    /\ HistoryLimit \in Nat \ {0} /\ MinColumns \in Nat
    /\ "free" \notin Loop /\ "button" \notin Loop
    /\ "idle" \notin Loop /\ "absent" \notin Loop

ResetRequest == [command |-> "reset"]
Execute(v)   == [command |-> "execute", vector |-> v]
StudioRequest == {ResetRequest} \union {Execute(v) : v \in Vector}

NoAnswer == [command |-> "none"]
Failure  == [command |-> "error"]

Executed(d, q) == IF q.command = "reset" THEN 0 ELSE d + 1
Answered(d, q) == [command |-> q.command, telemetry |-> d]

VARIABLES
    device, phase, request, reply,  \* RtlService
    shown,      \* the page's state as it is rendered
    draft,      \* that state with the updates React has yet to render
    cycle,      \* cycleRef
    awaited,    \* who waits for each call: free, button or a loop
    position,   \* the preset each loop has reached; 0 when it does not run
    panel,      \* absent, idle, or the loop whose end the mounted panel waits for
    clicks,
    \* For the properties only: whether a call has been alone since it was sent, whether
    \* the last answer shown was to such a call, whether two calls of this page have ever
    \* been under way at once, and whether a sequence has been started.
    alone, synced, crossed, autoUsed

ghosts      == <<alone, synced, crossed, autoUsed>>
backendVars == <<device, phase, request, reply>>
pageVars    == <<shown, draft, cycle, awaited, position, panel>>
studioVars  == <<backendVars, pageVars, clicks, ghosts>>

Backend == INSTANCE RtlService WITH
    Caller <- Call, Request <- StudioRequest, DeviceReset <- 0,
    Effect <- Executed, Answer <- Answered, NoReply <- NoAnswer, ErrorReply <- Failure

initialResponse == [vector |-> NoVector, telemetry |-> 0]

FreshPage(v) ==
    [vector |-> v, response |-> initialResponse, history |-> <<>>,
     busy |-> FALSE, error |-> FALSE]

StudioInit ==
    /\ Backend!ServiceInit
    /\ \E v \in Vector : shown = FreshPage(v)
    /\ draft = shown /\ cycle = 0
    /\ awaited = [c \in Call |-> "free"]
    /\ position = [l \in Loop |-> 0]
    /\ panel = "idle" /\ clicks = 0
    /\ alone = [c \in Call |-> FALSE]
    /\ synced = FALSE /\ crossed = FALSE /\ autoUsed = FALSE

-----------------------------------------------------------------------------
(* Rendering.                                                              *)

\* An entry gets its cycle when React runs the update that appends it, from the counter as
\* it is then.
Unnumbered == 0

Rendered(page, n) ==
    [page EXCEPT !.history =
        [i \in DOMAIN page.history |->
            IF page.history[i].cycle = Unnumbered THEN [page.history[i] EXCEPT !.cycle = n]
            ELSE page.history[i]]]

\* The updates of a click are rendered before anything else happens.
RenderAtOnce(page) ==
    /\ shown' = Rendered(page, cycle)
    /\ draft' = shown'

RenderLater(page) ==
    /\ draft' = page
    /\ UNCHANGED shown

Render ==
    /\ draft # shown
    /\ RenderAtOnce(draft)
    /\ UNCHANGED <<backendVars, cycle, awaited, position, panel, clicks, ghosts>>

Click ==
    /\ clicks < MaxClicks
    /\ clicks' = clicks + 1

-----------------------------------------------------------------------------
(* Calls.                                                                  *)

Waiting == {c \in Call : awaited[c] # "free"}

Alone == Waiting = {} /\ \A c \in Call : phase[c] = "idle"

\* The page sends a request; who waits for the answer is a button or a loop.
Send(c, who, q) ==
    /\ awaited[c] = "free"
    /\ Backend!Ask(c, q)
    /\ awaited' = [awaited EXCEPT ![c] = who]
    /\ alone' = [d \in Call |-> Alone /\ d = c]
    /\ crossed' = (crossed \/ Waiting # {})
    /\ UNCHANGED <<cycle, synced>>

\* Fault: the page is not made busy.
Begun_Idle(page) == [page EXCEPT !.error = FALSE]

\* setBusy(true), setError("").
Begun(page) == [page EXCEPT !.busy = TRUE, !.error = FALSE]

\* Fault: the waveform keeps one entry too many.
HistoryAfter_OneMore(h, entry) ==
    Append(IF Len(h) <= HistoryLimit THEN h ELSE Tail(h), entry)

\* current.slice(-19) and the new entry.
HistoryAfter(h, entry) ==
    Append(IF Len(h) < HistoryLimit THEN h ELSE SubSeq(h, Len(h) - HistoryLimit + 2, Len(h)),
           entry)

Succeeded(page, v, d) ==
    [page EXCEPT !.response = [vector |-> v, telemetry |-> d],
                 !.history = HistoryAfter(@, [vector |-> v, telemetry |-> d, cycle |-> Unnumbered]),
                 !.busy = FALSE]

\* Fault: the response of the last operation stays.
Cleared_HistoryOnly(page) == [page EXCEPT !.history = <<>>, !.busy = FALSE]

Cleared(page) ==
    [page EXCEPT !.response = initialResponse, !.history = <<>>, !.busy = FALSE]

\* Fault: an error leaves the page busy.
Failed_StaysBusy(page) == [page EXCEPT !.error = TRUE]

Failed(page) == [page EXCEPT !.error = TRUE, !.busy = FALSE]

\* Fault: reset does not start the count afresh.
CycleAfter_Keeps(q) == IF q.command = "reset" THEN cycle ELSE cycle + 1

CycleAfter(q) == IF q.command = "reset" THEN 0 ELSE cycle + 1

\* The end of handleExecute and handleReset: an answer or an error has come.
Receive(c) ==
    /\ awaited[c] # "free" /\ phase[c] = "idle"
    /\ awaited' = [awaited EXCEPT ![c] = "free"]
    /\ \/ /\ reply[c] = Failure
          /\ RenderLater(Failed(draft))
          /\ UNCHANGED <<cycle, synced>>
       \/ /\ reply[c] # Failure
          /\ RenderLater(IF request[c].command = "reset" THEN Cleared(draft)
                         ELSE Succeeded(draft, request[c].vector, reply[c].telemetry))
          /\ cycle' = CycleAfter(request[c])
          /\ synced' = alone[c]
    /\ UNCHANGED <<backendVars, position, panel, clicks, alone, crossed, autoUsed>>

\* The connection is lost: the page has an error, the server goes on.
Lose(c) ==
    /\ awaited[c] # "free" /\ Click
    /\ awaited' = [awaited EXCEPT ![c] = "free"]
    /\ RenderLater(Failed(draft))
    /\ synced' = FALSE
    /\ UNCHANGED <<backendVars, cycle, position, panel, alone, crossed, autoUsed>>

-----------------------------------------------------------------------------
(* What the user does.  The controls of the panel are there while its lab  *)
(* is open, and disabled while the page is busy.                           *)

Enabled == panel # "absent" /\ ~shown.busy

\* Presets, quick actions, opcode tiles and typing change the vector.
ChooseVector(v) ==
    /\ Enabled /\ v # shown.vector
    /\ RenderAtOnce([draft EXCEPT !.vector = v])
    /\ UNCHANGED <<backendVars, cycle, awaited, position, panel, clicks, ghosts>>

ExecuteCycle(c) ==
    /\ Enabled /\ panel \notin Loop /\ Click
    /\ RenderAtOnce(Begun(draft))
    /\ Send(c, "button", Execute(shown.vector))
    /\ UNCHANGED <<position, panel, autoUsed>>

Reset(c) ==
    /\ Enabled /\ Click
    /\ RenderAtOnce(Begun(draft))
    /\ Send(c, "button", ResetRequest)
    /\ UNCHANGED <<position, panel, autoUsed>>

\* One turn of the sequence's loop: the fields show the preset and it is executed.
Turn(page, n) == Begun([page EXCEPT !.vector = Presets[n]])

AutoRun(l, c) ==
    /\ Enabled /\ panel \notin Loop /\ position[l] = 0 /\ Click
    /\ RenderAtOnce(Turn(draft, 1))
    /\ Send(c, l, Execute(Presets[1]))
    /\ position' = [position EXCEPT ![l] = 1]
    /\ panel' = l /\ autoUsed' = TRUE

\* A loop that has its answer sleeps 650 ms, long enough for what is due to be rendered;
\* then it goes on whatever the page does meanwhile.
Asleep(l) == position[l] > 0 /\ draft = shown /\ \A c \in Call : awaited[c] # l

NextPreset(l, c) ==
    /\ Asleep(l) /\ position[l] < Len(Presets)
    /\ RenderLater(Turn(draft, position[l] + 1))
    /\ Send(c, l, Execute(Presets[position[l] + 1]))
    /\ position' = [position EXCEPT ![l] = @ + 1]
    /\ UNCHANGED <<panel, clicks, autoUsed>>

\* Fault: the flag of the panel is not taken back.
PanelAfter_Keeps(l) == panel

\* setIsAutoRunning(false) reaches the panel the sequence was started from, if it is mounted.
PanelAfter(l) == IF panel = l THEN "idle" ELSE panel

EndSequence(l) ==
    /\ Asleep(l) /\ position[l] = Len(Presets)
    /\ position' = [position EXCEPT ![l] = 0]
    /\ panel' = PanelAfter(l)
    /\ UNCHANGED <<backendVars, shown, draft, cycle, awaited, clicks, ghosts>>

Wake(l) == EndSequence(l) \/ \E c \in Call : NextPreset(l, c)

\* Another lab unmounts the panel and its flag; the first lab mounts a new one.
OpenLab ==
    /\ panel' = IF panel = "absent" THEN "idle" ELSE "absent"
    /\ (panel \in Loop => Click) /\ (panel \notin Loop => UNCHANGED clicks)
    /\ UNCHANGED <<backendVars, shown, draft, cycle, awaited, position, ghosts>>

\* The page is loaded anew: nothing of it is left, the server goes on.
Reload ==
    /\ Click
    /\ \E v \in Vector : shown' = FreshPage(v)
    /\ draft' = shown' /\ cycle' = 0
    /\ awaited' = [c \in Call |-> "free"]
    /\ position' = [l \in Loop |-> 0]
    /\ panel' = "idle"
    /\ alone' = [c \in Call |-> FALSE]
    /\ synced' = FALSE /\ crossed' = FALSE /\ autoUsed' = FALSE
    /\ UNCHANGED backendVars

User ==
    \/ \E v \in Vector : ChooseVector(v)
    \/ \E c \in Call : ExecuteCycle(c) \/ Reset(c) \/ \E l \in Loop : AutoRun(l, c)
    \/ OpenLab \/ Reload

\* The server, and its restart.
Serve ==
    \/ /\ \E c \in Call : Backend!Attend(c)
       /\ UNCHANGED <<pageVars, clicks, ghosts>>
    \/ /\ Backend!Restart /\ Click
       /\ alone' = [c \in Call |-> FALSE] /\ synced' = FALSE
       /\ UNCHANGED <<pageVars, crossed, autoUsed>>

StudioNext ==
    \/ Render \/ User \/ Serve
    \/ \E c \in Call : Receive(c) \/ Lose(c)
    \/ \E l \in Loop : Wake(l)

StudioSpec == StudioInit /\ [][StudioNext]_studioVars

\* The browser renders, delivers what is answered and runs its timers; the server answers.
StudioFairness ==
    /\ WF_studioVars(Render)
    /\ \A c \in Call : WF_studioVars(Receive(c))
    /\ \A c \in Call : WF_studioVars(Serve /\ phase'[c] # phase[c])
    /\ \A l \in Loop : WF_studioVars(Wake(l))

FairStudioSpec == StudioSpec /\ StudioFairness
-----------------------------------------------------------------------------
(* The waveform: one column per entry, and empty ones up to a minimum.     *)

SlackColumns == 1

Columns(h) ==
    1 .. (IF Len(h) + SlackColumns < MinColumns THEN MinColumns ELSE Len(h) + SlackColumns)

\* Fault: entries are labelled by their position.
ColumnLabel_Position(h, i) == i

\* An entry's column is labelled with its cycle, an empty one with its position.
ColumnLabel(h, i) == IF i \in DOMAIN h THEN h[i].cycle ELSE i

\* What is drawn in the rows of a column: the entry, or nothing.
Trace(h, i) == IF i \in DOMAIN h THEN {h[i]} ELSE {}

\* The tooltip of a hovered column is that of the first entry with its cycle.
Tooltip(h, n) ==
    {h[i] : i \in {j \in DOMAIN h : h[j].cycle = n /\ \A k \in 1 .. (j - 1) : h[k].cycle # n}}

-----------------------------------------------------------------------------
(* Properties.                                                             *)

Entry == [vector : Vector, telemetry : Nat, cycle : Nat]
Page ==
    [vector : Vector, busy : BOOLEAN, error : BOOLEAN,
     response : [vector : Vector \union {NoVector}, telemetry : Nat], history : Seq(Entry)]

\* The shape of the state; the history is bounded, however many answers one render shows.
StudioTypeOK ==
    /\ shown \in Page /\ draft \in Page /\ cycle \in Nat
    /\ Len(shown.history) <= HistoryLimit /\ Len(draft.history) <= HistoryLimit
    /\ awaited \in [Call -> {"free", "button"} \union Loop]
    /\ position \in [Loop -> 0 .. Len(Presets)]
    /\ panel \in {"absent", "idle"} \union Loop
    /\ phase \in [Call -> {"idle", "asked", "served"}]
    /\ request \in [Call -> StudioRequest] /\ device \in Nat
    /\ alone \in [Call -> BOOLEAN]
    /\ synced \in BOOLEAN /\ crossed \in BOOLEAN /\ autoUsed \in BOOLEAN

Settled == Waiting = {} /\ shown = draft

\* Once the page is quiet and the answer it last took was to a call that nothing else
\* overlapped, response, waveform and device tell the same story, whatever was lost,
\* refused, restarted or interleaved before.
DisplayIsLive ==
    synced /\ Settled /\ (\A c \in Call : phase[c] = "idle") =>
        LET h == shown.history
        IN  /\ shown.response.telemetry = device
            /\ IF h = <<>> THEN shown.response = initialResponse
               ELSE /\ h[Len(h)].vector = shown.response.vector
                    /\ h[Len(h)].telemetry = shown.response.telemetry

\* Unless two calls of the page crossed, the waveform holds the last operations since the
\* reset, numbered one by one up to the counter.
CyclesAreConsecutive ==
    ~crossed =>
        LET h == shown.history
        IN  /\ \A i \in DOMAIN h : h[i].cycle = h[Len(h)].cycle - (Len(h) - i)
            /\ Settled => \/ h = <<>> /\ cycle = 0
                          \/ /\ h # <<>> /\ h[Len(h)].cycle = cycle
                             /\ Len(h) = IF cycle < HistoryLimit THEN cycle ELSE HistoryLimit

\* Pointing at a column shows the entry drawn in it, and until the window slides the labels
\* go up from left to right.
ColumnsAreInOrder ==
    ~crossed =>
        LET h == shown.history
        IN  /\ \A i \in DOMAIN h : Tooltip(h, ColumnLabel(h, i)) = Trace(h, i)
            /\ cycle <= HistoryLimit /\ Settled =>
                   \A i, j \in Columns(h) : i < j => ColumnLabel(h, i) < ColumnLabel(h, j)

\* The buttons alone never overlap two calls: it takes a benchmark sequence, which goes on
\* while its panel enables Reset or after its panel is gone.
OnlyAutoRunCrosses == crossed => autoUsed

\* The page does not stay busy.
BusyEnds == shown.busy ~> ~shown.busy

\* A benchmark sequence comes to its end, and the panel takes its buttons back.
AutoRunEnds == \A l \in Loop : (position[l] > 0 \/ panel = l) ~> (position[l] = 0 /\ panel # l)
=============================================================================
