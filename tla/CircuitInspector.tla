-------------------------- MODULE CircuitInspector --------------------------
(***************************************************************************)
(* The datapath drawing of the Objective 1 workbench and the inspector it  *)
(* opens over the page for one unit: a choice of schematics on a canvas    *)
(* that can be panned and zoomed, and three more tabs.  Closing unmounts   *)
(* it.  The inspector covers the page, so no other unit can be picked      *)
(* while it is open; a pointer that leaves the canvas ends a drag, so the  *)
(* other controls are out of reach during one.  One coordinate stands for  *)
(* both; zoom is in parts of Unity, rounded.                               *)
(***************************************************************************)
EXTENDS Integers, Sequences, SequencesExt, LabPage

CONSTANTS
    Pointers,   \* places of the pointer on the canvas
    MaxPan      \* bound on how far the canvas is panned

ASSUME InspectorAssumption == Pointers \subseteq Int /\ MaxPan \in Nat

None == "none"
Unity == 20

InspectableUnit ==
    {"hcla", "booth", "shifter", "logic", "comparator", "telemetry", "reversible", "ports"}

UNIT_BY_OPCODE ==
    [opcode \in 0 .. 10 |->
        CASE opcode \in 0 .. 1 -> "hcla"
          [] opcode \in 2 .. 4 -> "logic"
          [] opcode \in 5 .. 7 -> "shifter"
          [] opcode \in 8 .. 9 -> "comparator"
          [] OTHER -> "booth"]

SCHEMATICS_MAP ==
    [hcla       |-> <<"hcla_clean", "cla4_clean", "hcla_yosys", "cla4_yosys">>,
     booth      |-> <<"booth_clean", "booth_yosys", "booth_radix4_yosys">>,
     shifter    |-> <<"shifter_clean", "alu_yosys">>,
     logic      |-> <<"alu_arch_clean", "alu_yosys">>,
     comparator |-> <<"alu_arch_clean", "alu_yosys">>,
     telemetry  |-> <<"telemetry_clean", "telemetry_yosys", "subsystem_yosys">>,
     reversible |-> <<"reversible_clean", "fredkin_yosys", "toffoli_yosys">>,
     ports      |-> <<"alu_arch_clean", "subsystem_yosys">>]

Schematics(unit) == ToSet(SCHEMATICS_MAP[unit])

SystemLab ==
    [lab |-> "system", unit |-> None, activeTab |-> "schematic",
     selectedSchematic |-> None, zoom |-> Unity, pan |-> 0, isDragging |-> FALSE,
     dragStart |-> 0, isFullscreen |-> FALSE,
     \* For the property only: the pointer during a drag; whether the wheel has been used
     \* since the zoom was last reset.
     pointer |-> 0, wheeled |-> FALSE]

-----------------------------------------------------------------------------
(* The drawing.                                                            *)

InspectUnit(unit) ==
    /\ On("system") /\ page.unit = None
    /\ page' = [SystemLab EXCEPT !.unit = unit, !.selectedSchematic = SCHEMATICS_MAP[unit][1]]

\* The ports and the result strip; the five units of the ALU; the card of the unit of the
\* operation that is selected; the legend.
Inspect ==
    \/ InspectUnit("ports")
    \/ \E unit \in {"hcla", "logic", "shifter", "comparator", "booth"} : InspectUnit(unit)
    \/ \E opcode \in 0 .. 10 : InspectUnit(UNIT_BY_OPCODE[opcode])
    \/ \E unit \in {"telemetry", "reversible"} : InspectUnit(unit)

-----------------------------------------------------------------------------
(* The inspector.                                                          *)

Open == On("system") /\ page.unit # None
Idle == Open /\ ~page.isDragging

Close == Idle /\ page' = SystemLab

SelectTab == Idle /\ Pick("system", "activeTab", {"schematic", "logic", "signals", "rtl"})

ToggleFullscreen == Idle /\ Set("isFullscreen", ~page.isFullscreen)

AtCanvas == Open /\ page.activeTab = "schematic"

ZoomReset(p) == [p EXCEPT !.zoom = Unity, !.pan = 0, !.wheeled = FALSE]

handleResetZoom == Idle /\ AtCanvas /\ page' = ZoomReset(page)

SelectSchematic ==
    /\ Idle /\ AtCanvas
    /\ \E s \in Schematics(page.unit) :
          page' = ZoomReset([page EXCEPT !.selectedSchematic = s])

Least(x, y) == IF x < y THEN x ELSE y
Greatest(x, y) == IF x < y THEN y ELSE x
Rounded(x, y) == (2 * x + y) \div (2 * y)
Percent(n) == Rounded(n * Unity, 100)

handleZoomIn == Idle /\ AtCanvas /\ Set("zoom", Least(Rounded(page.zoom * 27, 20), 6 * Unity))

handleZoomOut ==
    Idle /\ AtCanvas /\ Set("zoom", Greatest(Rounded(page.zoom * 20, 27), Percent(40)))

Wheeled(z, factor) == Greatest(Percent(30), Least(8 * Unity, Rounded(z * factor, 100)))

handleWheel ==
    /\ AtCanvas
    /\ \E factor \in {115, 88} :
          page' = [page EXCEPT !.zoom = Wheeled(@, factor), !.wheeled = TRUE]

handleMouseDown ==
    /\ Idle /\ AtCanvas
    /\ \E at \in Pointers :
          page' = [page EXCEPT !.isDragging = TRUE, !.pointer = at,
                               !.dragStart = at - page.pan]

\* Fault: the canvas jumps to the pointer.
Panned_Jump(p, at) == at

Panned(p, at) == at - p.dragStart

handleMouseMove ==
    /\ AtCanvas /\ page.isDragging
    /\ \E at \in Pointers :
          /\ Panned(page, at) \in -MaxPan .. MaxPan
          /\ page' = [page EXCEPT !.pan = Panned(page, at), !.pointer = at]

\* The button is released, or the pointer leaves the canvas.
handleMouseUp ==
    /\ AtCanvas /\ page.isDragging
    /\ page' = [page EXCEPT !.isDragging = FALSE, !.pointer = 0, !.dragStart = 0]

InspectorStep ==
    \/ Inspect \/ Close
    \/ SelectTab \/ ToggleFullscreen \/ SelectSchematic
    \/ handleResetZoom \/ handleZoomIn \/ handleZoomOut \/ handleWheel
    \/ handleMouseDown \/ handleMouseMove \/ handleMouseUp

-----------------------------------------------------------------------------
(* Properties.                                                             *)

\* Whatever the order of clicks, drags and turns of the wheel: the schematic is one of the
\* unit that was picked, closing leaves nothing behind, the point of the canvas that was
\* grabbed stays under the pointer, and the zoom is in the range of the wheel, and of the
\* buttons where the wheel was not used.
InspectorFollowsUser ==
    On("system") =>
        /\ page.unit = None => page = SystemLab
        /\ page.unit # None => page.selectedSchematic \in Schematics(page.unit)
        /\ page.isDragging => page.pointer - page.pan = page.dragStart
        /\ page.zoom \in Percent(30) .. 8 * Unity
        /\ ~page.wheeled => page.zoom \in Percent(40) .. 6 * Unity
=============================================================================
