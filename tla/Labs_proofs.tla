---------------------------- MODULE Labs_proofs -----------------------------
(***************************************************************************)
(* The pages of the labs.  Whatever is clicked, dragged, typed and         *)
(* answered and whichever labs are opened in between, the inspector, the   *)
(* probe and the race of the cores are about what the user picked, the     *)
(* divider and the capability map show what the hardware computes and      *)
(* allows, and the labs that compute gates, sums, products, shifts and     *)
(* telemetry in the browser show what the adders, the multipliers, the     *)
(* ALU and the telemetry block of the hardware would, for every word of    *)
(* the widths assumed.                                                     *)
(*                                                                         *)
(* Adders and trees are recursive functions over positions and rows; what  *)
(* they compute is proved by induction, which is that < on the numbers is  *)
(* well founded.                                                           *)
(***************************************************************************)
EXTENDS Labs, TLAPS, WellFoundedInduction, SequenceTheorems, FiniteSetTheorems

-----------------------------------------------------------------------------
(* Only opening a lab replaces the one on screen.                          *)

ArithmeticNames == {"gates", "adders", "alu", "multipliers", "telemetry"}
MachineNames    == {"divider", "booth", "compare"}
ViewNames       == {"explorer", "capabilities"}

Mounted == "lab" \in DOMAIN page

\* Every lab starts with its name among its hooks.
LEMMA LabsMounted == \A lab \in Lab : "lab" \in DOMAIN lab
  BY DEF Lab, ArithmeticLab, MachineLab, ViewLab, GatesLab, AddersLab, AluLab, MultipliersLab,
         TelemetryLab, SystemLab, IterativeDividerVisualizer, BoothWallaceVisualizer,
         LabCompareCores, Lab1ArchExplorer, Lab6CapabilityPlayground

\* A control belongs to the lab on screen and leaves it there: the labs of Objective 1.
LEMMA ArithmeticKeepsLab ==
    ASSUME Mounted, ArithmeticStep
    PROVE  page.lab \in ArithmeticNames /\ page'.lab = page.lab /\ Mounted'
<1> USE DEF Mounted, ArithmeticNames, On, Pick, Set
<1>1. CASE ToggleInput("fredkin") \/ ToggleInput("toffoli") \/ SelectGateView
  BY <1>1 DEF ToggleInput, SelectGateView
<1>2. CASE EditOperand
  BY <1>2 DEF EditOperand
<1>3. CASE ToggleCin \/ SelectAdderSchematic
  BY <1>3 DEF ToggleCin, SelectAdderSchematic
<1>4. CASE SelectOpcode \/ SelectAluSchematic \/ SelectMultiplierSchematic
  BY <1>4 DEF SelectOpcode, SelectAluSchematic, SelectMultiplierSchematic
<1>5. CASE SelectAddress \/ SelectTelemetrySchematic
  BY <1>5 DEF SelectAddress, SelectTelemetrySchematic
<1>6. ASSUME NEW v \in Vector, Execute(v)
      PROVE  page.lab \in ArithmeticNames /\ page'.lab = page.lab /\ Mounted'
  BY <1>6 DEF Execute
<1>7. QED
  BY <1>1, <1>2, <1>3, <1>4, <1>5, <1>6 DEF ArithmeticStep

\* The same of the labs of Objective 2 with a state of their own.
LEMMA MachineKeepsLab ==
    ASSUME Mounted, MachineStep
    PROVE  page.lab \in MachineNames /\ page'.lab = page.lab /\ Mounted'
<1> USE DEF Mounted, MachineNames, On, Pick, Set
<1>1. CASE EditDivider \/ DividerResetButton \/ StepDivider
  BY <1>1 DEF EditDivider, DividerResetButton, StepDivider, DividerReset
<1>2. CASE MoveSlider
  BY <1>2 DEF MoveSlider
<1>3. CASE SelectComparison \/ RunComparison \/ ReceiveComparison \/ FailComparison
  BY <1>3 DEF SelectComparison, RunComparison, ReceiveComparison, FailComparison
<1>4. QED
  BY <1>1, <1>2, <1>3 DEF MachineStep

\* The same of the labs that look into the machine.
LEMMA ViewKeepsLab ==
    ASSUME Mounted, ViewStep
    PROVE  page.lab \in ViewNames /\ page'.lab = page.lab /\ Mounted'
<1> USE DEF Mounted, ViewNames, On, Pick, Set
<1>1. CASE HandleBlockClick \/ ResetProbe \/ SwitchExplorer
  BY <1>1 DEF HandleBlockClick, ResetProbe, SwitchExplorer, PutBack
<1>2. CASE StepCapability
  BY <1>2 DEF StepCapability
<1>3. CASE SelectCapability \/ SwitchPlayground
  BY <1>3 DEF SelectCapability, SwitchPlayground
<1>4. QED
  BY <1>1, <1>2, <1>3 DEF ViewStep

\* The same of the datapath drawing and its inspector.
LEMMA InspectorKeepsLab ==
    ASSUME Mounted, InspectorStep
    PROVE  page.lab = "system" /\ page'.lab = page.lab /\ Mounted'
<1> USE DEF Mounted, On, Pick, Set, Open, Idle, AtCanvas
<1>1. CASE Close
  BY <1>1 DEF Close, SystemLab
<1>2. CASE Inspect
  <2>1. \E unit : InspectUnit(unit)
    BY <1>2 DEF Inspect
  <2>2. QED
    BY <2>1 DEF InspectUnit, SystemLab
<1>3. CASE SelectTab \/ ToggleFullscreen \/ SelectSchematic \/ handleResetZoom
  BY <1>3 DEF SelectTab, ToggleFullscreen, SelectSchematic, handleResetZoom, ZoomReset
<1>4. CASE handleZoomIn \/ handleZoomOut \/ handleWheel
  BY <1>4 DEF handleZoomIn, handleZoomOut, handleWheel
<1>5. CASE handleMouseDown \/ handleMouseMove \/ handleMouseUp
  BY <1>5 DEF handleMouseDown, handleMouseMove, handleMouseUp
<1>6. QED
  BY <1>1, <1>2, <1>3, <1>4, <1>5 DEF InspectorStep

-----------------------------------------------------------------------------
(* The circuit inspector.                                                  *)

Hooks ==
    {"lab", "unit", "activeTab", "selectedSchematic", "zoom", "pan", "isDragging", "dragStart",
     "isFullscreen", "pointer", "wheeled"}

\* The property is inductive with the shape of the inspector's state.
InspectorInv ==
    On("system") =>
        /\ Hooks \subseteq DOMAIN page
        /\ page.unit \in InspectableUnit \union {None}
        /\ page.pan \in Int /\ page.dragStart \in Int /\ page.pointer \in Int
        /\ InspectorFollowsUser

\* Every unit has a schematic to open with.
LEMMA FirstSchematic ==
    \A unit \in InspectableUnit :
        SCHEMATICS_MAP[unit][1] \in Schematics(unit) /\ unit # None
<1>1. \A unit \in InspectableUnit :
          1 \in DOMAIN SCHEMATICS_MAP[unit] /\ unit # None
  BY DEF InspectableUnit, SCHEMATICS_MAP, None
<1>2. QED
  BY <1>1 DEF Schematics, ToSet

\* The ends of the two ranges.
LEMMA ZoomRanges ==
    /\ Percent(30) = 6 /\ Percent(40) = 8
    /\ Unity \in Percent(40) .. 6 * Unity /\ Unity \in Percent(30) .. 8 * Unity
    /\ \A z : z \in Percent(40) .. 6 * Unity => z \in Percent(30) .. 8 * Unity
  BY DEF Percent, Rounded, Unity

\* One step of the wheel and one click of a button stay in their ranges.
LEMMA ZoomSteps ==
    ASSUME NEW z \in Percent(30) .. 8 * Unity
    PROVE  /\ Least(Rounded(z * 27, 20), 6 * Unity) \in Percent(40) .. 6 * Unity
           /\ Greatest(Rounded(z * 20, 27), Percent(40)) \in Percent(40) .. 6 * Unity
           /\ \A factor \in {115, 88} : Wheeled(z, factor) \in Percent(30) .. 8 * Unity
<1>1. z \in 6 .. 160 /\ Percent(30) = 6 /\ Percent(40) = 8 /\ Unity = 20
  BY ZoomRanges DEF Unity
<1>2. Least(Rounded(z * 27, 20), 120) \in 8 .. 120
  BY <1>1 DEF Least, Rounded
<1>3. Greatest(Rounded(z * 20, 27), 8) \in 8 .. 120
  BY <1>1 DEF Greatest, Rounded
<1>4. \A factor \in {115, 88} : Greatest(6, Least(160, Rounded(z * factor, 100))) \in 6 .. 160
  BY <1>1 DEF Greatest, Least, Rounded
<1>5. QED
  BY <1>1, <1>2, <1>3, <1>4 DEF Wheeled

\* The drawing with no inspector over it.
LEMMA SystemLabFollows == page = SystemLab => InspectorInv
  BY ZoomRanges DEF SystemLab, InspectorInv, InspectorFollowsUser, Hooks, On

\* A unit is picked.
LEMMA InspectUnitFollows ==
    ASSUME NEW unit \in InspectableUnit, InspectUnit(unit)
    PROVE  InspectorInv'
<1>1. page' = [SystemLab EXCEPT !.unit = unit, !.selectedSchematic = SCHEMATICS_MAP[unit][1]]
  BY DEF InspectUnit
<1>2. /\ Hooks \subseteq DOMAIN page'
      /\ page'.unit = unit /\ page'.selectedSchematic = SCHEMATICS_MAP[unit][1]
      /\ ~page'.isDragging /\ page'.zoom = Unity
      /\ page'.pan = 0 /\ page'.dragStart = 0 /\ page'.pointer = 0
  BY <1>1 DEF SystemLab, Hooks
<1>3. InspectorFollowsUser'
  BY <1>2, FirstSchematic, ZoomRanges DEF InspectorFollowsUser
<1>4. QED
  BY <1>2, <1>3 DEF InspectorInv

\* Controls of the open inspector: what they have to keep.
LEMMA OpenInspectorFollows ==
    ASSUME InspectorInv, On("system"), page.unit # None,
           Hooks \subseteq DOMAIN page', page'.unit = page.unit,
           page'.selectedSchematic \in Schematics(page.unit),
           page'.pan \in Int, page'.dragStart \in Int, page'.pointer \in Int,
           page'.isDragging => page'.pointer - page'.pan = page'.dragStart,
           page'.zoom \in Percent(30) .. 8 * Unity,
           ~page'.wheeled => page'.zoom \in Percent(40) .. 6 * Unity
    PROVE  InspectorInv'
  BY DEF InspectorInv, InspectorFollowsUser

\* Every control of the inspector keeps the invariant.
LEMMA InspectorStepFollows == ASSUME InspectorInv, InspectorStep PROVE InspectorInv'
<1>1. CASE Inspect
  <2>1. \A opcode \in 0 .. 10 : UNIT_BY_OPCODE[opcode] \in InspectableUnit
    BY DEF UNIT_BY_OPCODE, InspectableUnit
  <2>2. \E unit \in InspectableUnit : InspectUnit(unit)
    BY <1>1, <2>1 DEF Inspect, InspectableUnit
  <2>3. QED
    BY <2>2, InspectUnitFollows
<1>2. CASE Close
  <2>1. page' = SystemLab
    BY <1>2 DEF Close
  <2>2. QED
    BY <2>1, ZoomRanges DEF SystemLab, InspectorInv, InspectorFollowsUser, Hooks, On
<1>3. ASSUME ~Inspect, ~Close PROVE InspectorInv'
  <2>1. /\ On("system") /\ page.unit # None /\ Hooks \subseteq DOMAIN page
        /\ page.selectedSchematic \in Schematics(page.unit)
        /\ page.pan \in Int /\ page.dragStart \in Int /\ page.pointer \in Int
        /\ page.isDragging => page.pointer - page.pan = page.dragStart
        /\ page.zoom \in Percent(30) .. 8 * Unity
        /\ ~page.wheeled => page.zoom \in Percent(40) .. 6 * Unity
    <3>1. On("system") /\ page.unit # None
      BY <1>3 DEF InspectorStep, SelectTab, ToggleFullscreen, SelectSchematic,
             handleResetZoom, handleZoomIn, handleZoomOut, handleWheel, handleMouseDown,
             handleMouseMove, handleMouseUp, Idle, AtCanvas, Open
    <3>2. QED
      BY <3>1 DEF InspectorInv, InspectorFollowsUser
  <2> USE <2>1 DEF Hooks
  <2>2. CASE SelectTab \/ ToggleFullscreen
    BY <2>2, OpenInspectorFollows DEF SelectTab, ToggleFullscreen, Pick, Set
  <2>3. CASE SelectSchematic
    BY <2>3, OpenInspectorFollows, ZoomRanges DEF SelectSchematic, ZoomReset, Idle
  <2>4. CASE handleResetZoom
    BY <2>4, OpenInspectorFollows, ZoomRanges DEF handleResetZoom, ZoomReset, Idle
  <2>5. CASE handleZoomIn \/ handleZoomOut
    <3>1. PICK z : page' = [page EXCEPT !["zoom"] = z] /\ z \in Percent(40) .. 6 * Unity
      BY <2>5, ZoomSteps DEF handleZoomIn, handleZoomOut, Set
    <3>2. QED
      BY <3>1, OpenInspectorFollows, ZoomRanges
  <2>6. CASE handleWheel
    BY <2>6, OpenInspectorFollows, ZoomSteps DEF handleWheel
  <2>7. CASE handleMouseDown
    BY <2>7, OpenInspectorFollows, InspectorAssumption DEF handleMouseDown
  <2>8. CASE handleMouseMove
    BY <2>8, OpenInspectorFollows, InspectorAssumption DEF handleMouseMove, Panned
  <2>9. CASE handleMouseUp
    BY <2>9, OpenInspectorFollows DEF handleMouseUp
  <2>10. QED
    BY <1>3, <2>2, <2>3, <2>4, <2>5, <2>6, <2>7, <2>8, <2>9 DEF InspectorStep
<1>4. QED
  BY <1>1, <1>2, <1>3

-----------------------------------------------------------------------------
(* The probe and the drawer of the architecture explorer.                  *)

ExplorerHooks == {"lab", "viewMode", "selectedModule", "selectedBlock", "putBack"}

ExplorerInv == On("explorer") => ExplorerHooks \subseteq DOMAIN page /\ ProbeFollowsClicks

\* Clicks, the reset of the probe and the change of the view keep the invariant.
LEMMA ExplorerStepFollows == ASSUME ExplorerInv, ViewStep, Mounted PROVE ExplorerInv'
<1> USE DEF ExplorerHooks
<1>1. CASE HandleBlockClick
  BY <1>1 DEF HandleBlockClick, ExplorerInv, ProbeFollowsClicks, On, SelectedModule
<1>2. CASE ResetProbe
  BY <1>2 DEF ResetProbe, ExplorerInv, ProbeFollowsClicks, On, PutBack
<1>3. CASE SwitchExplorer
  BY <1>3 DEF SwitchExplorer, ExplorerInv, ProbeFollowsClicks, On, PutBack, Set
<1>4. CASE StepCapability \/ SelectCapability \/ SwitchPlayground
  <2>1. page.lab = "capabilities" /\ page'.lab = page.lab
    BY <1>4, ViewKeepsLab
    DEF StepCapability, SelectCapability, SwitchPlayground, On, ViewStep
  <2>2. QED
    BY <2>1 DEF ExplorerInv, On
<1>5. QED
  BY <1>1, <1>2, <1>3, <1>4 DEF ViewStep

-----------------------------------------------------------------------------
(* The race of the two cores.                                              *)

CompareHooks == {"lab", "selectedId", "comparison", "loading", "request", "kept", "failed"}

\* An answer is to the request on its way, which is for the program selected unless the
\* selection has been changed since.
CompareInv ==
    On("compare") =>
        /\ CompareHooks \subseteq DOMAIN page
        /\ page.selectedId \in ToSet(Scenario)
        /\ page.loading => /\ page.request \in ToSet(Scenario)
                           /\ page.kept => page.request = page.selectedId
        /\ \/ page.comparison = NoComparison
           \/ \E id \in ToSet(Scenario) : page.comparison = compare_cores(id)
        /\ ~page.loading /\ page.kept /\ ~page.failed /\ page.comparison # NoComparison =>
               page.comparison = compare_cores(page.selectedId)

\* Percentages below 100.
LEMMA PercentOfMore ==
    ASSUME NEW n \in Nat \ {0}, NEW m \in Nat, n < m
    PROVE  (n * 100) \div m \in 0 .. 99
<1>1. m \in Nat \ {0} /\ n * 100 \in Nat /\ n * 100 < m * 100
  OBVIOUS
<1> QED
  BY <1>1

\* The core with a pipeline is never behind.
LEMMA RaceWithin ==
    ASSUME NEW id \in ToSet(Scenario) PROVE RaceWidth(compare_cores(id)) \in 0 .. 99
<1> DEFINE m == Measured[id]
<1>1. m.instructions \in Nat \ {0} /\ m.stalls \in Nat
  BY MachineLabsAssumption
<1> HIDE DEF m
<1>2. m.instructions < m.instructions + 4 + m.stalls /\ m.instructions + 4 + m.stalls \in Nat
  BY <1>1
<1>3. (m.instructions * 100) \div (m.instructions + 4 + m.stalls) \in 0 .. 99
  BY <1>1, <1>2, PercentOfMore
<1>4. /\ compare_cores(id).single_cycle.cycles = m.instructions
      /\ compare_cores(id).pipelined.cycles = m.instructions + 4 + m.stalls
  BY DEF compare_cores, m
<1>5. QED
  BY <1>3, <1>4 DEF RaceWidth

\* The property is a part of the invariant, but for the length of the track.
LEMMA CompareInvSuffices == CompareInv => ComparisonIsOfSelection
  BY RaceWithin DEF CompareInv, ComparisonIsOfSelection

\* Selections, requests, answers and failures keep the invariant.
LEMMA CompareStepFollows == ASSUME CompareInv, MachineStep, Mounted PROVE CompareInv'
<1> USE DEF CompareHooks
<1>1. CASE SelectComparison
  BY <1>1 DEF SelectComparison, CompareInv, On
<1>2. CASE RunComparison
  BY <1>2 DEF RunComparison, CompareInv, On, Requested
<1>3. CASE ReceiveComparison
  BY <1>3 DEF ReceiveComparison, CompareInv, On
<1>4. CASE FailComparison
  BY <1>4 DEF FailComparison, CompareInv, On
<1>5. CASE EditDivider \/ DividerResetButton \/ StepDivider \/ MoveSlider
  <2>1. page.lab \in {"divider", "booth"} /\ page'.lab = page.lab
    BY <1>5, MachineKeepsLab
    DEF EditDivider, DividerResetButton, StepDivider, MoveSlider, Pick, On, MachineStep
  <2>2. QED
    BY <2>1 DEF CompareInv, On
<1>6. QED
  BY <1>1, <1>2, <1>3, <1>4, <1>5 DEF MachineStep

-----------------------------------------------------------------------------
(* Induction over the numbers.                                             *)

\* A set with zero in it that no step leaves holds every number.
LEMMA Induction ==
    ASSUME NEW P, 0 \in P, \A n \in Nat : n \in P => n + 1 \in P
    PROVE  Nat \subseteq P
<1> DEFINE T == Nat \ P
           R == {ss \in Nat \X Nat : ss[1] < ss[2]}
<1>1. SUFFICES ASSUME T # {} PROVE FALSE
  OBVIOUS
<1>2. PICK x \in T : \A y \in T : ~(<<y, x>> \in R)
  <2>1. T \subseteq Nat
    OBVIOUS
  <2>2. IsWellFoundedOn(R, Nat)
    BY NatLessThanWellFounded DEF OpToRel
  <2> HIDE DEF T, R
  <2>3. QED
    BY <1>1, <2>1, <2>2, WFMin
<1>3. x # 0 /\ x - 1 \in Nat /\ x - 1 < x
  OBVIOUS
<1>4. <<x - 1, x>> \in R
  BY <1>3
<1>5. x - 1 \in T
  BY <1>3
<1>6. QED
  BY <1>2, <1>4, <1>5

\* The same up to a bound.
LEMMA InductionUpTo ==
    ASSUME NEW n \in Nat, NEW P, 0 \in P, \A k \in 0 .. n - 1 : k \in P => k + 1 \in P
    PROVE  0 .. n \subseteq P
<1> DEFINE Q == {k \in Nat : k <= n => k \in P}
<1>1. 0 \in Q
  OBVIOUS
<1>2. \A k \in Nat : k \in Q => k + 1 \in Q
  OBVIOUS
<1> HIDE DEF Q
<1>3. Nat \subseteq Q
  BY <1>1, <1>2, Induction
<1>4. QED
  BY <1>3 DEF Q

-----------------------------------------------------------------------------
(* Sums.                                                                   *)

\* The partial sums exist.
LEMMA SumExists ==
    ASSUME NEW f, NEW n \in Nat
    PROVE  \E h : h = [k \in 0 .. n |-> IF k = 0 THEN 0 ELSE h[k - 1] + f[k - 1]]
<1> DEFINE P == {m \in Nat :
                    \E h : h = [k \in 0 .. m |-> IF k = 0 THEN 0 ELSE h[k - 1] + f[k - 1]]}
<1>1. 0 \in P
  <2> DEFINE g == [k \in 0 .. 0 |-> 0]
  <2>1. g = [k \in 0 .. 0 |-> IF k = 0 THEN 0 ELSE g[k - 1] + f[k - 1]]
    OBVIOUS
  <2> HIDE DEF g
  <2>2. QED
    BY <2>1
<1>2. ASSUME NEW m \in Nat, m \in P PROVE m + 1 \in P
  <2>1. PICK h : h = [k \in 0 .. m |-> IF k = 0 THEN 0 ELSE h[k - 1] + f[k - 1]]
    BY <1>2
  <2> DEFINE g == [k \in 0 .. m + 1 |-> IF k = m + 1 THEN h[m] + f[m] ELSE h[k]]
  <2>2. g = [k \in 0 .. m + 1 |-> IF k = 0 THEN 0 ELSE g[k - 1] + f[k - 1]]
    <3>1. ASSUME NEW k \in 0 .. m + 1
          PROVE  (IF k = m + 1 THEN h[m] + f[m] ELSE h[k])
                     = IF k = 0 THEN 0 ELSE g[k - 1] + f[k - 1]
      <4>1. CASE k = 0
        BY <2>1, <4>1
      <4>2. CASE k = m + 1
        BY <4>2
      <4>3. CASE k \in 1 .. m
        <5>1. h[k] = h[k - 1] + f[k - 1] /\ g[k - 1] = h[k - 1]
          BY <2>1, <4>3
        <5>2. QED
          BY <4>3, <5>1
      <4>4. QED
        BY <4>1, <4>2, <4>3
    <3>2. QED
      BY <3>1
  <2> HIDE DEF g
  <2>3. QED
    BY <2>2
<1> HIDE DEF P
<1>3. Nat \subseteq P
  BY <1>1, <1>2, Induction
<1>4. QED
  BY <1>3 DEF P

\* A sum by its partial sums.
LEMMA SumIs ==
    ASSUME NEW f, NEW n \in Nat, NEW h, h[0] = 0,
           \A k \in 0 .. n - 1 : h[k + 1] = h[k] + f[k]
    PROVE  \A k \in 0 .. n : SumBelow(f, k) = h[k]
<1> SUFFICES ASSUME NEW m \in 0 .. n PROVE SumBelow(f, m) = h[m]
  OBVIOUS
<1> DEFINE p == CHOOSE p : p = [k \in 0 .. m |-> IF k = 0 THEN 0 ELSE p[k - 1] + f[k - 1]]
<1>1. p = [k \in 0 .. m |-> IF k = 0 THEN 0 ELSE p[k - 1] + f[k - 1]]
  <2>1. m \in Nat
    OBVIOUS
  <2>2. \E q : q = [k \in 0 .. m |-> IF k = 0 THEN 0 ELSE q[k - 1] + f[k - 1]]
    BY <2>1, SumExists
  <2>3. QED
    BY <2>2, Zenon
<1>2. SumBelow(f, m) = p[m]
  BY DEF SumBelow
<1> HIDE DEF p
<1> DEFINE P == {k \in 0 .. m : p[k] = h[k]}
<1>3. 0 \in P
  BY <1>1
<1>4. ASSUME NEW k \in 0 .. m - 1, k \in P PROVE k + 1 \in P
  <2>1. p[k + 1] = p[k] + f[k]
    BY <1>1
  <2>2. QED
    BY <1>4, <2>1
<1> HIDE DEF P
<1>5. 0 .. m \subseteq P
  BY <1>3, <1>4, InductionUpTo
<1>6. QED
  BY <1>2, <1>5 DEF P

\* A sum, one summand more at a time.
LEMMA SumStep ==
    ASSUME NEW f
    PROVE  /\ SumBelow(f, 0) = 0
           /\ \A k \in Nat : SumBelow(f, k + 1) = SumBelow(f, k) + f[k]
<1>1. SumBelow(f, 0) = 0
  <2>1. PICK h : h = [k \in 0 .. 0 |-> IF k = 0 THEN 0 ELSE h[k - 1] + f[k - 1]]
    BY SumExists, 0 \in Nat, Zenon
  <2>2. h[0] = 0
    BY <2>1
  <2>3. QED
    BY <2>2, SumIs
<1>2. ASSUME NEW k \in Nat PROVE SumBelow(f, k + 1) = SumBelow(f, k) + f[k]
  <2>1. PICK h : h = [i \in 0 .. k + 1 |-> IF i = 0 THEN 0 ELSE h[i - 1] + f[i - 1]]
    BY SumExists, k + 1 \in Nat, Zenon
  <2>2. h[0] = 0 /\ \A i \in 0 .. k : h[i + 1] = h[i] + f[i]
    BY <2>1
  <2>3. \A i \in 0 .. k + 1 : SumBelow(f, i) = h[i]
    BY <2>2, SumIs
  <2>4. QED
    BY <2>2, <2>3
<1>3. QED
  BY <1>1, <1>2

-----------------------------------------------------------------------------
(* Powers of two, quotients and remainders.                                *)

\* The widths of the design, and the powers up to them.
LEMMA Powers ==
    /\ Width \in Nat \ {0} /\ Width >= 8
    /\ Width \div 2 \in Nat /\ Width \div 4 \in Nat
    /\ Width = 2 * (Width \div 2) /\ Width = 4 * (Width \div 4)
    /\ 2^0 = 1 /\ 2^1 = 2 /\ 2^2 = 4 /\ 2^3 = 8 /\ 2^4 = 16
    /\ \A k \in 0 .. 2 * Width + 2 : 2^k \in Nat \ {0}
    /\ \A k \in 0 .. 2 * Width + 1 : 2^(k + 1) = 2 * 2^k
    /\ \A j, k \in 0 .. 2 * Width + 2 : j + k <= 2 * Width + 2 => 2^(j + k) = 2^j * 2^k
<1>1. /\ Width \in Nat \ {0} /\ Width >= 8
      /\ Width \div 2 \in Nat /\ Width \div 4 \in Nat
      /\ Width = 2 * (Width \div 2) /\ Width = 4 * (Width \div 4)
  BY WidthAssumption
<1>2. /\ 2^0 = 1 /\ 2^1 = 2
      /\ \A k \in 0 .. 2 * Width + 2 : 2^k \in Nat \ {0}
      /\ \A j, k \in 0 .. 2 * Width + 2 : j + k <= 2 * Width + 2 => 2^(j + k) = 2^j * 2^k
  BY PowersAssumption, Zenon
<1>3. ASSUME NEW k \in 0 .. 2 * Width + 1 PROVE 2^(k + 1) = 2 * 2^k
  <2>1. k \in 0 .. 2 * Width + 2 /\ 1 \in 0 .. 2 * Width + 2 /\ k + 1 <= 2 * Width + 2
    BY <1>1
  <2>2. 2^(k + 1) = 2^k * 2^1 /\ 2^k \in Nat
    BY <1>2, <2>1
  <2>3. QED
    BY <1>2, <2>2
<1>4. /\ 1 \in 0 .. 2 * Width + 1 /\ 2 \in 0 .. 2 * Width + 1 /\ 3 \in 0 .. 2 * Width + 1
      /\ 1 + 1 = 2 /\ 2 + 1 = 3 /\ 3 + 1 = 4
  BY <1>1
<1>5. 2^2 = 2 * 2^1 /\ 2^3 = 2 * 2^2 /\ 2^4 = 2 * 2^3
  BY <1>3, <1>4
<1>6. QED
  BY <1>1, <1>2, <1>3, <1>5

\* The words are wide enough for what the pages start with.
LEMMA Wide ==
    /\ 2^(Width - 1) \in Nat /\ 2^Width = 2 * 2^(Width - 1) /\ 2^(Width - 1) >= 128
    /\ 2^(Width \div 2) \in Nat \ {0} /\ 2^(Width \div 2) <= 2^Width
<1>1. /\ Width - 1 = 7 + (Width - 8) /\ 7 \in 0 .. 2 * Width + 2 /\ 7 = 3 + 4
      /\ Width - 8 \in 0 .. 2 * Width + 2 /\ 7 + (Width - 8) <= 2 * Width + 2
      /\ 3 \in 0 .. 2 * Width + 2 /\ 4 \in 0 .. 2 * Width + 2 /\ 3 + 4 <= 2 * Width + 2
      /\ Width - 1 \in 0 .. 2 * Width + 1 /\ Width = (Width - 1) + 1
      /\ Width \div 2 \in 0 .. 2 * Width + 2 /\ Width \div 2 + Width \div 2 = Width
      /\ Width \div 2 + Width \div 2 <= 2 * Width + 2
  BY Powers
<1>2. 2^7 = 128
  <2>1. 2^(3 + 4) = 2^3 * 2^4 /\ 2^3 = 8 /\ 2^4 = 16
    BY <1>1, Powers
  <2>2. QED
    BY <1>1, <2>1
<1>3. PICK e \in Nat \ {0} : e = 2^(Width - 8) /\ 2^(Width - 1) = 128 * e
  <2>1. 2^(7 + (Width - 8)) = 2^7 * 2^(Width - 8) /\ 2^(Width - 8) \in Nat \ {0}
    BY <1>1, Powers
  <2>2. QED
    BY <1>1, <1>2, <2>1
<1>4. 2^((Width - 1) + 1) = 2 * 2^(Width - 1)
  BY <1>1, Powers
<1>5. PICK h \in Nat \ {0} : h = 2^(Width \div 2) /\ 2^Width = h * h
  <2>1. 2^(Width \div 2 + Width \div 2) = 2^(Width \div 2) * 2^(Width \div 2)
        /\ 2^(Width \div 2) \in Nat \ {0}
    BY <1>1, Powers
  <2>2. QED
    BY <1>1, <2>1
<1>6. h <= h * h
  OBVIOUS
<1>7. QED
  BY <1>1, <1>3, <1>4, <1>5, <1>6

\* A quotient and a remainder are determined by what they are for.
LEMMA DivMod ==
    ASSUME NEW x \in Int, NEW m \in Nat \ {0}, NEW q \in Int, NEW r \in 0 .. m - 1,
           x = q * m + r
    PROVE  x \div m = q /\ x % m = r
<1> DEFINE d == x \div m - q
<1>1. x = (x \div m) * m + (x % m) /\ x % m \in 0 .. m - 1 /\ x \div m \in Int
  OBVIOUS
<1>2. d \in Int /\ d * m = r - (x % m)
  BY <1>1
<1>3. r - (x % m) < m /\ r - (x % m) > -m
  BY <1>1
<1> HIDE DEF d
<1>4. ~(d >= 1)
  <2>1. d >= 1 => d * m >= m
    BY <1>2
  <2>2. QED
    BY <1>1, <1>2, <1>3, <2>1
<1>5. ~(d <= -1)
  <2>1. d <= -1 => d * m <= -m
    BY <1>2
  <2>2. QED
    BY <1>1, <1>2, <1>3, <2>1
<1>6. d = 0
  BY <1>2, <1>4, <1>5
<1>7. QED
  BY <1>1, <1>2, <1>6 DEF d

\* Every number has a quotient and a remainder.
LEMMA DivModOf ==
    ASSUME NEW x \in Int, NEW m \in Nat \ {0}
    PROVE  /\ x \div m \in Int /\ x % m \in 0 .. m - 1 /\ x = (x \div m) * m + (x % m)
           /\ x \in Nat => x \div m \in Nat
  OBVIOUS

\* Quotients of quotients, and the digits of a number.
LEMMA DivDiv ==
    ASSUME NEW x \in Int, NEW m \in Nat \ {0}, NEW n \in Nat \ {0}
    PROVE  /\ x \div (m * n) = (x \div m) \div n
           /\ x % (m * n) = (x % m) + m * ((x \div m) % n)
<1>1. PICK q \in Int, r \in 0 .. m - 1 : q = x \div m /\ r = x % m /\ x = q * m + r
  BY DivModOf
<1>2. PICK u \in Int, v \in 0 .. n - 1 : u = q \div n /\ v = q % n /\ q = u * n + v
  BY DivModOf
<1>3. m * n \in Nat \ {0} /\ r + m * v \in 0 .. m * n - 1
  <2>1. m * v \in Nat /\ m * v <= m * (n - 1) /\ m * (n - 1) = m * n - m /\ m * n \in Nat
    BY <1>2
  <2>2. r + m * v >= 0 /\ r + m * v <= m * n - 1
    BY <2>1
  <2>3. QED
    BY <2>1, <2>2
<1>4. x = u * (m * n) + (r + m * v)
  <2>1. x = (u * n + v) * m + r
    BY <1>1, <1>2
  <2>2. (u * n + v) * m = u * (m * n) + m * v
    OBVIOUS
  <2>3. QED
    BY <2>1, <2>2
<1>5. x \div (m * n) = u /\ x % (m * n) = r + m * v
  BY <1>3, <1>4, DivMod
<1>6. QED
  BY <1>1, <1>2, <1>5

\* The remainder of a sum, and of what differs by a multiple.
LEMMA ModPlus ==
    ASSUME NEW m \in Nat \ {0}, NEW x \in Int, NEW k \in Int
    PROVE  (x + k * m) % m = x % m /\ (x + k * m) \div m = x \div m + k
<1>1. PICK q \in Int, r \in 0 .. m - 1 : q = x \div m /\ r = x % m /\ x = q * m + r
  BY DivModOf
<1>2. x + k * m = (q + k) * m + r /\ q + k \in Int /\ x + k * m \in Int
  BY <1>1
<1>3. QED
  BY <1>1, <1>2, DivMod

\* Two numbers with the same remainder differ by a multiple.
LEMMA Congruent ==
    ASSUME NEW m \in Nat \ {0}, NEW x \in Int, NEW y \in Int
    PROVE  x % m = y % m <=> \E k \in Int : x = y + k * m
<1>1. ASSUME x % m = y % m PROVE \E k \in Int : x = y + k * m
  <2>1. x \div m - y \div m \in Int /\ x = y + (x \div m - y \div m) * m
    BY <1>1, DivModOf
  <2>2. QED
    BY <2>1
<1>2. ASSUME NEW k \in Int, x = y + k * m PROVE x % m = y % m
  BY <1>2, ModPlus
<1>3. QED
  BY <1>1, <1>2

\* A remainder by a multiple keeps the remainder.
LEMMA ModMod ==
    ASSUME NEW m \in Nat \ {0}, NEW n \in Nat \ {0}, NEW x \in Int
    PROVE  (x % (m * n)) % m = x % m /\ x % m \in Int /\ (x % m) % m = x % m
<1>1. /\ x % (m * n) = (x % m) + m * ((x \div m) % n)
      /\ x % m \in 0 .. m - 1 /\ x \div m \in Int
  BY DivDiv, DivModOf
<1>2. (x % (m * n)) % m = x % m
  <2>1. PICK w \in Int, r \in 0 .. m - 1 : w = x \div m /\ r = x % m
    BY <1>1
  <2>2. PICK v \in Int : v = w % n
    OBVIOUS
  <2>3. r + m * v = v * m + r /\ r + m * v \in Int
    OBVIOUS
  <2>4. (r + m * v) % m = r
    BY <2>3, DivMod
  <2>5. QED
    BY <1>1, <2>1, <2>2, <2>4
<1>3. QED
  BY <1>1, <1>2

-----------------------------------------------------------------------------
(* The divider lab.                                                        *)

DividerHooks == {"lab", "dividend", "divisor", "step", "loaded"}

DividerInv ==
    On("divider") =>
        /\ DividerHooks \subseteq DOMAIN page
        /\ page.dividend \in Int /\ page.divisor \in Int /\ page.step \in 0 .. Width
        /\ page.loaded = IF page.step = 0 THEN Unloaded ELSE <<page.dividend, page.divisor>>

\* An edit or a reset unloads the operands, the first step loads them.
LEMMA DividerStepFollows == ASSUME DividerInv, MachineStep, Mounted PROVE DividerInv'
<1> USE WidthAssumption DEF DividerHooks
<1>1. CASE EditDivider
  <2>1. PICK hook \in {"dividend", "divisor"}, n \in Typed :
            page' = DividerReset([page EXCEPT ![hook] = n])
    BY <1>1 DEF EditDivider
  <2>2. DividerInv /\ On("divider") /\ n \in Int
    BY <1>1, MachineLabsAssumption DEF EditDivider
  <2>3. /\ DOMAIN page' = DOMAIN page /\ page'.step = 0 /\ page'.loaded = Unloaded
        /\ page'.dividend \in {page.dividend, n} /\ page'.divisor \in {page.divisor, n}
    BY <2>1, <2>2 DEF DividerReset, DividerInv
  <2>4. page'.dividend \in Int /\ page'.divisor \in Int /\ 0 \in 0 .. Width
    BY <2>2, <2>3 DEF DividerInv
  <2>5. QED
    BY <2>2, <2>3, <2>4 DEF DividerInv
<1>2. CASE DividerResetButton
  BY <1>2 DEF DividerResetButton, DividerReset, DividerInv, On
<1>3. CASE StepDivider
  BY <1>3 DEF StepDivider, DividerInv, On, isDone
<1>4. CASE MoveSlider \/ SelectComparison \/ RunComparison \/ ReceiveComparison \/ FailComparison
  <2>1. page.lab \in {"booth", "compare"} /\ page'.lab = page.lab
    BY <1>4, MachineKeepsLab
    DEF MoveSlider, SelectComparison, RunComparison, ReceiveComparison, FailComparison, Pick,
        On, MachineStep
  <2>2. QED
    BY <2>1 DEF DividerInv, On
<1>5. QED
  BY <1>1, <1>2, <1>3, <1>4 DEF MachineStep

\* The words of the lab and those of the core are the same.
LEMMA WordSizes ==
    /\ 2^Width \in Nat /\ 2^(Width - 1) \in Nat \ {0} /\ 2^Width = 2 * 2^(Width - 1)
    /\ Rv32M!WordModulus = 2^Width /\ Cap!WordModulus = 2^Width
<1> DEFINE B == 2^(Width \div 4)
           H == 2^(Width \div 2)
<1>1. /\ Width \in Nat /\ Width - 1 \in 0 .. Width /\ 1 \in 0 .. Width
      /\ Width \div 2 \in 0 .. Width /\ Width \div 4 \in 0 .. Width
      /\ Width = Width \div 2 + Width \div 2 /\ Width \div 2 = Width \div 4 + Width \div 4
      /\ Width = 1 + (Width - 1)
  BY WidthAssumption
<1>2. 2^Width = 2 * 2^(Width - 1) /\ 2^(Width - 1) \in Nat \ {0}
  <2>1. Width - 1 \in 0 .. 2 * Width + 1 /\ Width - 1 \in 0 .. 2 * Width + 2
        /\ (Width - 1) + 1 = Width
    BY <1>1
  <2>2. 2^((Width - 1) + 1) = 2 * 2^(Width - 1) /\ 2^(Width - 1) \in Nat \ {0}
    BY <2>1, Powers
  <2>3. QED
    BY <2>1, <2>2
<1>3. 2^Width = H * H /\ H = B * B /\ B \in Nat
  <2>1. /\ Width \div 2 \in 0 .. 2 * Width + 2 /\ Width \div 4 \in 0 .. 2 * Width + 2
        /\ Width \div 2 + Width \div 2 = Width /\ Width \div 4 + Width \div 4 = Width \div 2
        /\ Width \div 2 + Width \div 2 <= 2 * Width + 2
        /\ Width \div 4 + Width \div 4 <= 2 * Width + 2
    BY <1>1
  <2>2. /\ 2^(Width \div 2 + Width \div 2) = H * H /\ 2^(Width \div 4 + Width \div 4) = B * B
        /\ B \in Nat
    BY <2>1, Powers
  <2>3. QED
    BY <2>1, <2>2
<1> HIDE DEF B, H
<1>4. B * B * B * B = 2^Width
  BY <1>3
<1>5. QED
  BY <1>2, <1>4 DEF Rv32M!WordModulus, Cap!WordModulus, B

\* Two's complement, there and back.
LEMMA Readings ==
    ASSUME NEW n \in Int, InRange(n)
    PROVE  /\ WordOf(n) = IF n < 0 THEN n + 2^Width ELSE n
           /\ Rv32M!Signed(WordOf(n)) = n /\ SignedOf(WordOf(n)) = n
           /\ Rv32M!Wrap(n) = WordOf(n)
           /\ WordOf(n) = 0 <=> n = 0
<1> DEFINE H == 2^(Width - 1)
<1>1. H \in Nat \ {0} /\ 2^Width = 2 * H /\ Rv32M!WordModulus = 2 * H
  BY WordSizes
<1>2. n >= -H /\ n <= H - 1
  BY DEF InRange, MinInt, MaxInt
<1> HIDE DEF H
<1>3. WordOf(n) = IF n < 0 THEN n + 2 * H ELSE n
  BY <1>1, <1>2 DEF WordOf
<1>4. Rv32M!Signed(WordOf(n)) = n
  BY <1>1, <1>2, <1>3 DEF Rv32M!Signed, Rv32M!Negative
<1>5. SignedOf(WordOf(n)) = n
  BY <1>1, <1>2, <1>3 DEF SignedOf, H
<1>6. Rv32M!Wrap(n) = WordOf(n)
  BY <1>1 DEF Rv32M!Wrap, WordOf
<1>7. QED
  BY <1>1, <1>2, <1>3, <1>4, <1>5, <1>6

\* What the proof needs to know of quotient and remainder of natural numbers.
LEMMA Divided ==
    ASSUME NEW D \in Nat, NEW S \in Nat \ {0}
    PROVE  /\ D \div S \in 0 .. D /\ D % S \in 0 .. S - 1
           /\ D \div S = D /\ D # 0 => S = 1
           /\ S = 1 => D \div S = D /\ D % S = 0
<1>1. D % S \in 0 .. S - 1
  OBVIOUS
<1>2. D \div S \in 0 .. D
  OBVIOUS
<1>3. ASSUME D \div S = D, D # 0 PROVE S = 1
  BY <1>3
<1>4. S = 1 => D \div S = D /\ D % S = 0
  OBVIOUS
<1>5. QED
  BY <1>1, <1>2, <1>3, <1>4

\* JavaScript's truncating division, with its two corner cases, is DIV and REM, for every
\* pair of words.
LEMMA ExpectedIsRv32M ==
    ASSUME NEW p, p.dividend \in Int, p.divisor \in Int,
           InRange(p.dividend), InRange(p.divisor)
    PROVE  LET a == WordOf(p.dividend)
               b == WordOf(p.divisor)
           IN  Expected(p) = <<SignedOf(Rv32M!Quotient(TRUE, a, b)),
                               SignedOf(Rv32M!Remainder(TRUE, a, b))>>
<1> DEFINE a == WordOf(p.dividend)
           b == WordOf(p.divisor)
           D == Rv32M!Abs(p.dividend)
           S == Rv32M!Abs(p.divisor)
           quotient == D \div S
           rest == D % S
<1>1. PICK H \in Nat \ {0}, d \in Int, s \in Int :
          /\ H = 2^(Width - 1) /\ 2^Width = 2 * H /\ Rv32M!WordModulus = 2 * H
          /\ d = p.dividend /\ s = p.divisor
  BY WordSizes
<1>2. /\ d >= -H /\ d <= H - 1 /\ s >= -H /\ s <= H - 1 /\ MinInt = -H
      /\ \A n \in Int : InRange(n) <=> n >= -H /\ n <= H - 1
  BY <1>1 DEF InRange, MinInt, MaxInt
<1>3. /\ Rv32M!Signed(a) = d /\ Rv32M!Signed(b) = s /\ SignedOf(a) = d
      /\ b = 0 <=> s = 0
  BY <1>1, Readings
<1>4. /\ D \in Nat /\ S \in Nat /\ D <= H /\ S <= H
      /\ D = H <=> d = -H
      /\ S = 0 <=> s = 0
      /\ S = 1 <=> s \in {1, -1}
  BY <1>1, <1>2 DEF Rv32M!Abs
<1>5. CASE s = 0
  <2>1. Rv32M!Quotient(TRUE, a, b) = 2 * H - 1 /\ Rv32M!Remainder(TRUE, a, b) = a
    BY <1>1, <1>3, <1>5 DEF Rv32M!Quotient, Rv32M!Remainder
  <2>2. SignedOf(2 * H - 1) = -1
    BY <1>1 DEF SignedOf
  <2>3. Expected(p) = <<-1, d>>
    BY <1>1, <1>5 DEF Expected
  <2>4. QED
    BY <1>3, <2>1, <2>2, <2>3
<1>6. CASE s # 0
  <2>1. /\ Rv32M!Quotient(TRUE, a, b) =
               Rv32M!Wrap(IF (d < 0) # (s < 0) THEN 0 - quotient ELSE quotient)
        /\ Rv32M!Remainder(TRUE, a, b) = Rv32M!Wrap(IF d < 0 THEN 0 - rest ELSE rest)
    BY <1>1, <1>3, <1>6 DEF Rv32M!Quotient, Rv32M!Remainder
  <2>2. /\ quotient \in 0 .. D /\ rest \in 0 .. S - 1
        /\ quotient = D /\ D # 0 => S = 1
        /\ S = 1 => quotient = D /\ rest = 0
    BY <1>4, <1>6, Divided
  <2> HIDE DEF quotient, rest, D, S, a, b
  <2>3. CASE s = -1 /\ d = -H
    <3>1. quotient = H /\ rest = 0 /\ d < 0 /\ s < 0
      BY <1>1, <1>4, <2>2, <2>3
    <3>2. H % (2 * H) = H /\ 0 % (2 * H) = 0
      BY <1>1
    <3>3. Rv32M!Quotient(TRUE, a, b) = H /\ Rv32M!Remainder(TRUE, a, b) = 0
      <4>1. (IF (d < 0) # (s < 0) THEN 0 - quotient ELSE quotient) = H
        BY <3>1
      <4>2. (IF d < 0 THEN 0 - rest ELSE rest) = 0
        BY <3>1
      <4>3. Rv32M!Wrap(H) = H /\ Rv32M!Wrap(0) = 0
        BY <1>1, <3>2 DEF Rv32M!Wrap
      <4>4. QED
        BY <2>1, <4>1, <4>2, <4>3
    <3>4. SignedOf(H) = -H /\ SignedOf(0) = 0
      BY <1>1 DEF SignedOf
    <3>5. Expected(p) = <<-H, 0>>
      BY <1>1, <1>2, <2>3 DEF Expected
    <3>6. QED
      BY <3>3, <3>4, <3>5 DEF a, b
  <2>4. CASE ~(s = -1 /\ d = -H)
    <3>1. PICK q \in Int, r \in Int :
              /\ q = IF (d < 0) # (s < 0) THEN 0 - quotient ELSE quotient
              /\ r = IF d < 0 THEN 0 - rest ELSE rest
      BY <1>4, <2>2
    <3>2. q >= -H /\ q <= H - 1
      BY <1>1, <1>2, <1>4, <1>6, <2>2, <2>4, <3>1
    <3>3. r >= -H /\ r <= H - 1
      BY <1>1, <1>4, <1>6, <2>2, <3>1
    <3>4. SignedOf(Rv32M!Wrap(q)) = q /\ SignedOf(Rv32M!Wrap(r)) = r
      BY <1>2, <3>2, <3>3, Readings
    <3>5. Expected(p) = <<q, r>>
      <4>1. Expected(p) = <<IF (d < 0) = (s < 0) THEN quotient ELSE -quotient,
                            IF d < 0 THEN -rest ELSE rest>>
        BY <1>1, <1>2, <1>6, <2>4 DEF Expected, quotient, rest, D, S
      <4>2. -quotient = 0 - quotient /\ -rest = 0 - rest
        BY <1>4, <2>2
      <4>3. QED
        BY <3>1, <4>1, <4>2
    <3>6. QED
      BY <2>1, <3>1, <3>4, <3>5 DEF a, b
  <2>5. QED
    BY <2>3, <2>4
<1>7. QED
  BY <1>5, <1>6

\* The count and the operands are those of the invariant; the result is ExpectedIsRv32M.
LEMMA DividerInvSuffices == DividerInv => DividerShowsQuotient
<1> SUFFICES ASSUME DividerInv, On("divider")
             PROVE  DividerShowsQuotient
  BY DEF DividerShowsQuotient
<1>1. /\ page.dividend \in Int /\ page.divisor \in Int /\ page.step \in 0 .. Width
      /\ page.loaded = IF page.step = 0 THEN Unloaded ELSE <<page.dividend, page.divisor>>
      /\ Width \in Nat \ {0}
  BY WidthAssumption DEF DividerInv
<1>2. StateMachine(page) = "sIdle" <=> page.step = 0
  BY <1>1 DEF StateMachine, isDone
<1>3. page.loaded = Unloaded <=> page.step = 0
  BY <1>1 DEF Unloaded
<1>4. StateMachine(page) = "sDone" => currentRemaining(page) = 0
  BY <1>1 DEF StateMachine, isDone, currentRemaining
<1>5. isDone(page) => page.loaded = <<page.dividend, page.divisor>>
  BY <1>1 DEF isDone
<1>6. QED
  BY <1>1, <1>2, <1>3, <1>4, <1>5, ExpectedIsRv32M DEF DividerShowsQuotient

-----------------------------------------------------------------------------
(* The capability playground.                                              *)

MapHooks == {"lab", "viewMode", "selectedCapIndex", "capabilities"}

\* A capability that ends within the machine's memory map.
Fits(cap) ==
    /\ {"tag", "base", "length", "perms", "offset"} \subseteq DOMAIN cap
    /\ cap.base \in Nat /\ cap.length \in Nat /\ cap.offset \in Nat
    /\ cap.tag => cap.base + cap.length <= 3 * Ram

MapInv ==
    On("capabilities") =>
        /\ MapHooks \subseteq DOMAIN page
        /\ DOMAIN page.capabilities = 0 .. 2 \union Process
        /\ page.selectedCapIndex \in 0 .. 2 \union Process
        /\ \A c \in 0 .. 2 \union Process : Fits(page.capabilities[c])

\* The roots end within the memory map; null capabilities have no tag.
LEMMA ResetFits == \A c \in 0 .. 2 \union Process : Fits(Cap!CapResetValue(c))
<1>1. Ram \in Nat /\ 2 * Ram \in Nat /\ Ram \div 2 \in Nat /\ 2 * Ram + Ram \div 2 <= 3 * Ram
  BY MachineViewsAssumption
<1>2. QED
  BY <1>1 DEF Fits, Cap!CapResetValue, Cap!RamRoot, Cap!MmioRoot, Cap!NullCapability,
              Cap!PermRead, Cap!PermWrite

\* Derivations keep to the memory map, and a cursor within a capability does not wrap.
LEMMA DerivedFits ==
    ASSUME NEW cap, Fits(cap), NEW n \in Word,
           NEW d \in {Cap!SetBounds(cap, n), Cap!AndPerm(cap, n), Cap!IncOffset(cap, n)},
           d.write
    PROVE  Fits(d.cap)
<1>1. /\ n \in Nat /\ 3 * Ram < 2^Width /\ Ram \in Nat /\ Cap!WordModulus = 2^Width
      /\ 2^Width \in Nat
  BY MachineViewsAssumption, WordSizes DEF Word
<1>2. CASE d = Cap!SetBounds(cap, n)
  <2>1. /\ cap.tag /\ cap.offset <= cap.length /\ n <= cap.length - cap.offset
        /\ d.cap = [cap EXCEPT !.base = Cap!Cursor(cap), !.length = n, !.offset = 0]
    BY <1>2 DEF Cap!SetBounds, Cap!Derived, Cap!Refused, Cap!Derivation
  <2>2. PICK m \in Nat, x \in Nat : m = 2^Width /\ x = cap.base + cap.offset /\ x < m
    BY <1>1, <2>1 DEF Fits
  <2>3. x % m = x
    BY <2>2
  <2>4. Cap!Cursor(cap) = cap.base + cap.offset
    BY <1>1, <2>2, <2>3 DEF Cap!Cursor, Cap!Wrap
  <2>5. cap.base + cap.offset + n <= 3 * Ram /\ cap.base + cap.offset \in Nat
    BY <1>1, <2>1 DEF Fits
  <2>6. QED
    BY <1>1, <2>1, <2>4, <2>5 DEF Fits
<1>3. CASE d = Cap!AndPerm(cap, n)
  <2>1. d.cap = [cap EXCEPT !.perms = cap.perms \intersect Cap!PermsOfWord(n)]
    BY <1>3 DEF Cap!AndPerm, Cap!Derived, Cap!Refused, Cap!Derivation, Fits
  <2>2. QED
    BY <2>1 DEF Fits
<1>4. CASE d = Cap!IncOffset(cap, n)
  <2>1. Cap!Signed(n) \in Int
    BY <1>1 DEF Cap!Signed
  <2>2. /\ d.cap = [cap EXCEPT !.offset = cap.offset + Cap!Signed(n)]
        /\ 0 <= cap.offset + Cap!Signed(n)
    BY <1>4 DEF Cap!IncOffset, Cap!Derived, Cap!Refused, Cap!Derivation
  <2>3. QED
    BY <2>1, <2>2 DEF Fits
<1>5. QED
  BY <1>2, <1>3, <1>4

\* Derivations, selections and the change of the view keep the invariant.
LEMMA MapStepFollows == ASSUME MapInv, ViewStep, Mounted PROVE MapInv'
<1> USE DEF MapHooks
<1>1. CASE StepCapability
  <2>1. MapInv /\ On("capabilities")
    BY <1>1 DEF StepCapability
  <2>2. PICK cd \in Process, cs1 \in DOMAIN page.capabilities :
            \E d \in {Cap!SetBounds(page.capabilities[cs1], n) : n \in NewLength}
                  \union {Cap!AndPerm(page.capabilities[cs1], n) : n \in NewPerms}
                  \union {Cap!IncOffset(page.capabilities[cs1], n) : n \in Delta} :
               d.write /\ page' = [page EXCEPT !.capabilities[cd] = d.cap]
    BY <1>1 DEF StepCapability
  <2> DEFINE cap == page.capabilities[cs1]
  <2>3. PICK d \in {Cap!SetBounds(cap, n) : n \in NewLength}
                 \union {Cap!AndPerm(cap, n) : n \in NewPerms}
                 \union {Cap!IncOffset(cap, n) : n \in Delta} :
            d.write /\ page' = [page EXCEPT !.capabilities[cd] = d.cap]
    BY <2>2
  <2>4. \E n \in Word :
            d \in {Cap!SetBounds(cap, n), Cap!AndPerm(cap, n), Cap!IncOffset(cap, n)}
    BY MachineViewsAssumption
  <2>5. Fits(d.cap)
    BY <2>1, <2>3, <2>4, DerivedFits DEF MapInv
  <2>6. page'.capabilities = [page.capabilities EXCEPT ![cd] = d.cap]
        /\ DOMAIN page' = DOMAIN page /\ page'.selectedCapIndex = page.selectedCapIndex
    BY <2>1, <2>3 DEF MapInv
  <2>7. QED
    BY <2>1, <2>5, <2>6 DEF MapInv
<1>2. CASE SelectCapability
  BY <1>2 DEF SelectCapability, Pick, Set, MapInv, On
<1>3. CASE SwitchPlayground
  BY <1>3, MachineViewsAssumption DEF SwitchPlayground, Set, MapInv, On
<1>4. CASE HandleBlockClick \/ ResetProbe \/ SwitchExplorer
  <2>1. page.lab = "explorer" /\ page'.lab = page.lab
    BY <1>4, ViewKeepsLab DEF HandleBlockClick, ResetProbe, SwitchExplorer, On, ViewStep
  <2>2. QED
    BY <2>1 DEF MapInv, On
<1>5. QED
  BY <1>1, <1>2, <1>3, <1>4 DEF ViewStep

\* What the checker allows of a capability lies between its ends, and is all of it or nothing.
LEMMA ReachIs ==
    ASSUME NEW cap, Fits(cap)
    PROVE  /\ \A a \in Reach(cap) : cap.tag /\ cap.base <= a /\ a < cap.base + cap.length
           /\ Reach(cap) # {} =>
                  \A a \in Nat : cap.base <= a /\ a < cap.base + cap.length => a \in Reach(cap)
<1>1. /\ 3 * Ram < 2^Width /\ Ram \in Nat /\ 2^Width \in Nat
      /\ cap.base \in Nat /\ cap.length \in Nat
  BY MachineViewsAssumption, WordSizes DEF Fits
<1>2. ASSUME NEW a \in Nat, NEW isWrite \in BOOLEAN
      PROVE  Cap!CheckReason(cap, a, 1, isWrite) = 0 <=>
                 /\ cap.tag /\ cap.base <= a /\ a < cap.base + cap.length
                 /\ IF isWrite THEN 2 \in cap.perms ELSE 1 \in cap.perms
  BY <1>1, <1>2 DEF Cap!CheckReason, Cap!Top, Cap!InvalidCapability, Cap!BoundsViolation,
     Cap!PermWrite, Cap!PermRead, Cap!WritePermission, Cap!ReadPermission
<1>3. \A a \in Word : a \in Nat
  BY <1>1 DEF Word
<1>4. \A a \in Reach(cap) :
          /\ cap.tag /\ cap.base <= a /\ a < cap.base + cap.length
          /\ \E isWrite \in BOOLEAN : IF isWrite THEN 2 \in cap.perms ELSE 1 \in cap.perms
  BY <1>2, <1>3 DEF Reach
<1>5. ASSUME NEW isWrite \in BOOLEAN, IF isWrite THEN 2 \in cap.perms ELSE 1 \in cap.perms,
             cap.tag, NEW a \in Nat, cap.base <= a, a < cap.base + cap.length
      PROVE  a \in Reach(cap)
  <2>1. a \in Word
    BY <1>1, <1>5 DEF Word, Fits
  <2>2. QED
    BY <1>2, <1>5, <2>1 DEF Reach
<1>6. QED
  BY <1>4, <1>5

\* The range and the slice of a capability that fits are what the checker allows of it.
LEMMA MapInvSuffices == MapInv => MapCoversAuthority
<1> SUFFICES ASSUME MapInv, On("capabilities") PROVE MapCoversAuthority
  BY DEF MapCoversAuthority
<1>1. ASSUME NEW cap, Fits(cap)
      PROVE  /\ Reach(cap) \subseteq EffectiveRange(cap)
             /\ Reach(cap) # {} => EffectiveRange(cap) = Reach(cap)
  <2>1. cap.base \in Nat /\ cap.length \in Nat
    BY <1>1 DEF Fits
  <2>2. \A a \in Reach(cap) : a \in Int
    BY WordSizes DEF Reach, Word
  <2>3. Reach(cap) \subseteq EffectiveRange(cap)
    BY <1>1, <2>1, <2>2, ReachIs DEF EffectiveRange
  <2>4. Reach(cap) # {} => EffectiveRange(cap) \subseteq Reach(cap)
    BY <1>1, <2>1, <2>2, ReachIs DEF EffectiveRange
  <2>5. QED
    BY <2>3, <2>4
<1>2. ASSUME NEW cap, Fits(cap), 100 * cap.base <= 95 * Ram, NEW a \in Reach(cap)
      PROVE  100 * a \in Slice(cap)
  <2>1. cap.base \in Nat /\ cap.length \in Nat /\ Ram \in Nat /\ a \in Int
    BY <1>2, MachineViewsAssumption, WordSizes DEF Fits, Reach, Word
  <2>2. cap.base <= a /\ a < cap.base + cap.length
    BY <1>2, ReachIs
  <2>3. QED
    BY <1>2, <2>1, <2>2 DEF Slice
<1>3. QED
  BY <1>1, <1>2 DEF MapInv, MapCoversAuthority, selectedCap

-----------------------------------------------------------------------------
(* Bits.                                                                   *)

\* One bit more of a number.
LEMMA BitStep ==
    ASSUME NEW x \in Int
    PROVE  /\ x % 2^0 = 0
           /\ \A k \in 0 .. 2 * Width + 2 :
                 x % 2^k \in 0 .. 2^k - 1 /\ x \div 2^k \in Int
           /\ \A k \in 0 .. 2 * Width + 1 :
                 x % 2^(k + 1) = (x % 2^k) + (IF BitOf(x, k) THEN 2^k ELSE 0)
<1>1. x % 2^0 = 0
  BY Powers
<1>2. ASSUME NEW k \in 0 .. 2 * Width + 2
      PROVE  x % 2^k \in 0 .. 2^k - 1 /\ x \div 2^k \in Int
  <2>1. 2^k \in Nat \ {0}
    BY Powers
  <2>2. QED
    BY <2>1, DivModOf
<1>3. ASSUME NEW k \in 0 .. 2 * Width + 1
      PROVE  x % 2^(k + 1) = (x % 2^k) + (IF BitOf(x, k) THEN 2^k ELSE 0)
  <2>1. PICK m \in Nat \ {0} : m = 2^k /\ 2^(k + 1) = m * 2
    <3>1. k \in 0 .. 2 * Width + 2 /\ 2^k \in Nat \ {0} /\ 2^(k + 1) = 2 * 2^k
      BY Powers
    <3>2. QED
      BY <3>1
  <2>2. x % (m * 2) = (x % m) + m * ((x \div m) % 2)
    BY DivDiv, 2 \in Nat \ {0}
  <2>3. PICK q \in Int, r \in Int : q = x \div m /\ r = x % m
    OBVIOUS
  <2>4. q % 2 \in {0, 1}
    OBVIOUS
  <2>5. BitOf(x, k) <=> q % 2 = 1
    BY <2>1, <2>3 DEF BitOf
  <2>6. x % 2^(k + 1) = r + m * (q % 2)
    BY <2>1, <2>2, <2>3
  <2>7. QED
    BY <2>1, <2>3, <2>4, <2>5, <2>6
<1>4. QED
  BY <1>1, <1>2, <1>3

\* Wires that carry the bits of a number carry the number.
LEMMA NumberIs ==
    ASSUME NEW x \in Int, NEW n \in 0 .. 2 * Width + 2, NEW wires,
           \A i \in 0 .. n - 1 : wires[i] <=> BitOf(x, i)
    PROVE  NumberOn(wires, n) = x % 2^n
<1> DEFINE f == [i \in 0 .. n - 1 |-> IF wires[i] THEN 2^i ELSE 0]
           h == [k \in 0 .. n |-> x % 2^k]
<1>1. Width \in Nat /\ n \in Nat
  BY Powers
<1>2. h[0] = 0
  BY <1>1, BitStep
<1>3. ASSUME NEW k \in 0 .. n - 1 PROVE h[k + 1] = h[k] + f[k]
  <2>1. k \in 0 .. 2 * Width + 1 /\ k \in 0 .. n /\ k + 1 \in 0 .. n
    BY <1>1
  <2>2. x % 2^(k + 1) = (x % 2^k) + (IF BitOf(x, k) THEN 2^k ELSE 0)
    BY <2>1, BitStep
  <2>3. f[k] = IF BitOf(x, k) THEN 2^k ELSE 0
    BY <2>1
  <2>4. QED
    BY <2>1, <2>2, <2>3
<1>4. NumberOn(wires, n) = SumBelow(f, n) /\ h[n] = x % 2^n
  BY <1>1 DEF NumberOn
<1> HIDE DEF f, h
<1>5. QED
  BY <1>1, <1>2, <1>3, <1>4, SumIs

\* The bits below a bit say nothing of it, nor does the bit of what is below it.
LEMMA BitOfSum ==
    ASSUME NEW k \in 0 .. 2 * Width + 1, NEW x \in 0 .. 2^k - 1
    PROVE  /\ x + 2^k \in 0 .. 2^(k + 1) - 1 /\ x \in 0 .. 2^(k + 1) - 1
           /\ BitOf(x + 2^k, k) /\ ~BitOf(x, k)
           /\ \A i \in 0 .. k - 1 : BitOf(x + 2^k, i) <=> BitOf(x, i)
<1>1. Width \in Nat /\ k \in 0 .. 2 * Width + 2 /\ k \in Nat
  BY Powers
<1>2. PICK m \in Nat \ {0} : m = 2^k /\ 2^(k + 1) = 2 * m
  BY <1>1, Powers
<1>3. x \in Nat /\ x <= m - 1
  BY <1>2
<1>4. (x + m) \div m = 1 /\ x \div m = 0
  <2>1. x + m = 1 * m + x /\ x = 0 * m + x /\ x \in 0 .. m - 1 /\ x + m \in Int
    BY <1>3
  <2>2. QED
    BY <2>1, DivMod
<1>5. BitOf(x + 2^k, k) /\ ~BitOf(x, k)
  BY <1>2, <1>4 DEF BitOf
<1>6. ASSUME NEW i \in 0 .. k - 1 PROVE BitOf(x + 2^k, i) <=> BitOf(x, i)
  <2>1. /\ i \in 0 .. 2 * Width + 2 /\ k - i - 1 \in 0 .. 2 * Width + 2
        /\ i + 1 \in 0 .. 2 * Width + 2 /\ i \in 0 .. 2 * Width + 1
        /\ (k - i - 1) + (i + 1) = k
    BY <1>1
  <2>2. PICK j \in Nat \ {0}, l \in Nat \ {0} :
            j = 2^i /\ l = 2^(k - i - 1) /\ 2^(i + 1) = 2 * j /\ m = l * (2 * j)
    BY <1>1, <1>2, <2>1, Powers
  <2>3. x + m = x + (2 * l) * j /\ 2 * l \in Int
    BY <1>3, <2>2
  <2>4. (x + m) \div j = (x \div j) + 2 * l
    BY <1>3, <2>3, ModPlus
  <2>5. PICK q \in Int : q = x \div j
    BY <1>3
  <2>6. (q + 2 * l) % 2 = q % 2
    OBVIOUS
  <2>7. QED
    BY <1>2, <2>2, <2>4, <2>5, <2>6 DEF BitOf
<1>7. QED
  BY <1>2, <1>3, <1>5, <1>6

\* The bits of the number on some wires are those wires.
LEMMA NumberHas ==
    ASSUME NEW n \in 0 .. 2 * Width + 2, NEW wires
    PROVE  /\ NumberOn(wires, n) \in 0 .. 2^n - 1
           /\ \A i \in 0 .. n - 1 : BitOf(NumberOn(wires, n), i) <=> wires[i]
<1> DEFINE f == [i \in 0 .. n - 1 |-> IF wires[i] THEN 2^i ELSE 0]
           P == {k \in 0 .. n : /\ SumBelow(f, k) \in 0 .. 2^k - 1
                                /\ \A i \in 0 .. k - 1 : BitOf(SumBelow(f, k), i) <=> wires[i]}
<1>1. Width \in Nat /\ n \in Nat /\ 2^0 = 1
  BY Powers
<1>2. NumberOn(wires, n) = SumBelow(f, n)
  BY DEF NumberOn
<1>3. 0 \in P
  <2>1. SumBelow(f, 0) = 0
    BY SumStep
  <2>2. QED
    BY <1>1, <2>1
<1>4. ASSUME NEW k \in 0 .. n - 1, k \in P PROVE k + 1 \in P
  <2>1. PICK s : s = SumBelow(f, k)
    OBVIOUS
  <2>2. s \in 0 .. 2^k - 1 /\ \A i \in 0 .. k - 1 : BitOf(s, i) <=> wires[i]
    BY <1>4, <2>1
  <2>3. k \in 0 .. 2 * Width + 1 /\ k \in Nat /\ k + 1 \in 0 .. n
    BY <1>1
  <2>4. SumBelow(f, k + 1) = s + f[k] /\ f[k] = (IF wires[k] THEN 2^k ELSE 0)
    BY <2>1, <2>3, SumStep
  <2>5. 2^k \in Nat
    BY <1>1, Powers
  <2>6. SumBelow(f, k + 1) = IF wires[k] THEN s + 2^k ELSE s
    BY <2>2, <2>4, <2>5
  <2>7. /\ s + 2^k \in 0 .. 2^(k + 1) - 1 /\ s \in 0 .. 2^(k + 1) - 1
        /\ BitOf(s + 2^k, k) /\ ~BitOf(s, k)
        /\ \A i \in 0 .. k - 1 : BitOf(s + 2^k, i) <=> BitOf(s, i)
    BY <2>2, <2>3, BitOfSum
  <2>8. \A i \in 0 .. (k + 1) - 1 : i \in 0 .. k - 1 \/ i = k
    BY <2>3
  <2> HIDE DEF f
  <2>9. CASE wires[k]
    BY <2>2, <2>3, <2>6, <2>7, <2>8, <2>9
  <2>10. CASE ~wires[k]
    BY <2>2, <2>3, <2>6, <2>7, <2>8, <2>10
  <2>11. QED
    BY <2>9, <2>10
<1> HIDE DEF P, f
<1>5. 0 .. n \subseteq P
  BY <1>1, <1>3, <1>4, InductionUpTo
<1>6. n \in P
  BY <1>1, <1>5
<1>7. QED
  BY <1>2, <1>6 DEF P

\* The rows of a multiplier, and words among them.
Row == 0 .. Accumulator - 1

\* Bit by bit, on rows.
LEMMA BitByBitHas ==
    ASSUME NEW x \in Row, NEW y \in Row,
           NEW gate \in [BOOLEAN -> [BOOLEAN -> BOOLEAN]]
    PROVE  /\ BitByBit(gate, x, y) \in Row
           /\ \A i \in 0 .. 2 * Width + 1 :
                 BitOf(BitByBit(gate, x, y), i) <=> gate[BitOf(x, i)][BitOf(y, i)]
<1> DEFINE wires == [i \in 0 .. 2 * Width + 1 |-> gate[BitOf(x, i)][BitOf(y, i)]]
           n == 2 * Width + 2
<1>1. n \in 0 .. 2 * Width + 2 /\ n - 1 = 2 * Width + 1
  BY Powers
<1>2. BitByBit(gate, x, y) = NumberOn(wires, n)
  BY DEF BitByBit
<1>3. Row = 0 .. 2^n - 1
  BY DEF Row, Accumulator
<1>4. \A i \in 0 .. 2 * Width + 1 : wires[i] = gate[BitOf(x, i)][BitOf(y, i)]
  OBVIOUS
<1> HIDE DEF wires, n
<1>5. /\ NumberOn(wires, n) \in 0 .. 2^n - 1
      /\ \A i \in 0 .. n - 1 : BitOf(NumberOn(wires, n), i) <=> wires[i]
  BY <1>1, NumberHas
<1>6. QED
  BY <1>1, <1>2, <1>3, <1>4, <1>5

\* The three operators.
LEMMA LogicHas ==
    ASSUME NEW x \in Row, NEW y \in Row
    PROVE  /\ x & y \in Row /\ x | y \in Row /\ x ^^ y \in Row
           /\ \A i \in 0 .. 2 * Width + 1 :
                 /\ BitOf(x & y, i) <=> BitOf(x, i) /\ BitOf(y, i)
                 /\ BitOf(x | y, i) <=> BitOf(x, i) \/ BitOf(y, i)
                 /\ BitOf(x ^^ y, i) <=> ~(BitOf(x, i) <=> BitOf(y, i))
<1> DEFINE and == [a \in BOOLEAN |-> [b \in BOOLEAN |-> a /\ b]]
           or  == [a \in BOOLEAN |-> [b \in BOOLEAN |-> a \/ b]]
           xor == [a \in BOOLEAN |-> [b \in BOOLEAN |-> a # b]]
<1>1. /\ and \in [BOOLEAN -> [BOOLEAN -> BOOLEAN]] /\ or \in [BOOLEAN -> [BOOLEAN -> BOOLEAN]]
      /\ xor \in [BOOLEAN -> [BOOLEAN -> BOOLEAN]]
  OBVIOUS
<1>2. x & y = BitByBit(and, x, y) /\ x | y = BitByBit(or, x, y) /\ x ^^ y = BitByBit(xor, x, y)
  BY DEF &, |, ^^
<1>3. \A a, b \in BOOLEAN :
          and[a][b] = (a /\ b) /\ or[a][b] = (a \/ b) /\ xor[a][b] = (a # b)
  OBVIOUS
<1>4. \A z, i : BitOf(z, i) \in BOOLEAN
  BY DEF BitOf
<1> HIDE DEF and, or, xor
<1>5. ASSUME NEW gate \in {and, or, xor}
      PROVE  /\ BitByBit(gate, x, y) \in Row
             /\ \A i \in 0 .. 2 * Width + 1 :
                   BitOf(BitByBit(gate, x, y), i) <=> gate[BitOf(x, i)][BitOf(y, i)]
  BY <1>1, <1>5, BitByBitHas
<1>6. x & y \in Row /\ x | y \in Row /\ x ^^ y \in Row
  BY <1>2, <1>5
<1>7. ASSUME NEW i \in 0 .. 2 * Width + 1
      PROVE  /\ BitOf(x & y, i) <=> BitOf(x, i) /\ BitOf(y, i)
             /\ BitOf(x | y, i) <=> BitOf(x, i) \/ BitOf(y, i)
             /\ BitOf(x ^^ y, i) <=> ~(BitOf(x, i) <=> BitOf(y, i))
  <2>1. PICK p \in BOOLEAN, q \in BOOLEAN : p = BitOf(x, i) /\ q = BitOf(y, i)
    BY <1>4
  <2>2. BitOf(x & y, i) <=> and[p][q]
    BY <1>2, <1>5, <2>1
  <2>3. BitOf(x | y, i) <=> or[p][q]
    BY <1>2, <1>5, <2>1
  <2>4. BitOf(x ^^ y, i) <=> xor[p][q]
    BY <1>2, <1>5, <2>1
  <2>5. QED
    BY <1>3, <2>1, <2>2, <2>3, <2>4
<1>8. QED
  BY <1>6, <1>7

-----------------------------------------------------------------------------
(* Adders.                                                                 *)

\* What the positions below i carry into it.
Carry(a, b, c, i) == (a % 2^i) + (b % 2^i) + c >= 2^i

\* What remainders carry into the quotient of a sum.
CarryOf(a, b, c, m) == IF (a % m) + (b % m) + c >= m THEN 1 ELSE 0

\* The quotient of a sum.
LEMMA CarryInto ==
    ASSUME NEW a \in Int, NEW b \in Int, NEW c \in {0, 1}, NEW m \in Nat \ {0}
    PROVE  (a + b + c) \div m = (a \div m) + (b \div m) + CarryOf(a, b, c, m)
<1>1. PICK p \in Int, u \in 0 .. m - 1 : p = a \div m /\ u = a % m /\ a = p * m + u
  BY DivModOf
<1>2. PICK q \in Int, v \in 0 .. m - 1 : q = b \div m /\ v = b % m /\ b = q * m + v
  BY DivModOf
<1>3. PICK s \in Int : s = a + b + c
  OBVIOUS
<1>4. CASE u + v + c >= m
  <2>1. s = (p + q + 1) * m + (u + v + c - m) /\ p + q + 1 \in Int
    <3>1. (p + q + 1) * m = p * m + q * m + m /\ p * m \in Int /\ q * m \in Int
      OBVIOUS
    <3>2. QED
      BY <1>1, <1>2, <1>3, <3>1
  <2>2. u + v + c - m \in 0 .. m - 1
    BY <1>1, <1>2, <1>4
  <2>3. s \div m = p + q + 1
    BY <2>1, <2>2, DivMod
  <2>4. QED
    BY <1>1, <1>2, <1>3, <1>4, <2>3 DEF CarryOf
<1>5. CASE u + v + c < m
  <2>1. s = (p + q) * m + (u + v + c) /\ p + q \in Int
    BY <1>1, <1>2, <1>3
  <2>2. u + v + c \in 0 .. m - 1
    BY <1>1, <1>2, <1>5
  <2>3. s \div m = p + q
    BY <2>1, <2>2, DivMod
  <2>4. QED
    BY <1>1, <1>2, <1>3, <1>5, <2>3 DEF CarryOf
<1>6. QED
  BY <1>1, <1>2, <1>4, <1>5 DEF CarryOf

\* A full adder at position i adds the two bits and the carry from below.
LEMMA FullAdderAdds ==
    ASSUME NEW a \in Int, NEW b \in Int, NEW c \in {0, 1}
    PROVE  /\ Carry(a, b, c, 0) <=> c = 1
           /\ \A i \in 0 .. 2 * Width + 1 :
                 /\ Carry(a, b, c, i + 1) <=>
                        FullAdderCarry(BitOf(a, i), BitOf(b, i), Carry(a, b, c, i))
                 /\ BitOf(a + b + c, i) <=>
                        FullAdderSum(BitOf(a, i), BitOf(b, i), Carry(a, b, c, i))
<1>1. Carry(a, b, c, 0) <=> c = 1
  <2>1. a % 2^0 = 0 /\ b % 2^0 = 0 /\ 2^0 = 1
    BY BitStep, Powers
  <2>2. QED
    BY <2>1 DEF Carry
<1>2. ASSUME NEW i \in 0 .. 2 * Width + 1
      PROVE  /\ Carry(a, b, c, i + 1) <=>
                    FullAdderCarry(BitOf(a, i), BitOf(b, i), Carry(a, b, c, i))
             /\ BitOf(a + b + c, i) <=>
                    FullAdderSum(BitOf(a, i), BitOf(b, i), Carry(a, b, c, i))
  <2>1. i \in 0 .. 2 * Width + 2
    BY Powers
  <2>2. PICK m \in Nat \ {0} : m = 2^i /\ 2^(i + 1) = 2 * m
    BY <2>1, Powers
  <2>3. PICK u \in 0 .. m - 1, p \in Int : u = a % m /\ p = a \div m
    BY <2>2, DivModOf
  <2>4. PICK v \in 0 .. m - 1, q \in Int : v = b % m /\ q = b \div m
    BY <2>2, DivModOf
  <2>5. a % (2 * m) = u + (IF BitOf(a, i) THEN m ELSE 0)
    BY <2>2, <2>3, BitStep, ZenonT(40)
  <2>6. b % (2 * m) = v + (IF BitOf(b, i) THEN m ELSE 0)
    BY <2>2, <2>4, BitStep, ZenonT(40)
  <2>7. Carry(a, b, c, i) <=> u + v + c >= m
    BY <2>2, <2>3, <2>4 DEF Carry
  <2>8. Carry(a, b, c, i + 1) <=>
            u + (IF BitOf(a, i) THEN m ELSE 0) + (v + (IF BitOf(b, i) THEN m ELSE 0)) + c >= 2 * m
    BY <2>2, <2>5, <2>6 DEF Carry
  <2>9. BitOf(a, i) \in BOOLEAN /\ BitOf(b, i) \in BOOLEAN
    BY DEF BitOf
  <2>10. Carry(a, b, c, i + 1) <=>
             FullAdderCarry(BitOf(a, i), BitOf(b, i), Carry(a, b, c, i))
    BY <2>7, <2>8, <2>9 DEF FullAdderCarry
  <2>11. (a + b + c) \div m = p + q + (IF u + v + c >= m THEN 1 ELSE 0)
    <3>1. (a + b + c) \div m = (a \div m) + (b \div m) + CarryOf(a, b, c, m)
      BY CarryInto, ZenonT(60)
    <3>2. QED
      BY <2>3, <2>4, <3>1 DEF CarryOf
  <2>12. /\ BitOf(a + b + c, i) <=> (p + q + (IF u + v + c >= m THEN 1 ELSE 0)) % 2 = 1
         /\ BitOf(a, i) <=> p % 2 = 1
         /\ BitOf(b, i) <=> q % 2 = 1
    BY <2>2, <2>3, <2>4, <2>11 DEF BitOf
  <2>13. BitOf(a + b + c, i) <=>
             FullAdderSum(BitOf(a, i), BitOf(b, i), Carry(a, b, c, i))
    <3>1. PICK d \in {0, 1} : d = IF u + v + c >= m THEN 1 ELSE 0
      OBVIOUS
    <3>2. (p + q + d) % 2 = 1 <=> ((p % 2 = 1 <=> q % 2 = 1) <=> d = 1)
      <4>1. PICK j \in Int, k \in Int, r \in {0, 1}, s \in {0, 1} :
                p = 2 * j + r /\ q = 2 * k + s /\ p % 2 = r /\ q % 2 = s
        <5>1. /\ p \div 2 \in Int /\ p % 2 \in {0, 1} /\ p = 2 * (p \div 2) + (p % 2)
              /\ q \div 2 \in Int /\ q % 2 \in {0, 1} /\ q = 2 * (q \div 2) + (q % 2)
          OBVIOUS
        <5>2. QED
          BY <5>1
      <4>2. p + q + d = 2 * (j + k) + (r + s + d)
        BY <4>1
      <4>3. (2 * (j + k) + (r + s + d)) % 2 = (r + s + d) % 2
        BY <4>1
      <4>4. (r + s + d) % 2 = 1 <=> ((r = 1 <=> s = 1) <=> d = 1)
        BY <4>1
      <4>5. QED
        BY <4>1, <4>2, <4>3, <4>4
    <3>3. PICK x \in BOOLEAN, y \in BOOLEAN, z \in BOOLEAN :
              x = BitOf(a, i) /\ y = BitOf(b, i) /\ z = Carry(a, b, c, i)
      <4>1. BitOf(a, i) \in BOOLEAN /\ BitOf(b, i) \in BOOLEAN /\ Carry(a, b, c, i) \in BOOLEAN
        BY DEF BitOf, Carry
      <4>2. QED
        BY <4>1
    <3>4. BitOf(a + b + c, i) <=> ((x <=> y) <=> z)
      BY <2>7, <2>12, <3>1, <3>2, <3>3
    <3>5. FullAdderSum(x, y, z) <=> ((x <=> y) <=> z)
      BY DEF FullAdderSum
    <3>6. QED
      BY <3>3, <3>4, <3>5
  <2>14. QED
    BY <2>10, <2>13
<1>3. QED
  BY <1>1, <1>2

Truth(c) == IF c THEN 1 ELSE 0

\* The ripple of the carries.
LEMMA RippleIs ==
    ASSUME NEW a \in Int, NEW b \in Int, NEW cin \in BOOLEAN
    PROVE  \A i \in 0 .. Width : RippleCarries(a, b, cin)[i] = Carry(a, b, Truth(cin), i)
<1> DEFINE c == Truth(cin)
           h == [i \in 0 .. Width |-> Carry(a, b, c, i)]
           p == RippleCarries(a, b, cin)
           P == {i \in 0 .. Width : p[i] = h[i]}
<1>1. c \in {0, 1} /\ (c = 1 <=> cin)
  BY DEF Truth
<1>2. Width \in Nat
  BY Powers
<1>3. h = [i \in 0 .. Width |->
              IF i = 0 THEN cin
              ELSE FullAdderCarry(BitOf(a, i - 1), BitOf(b, i - 1), h[i - 1])]
  <2>1. h \in [0 .. Width -> BOOLEAN]
    BY DEF Carry
  <2>2. ASSUME NEW i \in 0 .. Width
        PROVE  h[i] = IF i = 0 THEN cin
                      ELSE FullAdderCarry(BitOf(a, i - 1), BitOf(b, i - 1), h[i - 1])
    <3>1. CASE i = 0
      <4>1. Carry(a, b, c, 0) <=> cin
        BY <1>1, FullAdderAdds
      <4>2. QED
        BY <2>1, <3>1, <4>1
    <3>2. CASE i # 0
      <4>1. i - 1 \in 0 .. 2 * Width + 1 /\ (i - 1) + 1 = i /\ i - 1 \in 0 .. Width
        BY <1>2, <3>2
      <4>2. PICK j \in 0 .. 2 * Width + 1 : j = i - 1 /\ j + 1 = i /\ j \in 0 .. Width
        BY <4>1
      <4>3. Carry(a, b, c, j + 1) <=> FullAdderCarry(BitOf(a, j), BitOf(b, j), Carry(a, b, c, j))
        BY <1>1, FullAdderAdds
      <4>4. h[i] <=> FullAdderCarry(BitOf(a, i - 1), BitOf(b, i - 1), h[i - 1])
        BY <4>2, <4>3
      <4>5. FullAdderCarry(BitOf(a, i - 1), BitOf(b, i - 1), h[i - 1]) \in BOOLEAN
        BY DEF FullAdderCarry
      <4>6. QED
        BY <2>1, <3>2, <4>4, <4>5
    <3>3. QED
      BY <3>1, <3>2
  <2>3. QED
    BY <2>1, <2>2
<1> HIDE DEF h
<1>4. p = [i \in 0 .. Width |->
              IF i = 0 THEN cin
              ELSE FullAdderCarry(BitOf(a, i - 1), BitOf(b, i - 1), p[i - 1])]
  BY <1>3, Zenon DEF RippleCarries
<1> HIDE DEF p
<1>5. 0 \in P
  BY <1>2, <1>3, <1>4
<1>6. ASSUME NEW i \in 0 .. Width - 1, i \in P PROVE i + 1 \in P
  <2>1. i + 1 \in 0 .. Width /\ i + 1 # 0 /\ (i + 1) - 1 = i
    BY <1>2
  <2>2. p[i + 1] = FullAdderCarry(BitOf(a, i), BitOf(b, i), p[i])
    BY <1>4, <2>1
  <2>3. h[i + 1] = FullAdderCarry(BitOf(a, i), BitOf(b, i), h[i])
    BY <1>3, <2>1
  <2>4. p[i + 1] = h[i + 1]
    BY <1>6, <2>2, <2>3
  <2>5. QED
    BY <2>1, <2>4
<1> HIDE DEF P
<1>7. 0 .. Width \subseteq P
  BY <1>2, <1>5, <1>6, InductionUpTo
<1>8. QED
  BY <1>7 DEF P, p, h, c

\* The ripple-carry adder adds.
LEMMA RippleAdds ==
    ASSUME NEW a \in Word, NEW b \in Word, NEW cin \in BOOLEAN
    PROVE  /\ RippleCarryAdder(a, b, cin).sum = WordOf(a + b + Truth(cin))
           /\ RippleCarryAdder(a, b, cin).carryOut = (a + b + Truth(cin) >= 2^Width)
<1>1. Width \in Nat /\ Width \in 0 .. 2 * Width + 2 /\ 2^Width \in Nat \ {0}
  BY Powers
<1>2. PICK c \in {0, 1} : c = Truth(cin)
  BY DEF Truth
<1> DEFINE carries == RippleCarries(a, b, cin)
           wires == [i \in Wires |-> FullAdderSum(BitOf(a, i), BitOf(b, i), carries[i])]
<1>3. a \in Int /\ b \in Int /\ a >= 0 /\ b >= 0 /\ a < 2^Width /\ b < 2^Width
      /\ a + b + c \in Int
  BY <1>1 DEF Word
<1>4. \A i \in 0 .. Width : carries[i] = Carry(a, b, c, i)
  BY <1>2, <1>3, RippleIs
<1>5. ASSUME NEW i \in 0 .. Width - 1 PROVE wires[i] <=> BitOf(a + b + c, i)
  <2>1. i \in 0 .. 2 * Width + 1 /\ i \in 0 .. Width /\ i \in Wires
    BY <1>1 DEF Wires
  <2>2. BitOf(a + b + c, i) <=> FullAdderSum(BitOf(a, i), BitOf(b, i), Carry(a, b, c, i))
    BY <1>3, <2>1, FullAdderAdds
  <2>3. wires[i] = FullAdderSum(BitOf(a, i), BitOf(b, i), carries[i])
    BY <2>1
  <2>4. carries[i] = Carry(a, b, c, i)
    BY <1>4, <2>1
  <2>5. QED
    BY <2>2, <2>3, <2>4
<1>6. RippleCarryAdder(a, b, cin).sum = NumberOn(wires, Width)
      /\ RippleCarryAdder(a, b, cin).carryOut = carries[Width]
  BY DEF RippleCarryAdder
<1>7. Width \in 0 .. Width /\ a % 2^Width = a /\ b % 2^Width = b
  BY <1>1, <1>3
<1> HIDE DEF wires, carries
<1>8. NumberOn(wires, Width) = (a + b + c) % 2^Width
  BY <1>1, <1>3, <1>5, NumberIs
<1>9. carries[Width] = (a + b + c >= 2^Width)
  BY <1>4, <1>7 DEF Carry
<1>10. QED
  BY <1>2, <1>6, <1>8, <1>9 DEF WordOf

\* Looking ahead is what rippling through generates and propagates would give.
LEMMA LookaheadIs ==
    ASSUME NEW n \in Nat, NEW g, NEW p, NEW cin \in BOOLEAN, NEW h, h[0] <=> cin,
           \A i \in 0 .. n - 1 : h[i + 1] <=> (g[i] \/ (p[i] /\ h[i]))
    PROVE  \A i \in 0 .. n : Lookahead(g, p, cin, i) <=> h[i]
<1> DEFINE P == {i \in 0 .. n : Lookahead(g, p, cin, i) <=> h[i]}
<1>1. 0 \in P
  <2>1. Lookahead(g, p, cin, 0) <=> cin
    BY DEF Lookahead
  <2>2. QED
    BY <2>1
<1>2. ASSUME NEW i \in 0 .. n - 1, i \in P PROVE i + 1 \in P
  <2>1. i + 1 \in 0 .. n /\ i \in Nat
    OBVIOUS
  <2>2. \A k : k \in 0 .. (i + 1) - 1 <=> k \in 0 .. i - 1 \/ k = i
    BY <2>1
  <2>3. \A s \in 0 .. i - 1 : \A k : k \in s + 1 .. (i + 1) - 1 <=> k \in s + 1 .. i - 1 \/ k = i
    BY <2>1
  <2>4. \A k : ~(k \in i + 1 .. (i + 1) - 1)
    BY <2>1
  <2> DEFINE all(j) == \A k \in 0 .. j - 1 : p[k]
             from(j) == \E s \in 0 .. j - 1 : g[s] /\ \A k \in s + 1 .. j - 1 : p[k]
  <2>5. all(i + 1) <=> p[i] /\ all(i)
    BY <2>2
  <2>6. from(i + 1) <=> g[i] \/ (p[i] /\ from(i))
    <3>1. ASSUME from(i + 1), ~g[i] PROVE p[i] /\ from(i)
      <4>1. PICK s \in 0 .. (i + 1) - 1 : g[s] /\ \A k \in s + 1 .. (i + 1) - 1 : p[k]
        BY <3>1
      <4>2. s \in 0 .. i - 1
        BY <2>2, <3>1, <4>1
      <4>3. p[i] /\ \A k \in s + 1 .. i - 1 : p[k]
        BY <2>3, <4>1, <4>2
      <4>4. QED
        BY <4>1, <4>2, <4>3
    <3>2. ASSUME g[i] PROVE from(i + 1)
      <4>1. i \in 0 .. (i + 1) - 1
        BY <2>2
      <4>2. QED
        BY <2>4, <3>2, <4>1
    <3>3. ASSUME p[i], from(i) PROVE from(i + 1)
      <4>1. PICK s \in 0 .. i - 1 : g[s] /\ \A k \in s + 1 .. i - 1 : p[k]
        BY <3>3
      <4>2. s \in 0 .. (i + 1) - 1
        BY <2>2, <4>1
      <4>3. \A k \in s + 1 .. (i + 1) - 1 : p[k]
        BY <2>3, <3>3, <4>1
      <4>4. QED
        BY <4>1, <4>2, <4>3
    <3>4. QED
      BY <3>1, <3>2, <3>3
  <2>7. /\ Lookahead(g, p, cin, i) <=> (cin /\ all(i)) \/ from(i)
        /\ Lookahead(g, p, cin, i + 1) <=> (cin /\ all(i + 1)) \/ from(i + 1)
    BY DEF Lookahead
  <2>8. Lookahead(g, p, cin, i) <=> h[i]
    BY <1>2
  <2>9. h[i + 1] <=> g[i] \/ (p[i] /\ h[i])
    OBVIOUS
  <2> HIDE DEF all, from
  <2>10. Lookahead(g, p, cin, i + 1) <=> h[i + 1]
    BY <2>5, <2>6, <2>7, <2>8, <2>9
  <2>11. QED
    BY <2>1, <2>10
<1> HIDE DEF P
<1>3. 0 .. n \subseteq P
  BY <1>1, <1>2, InductionUpTo
<1>4. QED
  BY <1>3 DEF P

\* Looking ahead over the lowest bits of two numbers.
LEMMA LookaheadOfBits ==
    ASSUME NEW a \in Int, NEW b \in Int, NEW cin \in BOOLEAN,
           NEW g, NEW p
    PROVE  (\A i \in 0 .. 3 : /\ g[i] <=> BitOf(a, i) /\ BitOf(b, i)
                              /\ p[i] <=> ~(BitOf(a, i) <=> BitOf(b, i)))
           => \A i \in 0 .. 4 : Lookahead(g, p, cin, i) <=> Carry(a, b, Truth(cin), i)
<1>0. SUFFICES ASSUME \A i \in 0 .. 3 : /\ g[i] <=> BitOf(a, i) /\ BitOf(b, i)
                                        /\ p[i] <=> ~(BitOf(a, i) <=> BitOf(b, i))
               PROVE  \A i \in 0 .. 4 : Lookahead(g, p, cin, i) <=> Carry(a, b, Truth(cin), i)
  OBVIOUS
<1>1. PICK c \in {0, 1} : c = Truth(cin) /\ (c = 1 <=> cin)
  BY DEF Truth
<1>n. PICK n \in Nat : n = 4
  OBVIOUS
<1>2. PICK h : \A i \in 0 .. 4 : h[i] = Carry(a, b, c, i)
  <2>1. \A i \in 0 .. 4 : [j \in 0 .. 4 |-> Carry(a, b, c, j)][i] = Carry(a, b, c, i)
    OBVIOUS
  <2>2. QED
    BY <2>1
<1>3. h[0] <=> cin
  BY <1>1, <1>2, FullAdderAdds
<1>4. ASSUME NEW i \in 0 .. n - 1 PROVE h[i + 1] <=> (g[i] \/ (p[i] /\ h[i]))
  <2>1. i \in 0 .. 3 /\ i \in 0 .. 2 * Width + 1 /\ i + 1 \in 0 .. 4 /\ i \in 0 .. 4
    BY <1>n, Powers
  <2>2. Carry(a, b, c, i + 1) <=> FullAdderCarry(BitOf(a, i), BitOf(b, i), Carry(a, b, c, i))
    BY <2>1, FullAdderAdds
  <2>3. BitOf(a, i) \in BOOLEAN /\ BitOf(b, i) \in BOOLEAN /\ Carry(a, b, c, i) \in BOOLEAN
    BY DEF BitOf, Carry
  <2>4. Carry(a, b, c, i + 1) <=> g[i] \/ (p[i] /\ Carry(a, b, c, i))
    BY <1>0, <2>1, <2>2, <2>3 DEF FullAdderCarry
  <2>5. QED
    BY <1>2, <2>1, <2>4
<1>5. \A i \in 0 .. n : Lookahead(g, p, cin, i) <=> h[i]
  BY <1>3, <1>4, LookaheadIs
<1>6. QED
  BY <1>n, <1>1, <1>2, <1>5

\* The bits of a nibble.
LEMMA NibbleBits ==
    ASSUME NEW a \in 0 .. 15
    PROVE  \E p \in {0, 1}, q \in {0, 1}, r \in {0, 1}, s \in {0, 1} :
              /\ a = p + 2 * q + 4 * r + 8 * s
              /\ BitOf(a, 0) <=> p = 1
              /\ BitOf(a, 1) <=> q = 1
              /\ BitOf(a, 2) <=> r = 1
              /\ BitOf(a, 3) <=> s = 1
<1>1. /\ BitOf(a, 0) <=> (a \div 1) % 2 = 1
      /\ BitOf(a, 1) <=> (a \div 2) % 2 = 1
      /\ BitOf(a, 2) <=> (a \div 4) % 2 = 1
      /\ BitOf(a, 3) <=> (a \div 8) % 2 = 1
  BY Powers DEF BitOf
<1>2. /\ a % 2 \in {0, 1} /\ (a \div 2) % 2 \in {0, 1} /\ (a \div 4) % 2 \in {0, 1}
      /\ (a \div 8) % 2 \in {0, 1} /\ (a \div 1) % 2 = a % 2
      /\ a = (a % 2) + 2 * ((a \div 2) % 2) + 4 * ((a \div 4) % 2) + 8 * ((a \div 8) % 2)
  OBVIOUS
<1>3. QED
  BY <1>1, <1>2

\* A four-bit adder adds, and its group signals say what it does with a carry.
LEMMA GroupAdds ==
    ASSUME NEW a \in 0 .. 15, NEW b \in 0 .. 15, NEW cin \in BOOLEAN
    PROVE  /\ CLA4(a, b, cin).sum = (a + b + Truth(cin)) % 16
           /\ CLA4(a, b, cin).groupGenerate <=> a + b >= 16
           /\ CLA4(a, b, cin).groupPropagate <=> a + b = 15
<1> DEFINE propagate == [i \in 0 .. 3 |-> BitOf(a, i) # BitOf(b, i)]
           generate  == [i \in 0 .. 3 |-> BitOf(a, i) /\ BitOf(b, i)]
           wires == [i \in 0 .. 3 |-> propagate[i] # Lookahead(generate, propagate, cin, i)]
<1>1. /\ CLA4(a, b, cin).sum = NumberOn(wires, 4)
      /\ CLA4(a, b, cin).groupPropagate <=> \A i \in 0 .. 3 : propagate[i]
      /\ CLA4(a, b, cin).groupGenerate <=> Lookahead(generate, propagate, FALSE, 4)
  BY DEF CLA4
<1>2. a \in Int /\ b \in Int /\ 2^4 = 16 /\ 4 \in 0 .. 2 * Width + 2
  BY Powers
<1>3. \A i : BitOf(a, i) \in BOOLEAN /\ BitOf(b, i) \in BOOLEAN
  BY DEF BitOf
<1>4. \A i \in 0 .. 3 : /\ generate[i] <=> BitOf(a, i) /\ BitOf(b, i)
                        /\ propagate[i] <=> ~(BitOf(a, i) <=> BitOf(b, i))
                        /\ propagate[i] \in BOOLEAN
                        /\ wires[i] = (propagate[i] # Lookahead(generate, propagate, cin, i))
  BY <1>3
<1> HIDE DEF propagate, generate, wires
<1>5. \A d \in BOOLEAN : \A i \in 0 .. 4 :
          Lookahead(generate, propagate, d, i) <=> Carry(a, b, Truth(d), i)
  BY <1>2, <1>4, LookaheadOfBits
<1>6. CLA4(a, b, cin).sum = (a + b + Truth(cin)) % 16
  <2>1. PICK c \in {0, 1} : c = Truth(cin)
    BY DEF Truth
  <2>2. ASSUME NEW i \in 0 .. 4 - 1 PROVE wires[i] <=> BitOf(a + b + c, i)
    <3>1. i \in 0 .. 3 /\ i \in 0 .. 4 /\ i \in 0 .. 2 * Width + 1
      BY Powers
    <3>2. BitOf(a + b + c, i) <=> FullAdderSum(BitOf(a, i), BitOf(b, i), Carry(a, b, c, i))
      BY <1>2, <3>1, FullAdderAdds
    <3>3. PICK x \in BOOLEAN, y \in BOOLEAN, z \in BOOLEAN, l \in BOOLEAN :
              /\ x = BitOf(a, i) /\ y = BitOf(b, i) /\ z = Carry(a, b, c, i)
              /\ l = Lookahead(generate, propagate, cin, i)
      <4>1. Carry(a, b, c, i) \in BOOLEAN /\ Lookahead(generate, propagate, cin, i) \in BOOLEAN
        BY DEF Carry, Lookahead
      <4>2. QED
        BY <1>3, <4>1
    <3>4. l <=> z
      BY <1>5, <2>1, <3>1, <3>3
    <3>5. wires[i] <=> ~(~(x <=> y) <=> z)
      BY <1>4, <3>1, <3>3, <3>4
    <3>6. FullAdderSum(x, y, z) <=> ((x <=> y) <=> z)
      BY DEF FullAdderSum
    <3>7. QED
      BY <3>2, <3>3, <3>5, <3>6
  <2>3. NumberOn(wires, 4) = (a + b + c) % 2^4
    <3>1. a + b + c \in Int
      BY <1>2
    <3>2. QED
      BY <1>2, <2>2, <3>1, NumberIs
  <2>4. QED
    BY <1>1, <1>2, <2>1, <2>3
<1>7. CLA4(a, b, cin).groupGenerate <=> a + b >= 16
  <2>1. Lookahead(generate, propagate, FALSE, 4) <=> Carry(a, b, 0, 4)
    <3>1. FALSE \in BOOLEAN /\ 4 \in 0 .. 4 /\ Truth(FALSE) = 0
      BY DEF Truth
    <3>2. Lookahead(generate, propagate, FALSE, 4) <=> Carry(a, b, Truth(FALSE), 4)
      BY <1>5, <3>1, Zenon
    <3>3. QED
      BY <3>1, <3>2
  <2>2. Carry(a, b, 0, 4) <=> a + b >= 16
    BY <1>2 DEF Carry
  <2>3. QED
    BY <1>1, <2>1, <2>2
<1>8. CLA4(a, b, cin).groupPropagate <=> a + b = 15
  <2>1. (\A i \in 0 .. 3 : propagate[i]) <=>
            /\ ~(BitOf(a, 0) <=> BitOf(b, 0)) /\ ~(BitOf(a, 1) <=> BitOf(b, 1))
            /\ ~(BitOf(a, 2) <=> BitOf(b, 2)) /\ ~(BitOf(a, 3) <=> BitOf(b, 3))
    BY <1>4
  <2>2. PICK p \in {0, 1}, q \in {0, 1}, r \in {0, 1}, s \in {0, 1} :
              /\ a = p + 2 * q + 4 * r + 8 * s
              /\ BitOf(a, 0) <=> p = 1
              /\ BitOf(a, 1) <=> q = 1
              /\ BitOf(a, 2) <=> r = 1
              /\ BitOf(a, 3) <=> s = 1
    BY NibbleBits
  <2>3. PICK t \in {0, 1}, u \in {0, 1}, v \in {0, 1}, w \in {0, 1} :
              /\ b = t + 2 * u + 4 * v + 8 * w
              /\ BitOf(b, 0) <=> t = 1
              /\ BitOf(b, 1) <=> u = 1
              /\ BitOf(b, 2) <=> v = 1
              /\ BitOf(b, 3) <=> w = 1
    BY NibbleBits
  <2>4. (p # t /\ q # u /\ r # v /\ s # w) <=> a + b = 15
    BY <2>2, <2>3
  <2>5. QED
    BY <1>1, <2>1, <2>2, <2>3, <2>4
<1>9. QED
  BY <1>6, <1>7, <1>8

\* The nibbles of a number, and the bits of them.
LEMMA NibbleOf ==
    ASSUME NEW x \in Int
    PROVE  /\ 16^0 = 1 /\ 16^(Width \div 4) = 2^Width
           /\ \A k \in 0 .. Width \div 4 : 16^k \in Nat \ {0}
           /\ \A k \in Blocks :
                 /\ 16^(k + 1) = 16^k * 16
                 /\ Nibble(x, k) \in 0 .. 15
                 /\ x % 16^(k + 1) = (x % 16^k) + 16^k * Nibble(x, k)
                 /\ \A i \in 0 .. 3 : BitOf(Nibble(x, k), i) <=> BitOf(x, 4 * k + i)
<1>1. /\ Width \in Nat /\ Width \div 4 \in Nat /\ Width = 4 * (Width \div 4)
      /\ 2^0 = 1 /\ 2^1 = 2 /\ 2^2 = 4 /\ 2^3 = 8 /\ 2^4 = 16
  BY Powers
<1>2. \A k \in 0 .. Width \div 4 : 16^k = 2^(4 * k) /\ 4 * k \in 0 .. 2 * Width + 2
  BY <1>1, PowersAssumption
<1>3. 16^0 = 1 /\ 16^(Width \div 4) = 2^Width /\ \A k \in 0 .. Width \div 4 : 16^k \in Nat \ {0}
  BY <1>1, <1>2, Powers
<1>4. ASSUME NEW k \in Blocks
      PROVE  /\ 16^(k + 1) = 16^k * 16
             /\ Nibble(x, k) \in 0 .. 15
             /\ x % 16^(k + 1) = (x % 16^k) + 16^k * Nibble(x, k)
             /\ \A i \in 0 .. 3 : BitOf(Nibble(x, k), i) <=> BitOf(x, 4 * k + i)
  <2>1. /\ k \in 0 .. Width \div 4 /\ k + 1 \in 0 .. Width \div 4 /\ 4 * (k + 1) = 4 * k + 4
        /\ 4 * k \in 0 .. 2 * Width + 2 /\ 4 * k + 4 <= 2 * Width + 2 /\ 4 \in 0 .. 2 * Width + 2
        /\ \A i \in 0 .. 3 : i \in 0 .. 2 * Width + 2 /\ 4 * k + i <= 2 * Width + 2
    BY <1>1 DEF Blocks
  <2>2. PICK M \in Nat \ {0} : M = 16^k /\ M = 2^(4 * k)
    BY <1>2, <1>3, <2>1
  <2>3. 16^(k + 1) = M * 16
    <3>1. 2^(4 * k + 4) = 2^(4 * k) * 2^4
      BY <2>1, Powers
    <3>2. 16^(k + 1) = 2^(4 * k + 4)
      BY <1>2, <2>1
    <3>3. QED
      BY <1>1, <2>2, <3>1, <3>2
  <2>4. PICK q \in Int : q = x \div M
    BY DivModOf
  <2>5. Nibble(x, k) = q % 16 /\ q % 16 \in 0 .. 15
    BY <2>2, <2>4 DEF Nibble
  <2>6. x % (M * 16) = (x % M) + M * (q % 16)
    BY <2>4, DivDiv, 16 \in Nat \ {0}
  <2>7. ASSUME NEW i \in 0 .. 3 PROVE BitOf(Nibble(x, k), i) <=> BitOf(x, 4 * k + i)
    <3>1. PICK n \in {1, 2, 4, 8} : n = 2^i
      <4>1. i = 0 \/ i = 1 \/ i = 2 \/ i = 3
        OBVIOUS
      <4>2. QED
        BY <1>1, <4>1
    <3>2. 2^(4 * k + i) = M * n
      BY <2>1, <2>2, <3>1, Powers
    <3>3. x \div (M * n) = q \div n
      BY <2>4, DivDiv, n \in Nat \ {0}
    <3>4. ((q % 16) \div n) % 2 = (q \div n) % 2
      OBVIOUS
    <3>5. QED
      BY <2>5, <3>1, <3>2, <3>3, <3>4 DEF BitOf
  <2>8. QED
    BY <2>2, <2>3, <2>5, <2>6, <2>7
<1>5. QED
  BY <1>3, <1>4

\* What the blocks below k carry into it.
BlockCarry(a, b, c, k) == (a % 16^k) + (b % 16^k) + c >= 16^k

\* A block adds its nibbles and the carry from the blocks below.
LEMMA BlockAdds ==
    ASSUME NEW a \in Int, NEW b \in Int, NEW c \in {0, 1}
    PROVE  /\ BlockCarry(a, b, c, 0) <=> c = 1
           /\ \A k \in Blocks :
                 LET s == Nibble(a, k) + Nibble(b, k)
                 IN  /\ BlockCarry(a, b, c, k + 1) <=>
                            s >= 16 \/ (s = 15 /\ BlockCarry(a, b, c, k))
                     /\ Nibble(a + b + c, k) = (s + Truth(BlockCarry(a, b, c, k))) % 16
<1>1. BlockCarry(a, b, c, 0) <=> c = 1
  <2>1. 16^0 = 1 /\ a % 1 = 0 /\ b % 1 = 0
    BY NibbleOf
  <2>2. QED
    BY <2>1 DEF BlockCarry
<1>2. ASSUME NEW k \in Blocks
      PROVE  LET s == Nibble(a, k) + Nibble(b, k)
             IN  /\ BlockCarry(a, b, c, k + 1) <=>
                        s >= 16 \/ (s = 15 /\ BlockCarry(a, b, c, k))
                 /\ Nibble(a + b + c, k) = (s + Truth(BlockCarry(a, b, c, k))) % 16
  <2>1. k \in 0 .. Width \div 4
    BY Powers DEF Blocks
  <2>2. PICK M \in Nat \ {0} : M = 16^k /\ 16^(k + 1) = M * 16
    BY <2>1, NibbleOf
  <2>3. PICK u \in 0 .. M - 1, p \in Int : u = a % M /\ p = a \div M
    BY DivModOf
  <2>4. PICK v \in 0 .. M - 1, q \in Int : v = b % M /\ q = b \div M
    BY DivModOf
  <2>5. PICK e \in 0 .. 15, f \in 0 .. 15 :
            /\ e = Nibble(a, k) /\ f = Nibble(b, k) /\ e = p % 16 /\ f = q % 16
            /\ a % (M * 16) = u + M * e /\ b % (M * 16) = v + M * f
    <3>1. Nibble(a, k) \in 0 .. 15 /\ a % 16^(k + 1) = (a % 16^k) + 16^k * Nibble(a, k)
      BY NibbleOf
    <3>2. Nibble(b, k) \in 0 .. 15 /\ b % 16^(k + 1) = (b % 16^k) + 16^k * Nibble(b, k)
      BY NibbleOf
    <3>3. Nibble(a, k) = p % 16 /\ Nibble(b, k) = q % 16
      BY <2>2, <2>3, <2>4 DEF Nibble
    <3>4. QED
      BY <2>2, <2>3, <2>4, <3>1, <3>2, <3>3
  <2>6. BlockCarry(a, b, c, k) <=> u + v + c >= M
    BY <2>2, <2>3, <2>4 DEF BlockCarry
  <2>7. BlockCarry(a, b, c, k + 1) <=> (u + M * e) + (v + M * f) + c >= M * 16
    BY <2>2, <2>5 DEF BlockCarry
  <2>8. PICK s \in 0 .. 30, t \in Int : s = e + f /\ t = M * s /\ t = M * e + M * f
    BY <2>5
  <2>9. BlockCarry(a, b, c, k + 1) <=> u + v + c + t >= M * 16
    BY <2>5, <2>7, <2>8
  <2>10. /\ s >= 16 => t >= M * 16
         /\ s = 15 => t = M * 15
         /\ s <= 14 => t <= M * 14
    BY <2>8
  <2>11. BlockCarry(a, b, c, k + 1) <=> s >= 16 \/ (s = 15 /\ BlockCarry(a, b, c, k))
    BY <2>3, <2>4, <2>6, <2>8, <2>9, <2>10
  <2>12. PICK d \in {0, 1} : d = IF u + v + c >= M THEN 1 ELSE 0
    OBVIOUS
  <2>13. (a + b + c) \div M = p + q + d
    <3>1. (a + b + c) \div M = (a \div M) + (b \div M) + CarryOf(a, b, c, M)
      BY CarryInto, ZenonT(60)
    <3>2. QED
      BY <2>3, <2>4, <2>12, <3>1 DEF CarryOf
  <2>14. (p + q + d) % 16 = (e + f + d) % 16
    BY <2>5
  <2>15. Nibble(a + b + c, k) = (s + d) % 16
    BY <2>2, <2>8, <2>13, <2>14 DEF Nibble
  <2>16. Truth(BlockCarry(a, b, c, k)) = d
    BY <2>6, <2>12 DEF Truth
  <2>17. QED
    BY <2>5, <2>8, <2>11, <2>15, <2>16
<1>3. QED
  BY <1>1, <1>2

\* The hierarchical adder adds, and its group signals are those of the nibbles.
LEMMA HierarchicalAdds ==
    ASSUME NEW a \in Word, NEW b \in Word, NEW cin \in BOOLEAN
    PROVE  LET adder == HierarchicalCarryLookaheadAdder(a, b, cin)
           IN  /\ adder.sum = WordOf(a + b + Truth(cin))
               /\ adder.carryOut = (a + b + Truth(cin) >= 2^Width)
               /\ \A k \in Blocks :
                     /\ adder.groupGenerate[k] <=> Nibble(a, k) + Nibble(b, k) >= 16
                     /\ adder.groupPropagate[k] <=> Nibble(a, k) + Nibble(b, k) = 15
<1>1. PICK c \in {0, 1} : c = Truth(cin) /\ (c = 1 <=> cin)
  BY DEF Truth
<1>2. /\ a \in Int /\ b \in Int /\ a >= 0 /\ b >= 0 /\ a < 2^Width /\ b < 2^Width
      /\ 2^Width \in Nat \ {0} /\ Width \div 4 \in Nat
  BY Powers DEF Word
<1>3. \A k \in Blocks : Nibble(a, k) \in 0 .. 15 /\ Nibble(b, k) \in 0 .. 15
  BY <1>2, NibbleOf
<1> DEFINE group == [k \in Blocks |-> CLA4(Nibble(a, k), Nibble(b, k), FALSE)]
           generate  == [k \in Blocks |-> group[k].groupGenerate]
           propagate == [k \in Blocks |-> group[k].groupPropagate]
           block(k) == CLA4(Nibble(a, k), Nibble(b, k), Lookahead(generate, propagate, cin, k))
           f == [k \in Blocks |-> block(k).sum * 16^k]
<1>4. ASSUME NEW k \in Blocks
      PROVE  /\ generate[k] <=> Nibble(a, k) + Nibble(b, k) >= 16
             /\ propagate[k] <=> Nibble(a, k) + Nibble(b, k) = 15
  <2>1. /\ generate[k] = CLA4(Nibble(a, k), Nibble(b, k), FALSE).groupGenerate
        /\ propagate[k] = CLA4(Nibble(a, k), Nibble(b, k), FALSE).groupPropagate
    OBVIOUS
  <2>2. FALSE \in BOOLEAN
    OBVIOUS
  <2>3. QED
    BY <1>3, <2>1, <2>2, GroupAdds
<1>5. LET adder == HierarchicalCarryLookaheadAdder(a, b, cin)
      IN  /\ adder.sum = SumBelow(f, Width \div 4)
          /\ adder.carryOut = Lookahead(generate, propagate, cin, Width \div 4)
          /\ adder.groupGenerate = generate /\ adder.groupPropagate = propagate
  BY DEF HierarchicalCarryLookaheadAdder
<1>6. \A k \in Blocks : f[k] = block(k).sum * 16^k
  OBVIOUS
<1> HIDE DEF f, group, generate, propagate
<1>7. PICK h : \A k \in 0 .. Width \div 4 : h[k] = BlockCarry(a, b, c, k)
  <2>1. \A k \in 0 .. Width \div 4 :
            [j \in 0 .. Width \div 4 |-> BlockCarry(a, b, c, j)][k] = BlockCarry(a, b, c, k)
    OBVIOUS
  <2>2. QED
    BY <2>1
<1>8. h[0] <=> cin
  BY <1>1, <1>2, <1>7, BlockAdds
<1>9. PICK n \in Nat : n = Width \div 4
  BY <1>2
<1>10. ASSUME NEW k \in 0 .. n - 1 PROVE h[k + 1] <=> (generate[k] \/ (propagate[k] /\ h[k]))
  <2>1. k \in Blocks /\ k + 1 \in 0 .. Width \div 4 /\ k \in 0 .. Width \div 4
    BY <1>9 DEF Blocks
  <2>2. BlockCarry(a, b, c, k + 1) <=>
            \/ Nibble(a, k) + Nibble(b, k) >= 16
            \/ Nibble(a, k) + Nibble(b, k) = 15 /\ BlockCarry(a, b, c, k)
    BY <1>2, <2>1, BlockAdds
  <2>3. QED
    BY <1>4, <1>7, <2>1, <2>2
<1>11. \A k \in 0 .. n : Lookahead(generate, propagate, cin, k) <=> h[k]
  BY <1>8, <1>10, LookaheadIs
<1>12. \A k \in 0 .. Width \div 4 :
           Lookahead(generate, propagate, cin, k) <=> BlockCarry(a, b, c, k)
  BY <1>7, <1>9, <1>11
<1>13. ASSUME NEW k \in Blocks PROVE block(k).sum = Nibble(a + b + c, k)
  <2>1. k \in 0 .. Width \div 4
    BY <1>2 DEF Blocks
  <2>2. PICK d \in BOOLEAN : d = Lookahead(generate, propagate, cin, k)
    <3>1. Lookahead(generate, propagate, cin, k) \in BOOLEAN
      BY DEF Lookahead
    <3>2. QED
      BY <3>1
  <2>3. block(k).sum = (Nibble(a, k) + Nibble(b, k) + Truth(d)) % 16
    BY <1>3, <2>2, GroupAdds
  <2>4. Truth(d) = Truth(BlockCarry(a, b, c, k))
    BY <1>12, <2>1, <2>2 DEF Truth
  <2>5. Nibble(a + b + c, k) =
            (Nibble(a, k) + Nibble(b, k) + Truth(BlockCarry(a, b, c, k))) % 16
    BY <1>2, BlockAdds, ZenonT(40)
  <2>6. QED
    BY <2>3, <2>4, <2>5
<1>14. SumBelow(f, Width \div 4) = (a + b + c) % 2^Width
  <2>1. PICK T \in Int : T = a + b + c
    BY <1>2
  <2>2. PICK H : \A k \in 0 .. Width \div 4 : H[k] = T % 16^k
    <3>1. \A k \in 0 .. Width \div 4 : [j \in 0 .. Width \div 4 |-> T % 16^j][k] = T % 16^k
      OBVIOUS
    <3>2. QED
      BY <3>1
  <2>3. H[0] = 0
    <3>1. 16^0 = 1 /\ T % 1 = 0 /\ 0 \in 0 .. Width \div 4
      BY <1>2, NibbleOf
    <3>2. QED
      BY <2>2, <3>1
  <2>4. ASSUME NEW k \in 0 .. Width \div 4 - 1 PROVE H[k + 1] = H[k] + f[k]
    <3>1. k \in Blocks /\ k + 1 \in 0 .. Width \div 4 /\ k \in 0 .. Width \div 4
      BY <1>2 DEF Blocks
    <3>2. T % 16^(k + 1) = (T % 16^k) + 16^k * Nibble(T, k) /\ Nibble(T, k) \in 0 .. 15
      BY <3>1, NibbleOf
    <3>3. f[k] = Nibble(T, k) * 16^k
      BY <1>6, <1>13, <2>1, <3>1
    <3>4. 16^k \in Nat \ {0}
      BY <3>1, NibbleOf
    <3>5. 16^k * Nibble(T, k) = Nibble(T, k) * 16^k
      BY <3>2, <3>4
    <3>6. QED
      BY <2>2, <3>1, <3>2, <3>3, <3>5
  <2>5. \A k \in 0 .. n - 1 : H[k + 1] = H[k] + f[k]
    BY <1>9, <2>4
  <2>6. \A k \in 0 .. n : SumBelow(f, k) = H[k]
    BY <2>3, <2>5, SumIs
  <2>7. QED
    BY <1>2, <1>9, <2>1, <2>2, <2>6, NibbleOf
<1>15. Lookahead(generate, propagate, cin, Width \div 4) = (a + b + c >= 2^Width)
  <2>1. a % 2^Width = a /\ b % 2^Width = b /\ 16^(Width \div 4) = 2^Width
        /\ Width \div 4 \in 0 .. Width \div 4
    BY <1>2, NibbleOf
  <2>2. Lookahead(generate, propagate, cin, Width \div 4) <=> a + b + c >= 2^Width
    BY <1>12, <2>1 DEF BlockCarry
  <2>3. Lookahead(generate, propagate, cin, Width \div 4) \in BOOLEAN
    BY DEF Lookahead
  <2>4. QED
    BY <2>2, <2>3
<1>16. QED
  BY <1>1, <1>4, <1>5, <1>14, <1>15 DEF WordOf

\* Words are rows.
LEMMA WordsAreRows == /\ Word \subseteq Row /\ {0, 1} \subseteq Row
                      /\ \A x \in Word : x \in Nat /\ x < 2^Width
                      /\ Accumulator = 4 * (2^Width * 2^Width) /\ 2^Width \in Nat \ {0}
<1>1. /\ Width \in Nat /\ 2 * Width \in 0 .. 2 * Width + 2 /\ Width \in 0 .. 2 * Width + 2
      /\ 2 \in 0 .. 2 * Width + 2 /\ Width + Width = 2 * Width
      /\ 2 * Width \in Nat
  BY Powers
<1>2. 2^(2 * Width + 2) = 2^(2 * Width) * 2^2 /\ 2^2 = 4
  BY <1>1, Powers
<1>3. 2^(2 * Width) = 2^Width * 2^Width
  BY <1>1, Powers
<1>4. PICK m \in Nat \ {0}, n \in Nat \ {0} : m = 2^Width /\ n = m * m
  <2>1. 2^Width \in Nat \ {0}
    BY <1>1, Powers
  <2>2. \A m \in Nat \ {0} : m * m \in Nat \ {0}
    OBVIOUS
  <2>3. QED
    BY <2>1, <2>2
<1>5. Accumulator = 4 * n
  BY <1>2, <1>3, <1>4 DEF Accumulator
<1>6. m <= n
  BY <1>4
<1>7. QED
  BY <1>4, <1>5, <1>6 DEF Word, Row

\* Rows are numbers.
LEMMA RowsAreNumbers == \A r \in Row : r \in Int
  BY DEF Row

\* The bits of zero and one.
LEMMA SmallBits ==
    \A x \in {0, 1} : /\ BitOf(x, 0) <=> x = 1
                      /\ \A i \in 1 .. 2 * Width + 1 : ~BitOf(x, i)
<1>1. ASSUME NEW x \in {0, 1}, NEW i \in 1 .. 2 * Width + 1 PROVE ~BitOf(x, i)
  <2>1. i - 1 \in 0 .. 2 * Width + 1 /\ (i - 1) + 1 = i /\ i - 1 \in 0 .. 2 * Width + 2
    BY Powers
  <2>2. 2^i = 2 * 2^(i - 1) /\ 2^(i - 1) \in Nat \ {0}
    BY <2>1, Powers
  <2>3. PICK m \in Nat \ {0} : 2^i = m /\ m >= 2
    BY <2>2
  <2>4. x = 0 * m + x /\ x \in 0 .. m - 1 /\ x \in Int
    BY <2>3
  <2>5. x \div m = 0
    BY <2>4, DivMod
  <2>6. QED
    BY <2>3, <2>5 DEF BitOf
<1>2. ASSUME NEW x \in {0, 1} PROVE BitOf(x, 0) <=> x = 1
  BY Powers DEF BitOf
<1>3. QED
  BY <1>1, <1>2

\* The operators on single bits.
LEMMA LogicOnBits ==
    \A x, y \in {0, 1} : /\ x & y = Flag(x = 1 /\ y = 1)
                         /\ x | y = Flag(x = 1 \/ y = 1)
                         /\ x ^^ y = Flag(x # y)
<1> SUFFICES ASSUME NEW x \in {0, 1}, NEW y \in {0, 1}
             PROVE  /\ x & y = Flag(x = 1 /\ y = 1)
                    /\ x | y = Flag(x = 1 \/ y = 1)
                    /\ x ^^ y = Flag(x # y)
  OBVIOUS
<1>1. ASSUME NEW gate \in [BOOLEAN -> [BOOLEAN -> BOOLEAN]], ~gate[FALSE][FALSE],
             NEW v \in {0, 1}, (v = 1) <=> gate[x = 1][y = 1]
      PROVE  BitByBit(gate, x, y) = v
  <2> DEFINE wires == [i \in 0 .. 2 * Width + 1 |-> gate[BitOf(x, i)][BitOf(y, i)]]
  <2>1. PICK n \in 0 .. 2 * Width + 2 : n = 2 * Width + 2 /\ n - 1 = 2 * Width + 1
    BY Powers
  <2>2. BitByBit(gate, x, y) = NumberOn(wires, n)
    BY <2>1 DEF BitByBit
  <2>3. ASSUME NEW i \in 0 .. n - 1 PROVE wires[i] <=> BitOf(v, i)
    <3>1. CASE i = 0
      <4>1. (BitOf(x, 0) <=> x = 1) /\ (BitOf(y, 0) <=> y = 1) /\ (BitOf(v, 0) <=> v = 1)
        BY SmallBits
      <4>2. PICK p \in BOOLEAN, q \in BOOLEAN : p = BitOf(x, 0) /\ q = BitOf(y, 0)
        <5>1. BitOf(x, 0) \in BOOLEAN /\ BitOf(y, 0) \in BOOLEAN
          BY DEF BitOf
        <5>2. QED
          BY <5>1
      <4>3. p = (x = 1) /\ q = (y = 1)
        BY <4>1, <4>2
      <4>4. wires[0] = gate[p][q]
        BY <2>1, <3>1, <4>2
      <4>5. QED
        BY <1>1, <3>1, <4>1, <4>3, <4>4
    <3>2. CASE i # 0
      <4>1. i \in 1 .. 2 * Width + 1
        BY <2>1, <3>2
      <4>2. ~BitOf(x, i) /\ ~BitOf(y, i) /\ ~BitOf(v, i)
        BY <4>1, SmallBits
      <4>3. BitOf(x, i) = FALSE /\ BitOf(y, i) = FALSE
        BY <4>2 DEF BitOf
      <4>4. wires[i] = gate[FALSE][FALSE]
        BY <2>1, <4>3
      <4>5. QED
        BY <1>1, <4>2, <4>4
    <3>3. QED
      BY <3>1, <3>2
  <2> HIDE DEF wires
  <2>4. NumberOn(wires, n) = v % 2^n
    BY <2>3, NumberIs
  <2>5. v % 2^n = v
    <3>1. 2^n = Accumulator /\ v \in Row
      BY <2>1, WordsAreRows DEF Accumulator
    <3>2. QED
      BY <3>1, WordsAreRows DEF Row
  <2>6. QED
    BY <2>2, <2>4, <2>5
<1> DEFINE and == [a \in BOOLEAN |-> [b \in BOOLEAN |-> a /\ b]]
           or  == [a \in BOOLEAN |-> [b \in BOOLEAN |-> a \/ b]]
           xor == [a \in BOOLEAN |-> [b \in BOOLEAN |-> a # b]]
<1>2. /\ and \in [BOOLEAN -> [BOOLEAN -> BOOLEAN]] /\ or \in [BOOLEAN -> [BOOLEAN -> BOOLEAN]]
      /\ xor \in [BOOLEAN -> [BOOLEAN -> BOOLEAN]]
  OBVIOUS
<1>3. x & y = BitByBit(and, x, y) /\ x | y = BitByBit(or, x, y) /\ x ^^ y = BitByBit(xor, x, y)
  BY DEF &, |, ^^
<1>4. PICK s \in BOOLEAN, t \in BOOLEAN : s = (x = 1) /\ t = (y = 1)
  OBVIOUS
<1>5. /\ and[s][t] <=> x = 1 /\ y = 1
      /\ ~and[FALSE][FALSE] /\ ~or[FALSE][FALSE] /\ ~xor[FALSE][FALSE]
      /\ or[s][t] <=> x = 1 \/ y = 1
      /\ xor[s][t] <=> x # y
  BY <1>4
<1> HIDE DEF and, or, xor
<1>6. x & y = Flag(x = 1 /\ y = 1)
  <2>1. Flag(x = 1 /\ y = 1) \in {0, 1} /\ (Flag(x = 1 /\ y = 1) = 1 <=> and[s][t])
    BY <1>5 DEF Flag
  <2>2. QED
    BY <1>1, <1>2, <1>3, <1>4, <1>5, <2>1
<1>7. x | y = Flag(x = 1 \/ y = 1)
  <2>1. Flag(x = 1 \/ y = 1) \in {0, 1} /\ (Flag(x = 1 \/ y = 1) = 1 <=> or[s][t])
    BY <1>5 DEF Flag
  <2>2. QED
    BY <1>1, <1>2, <1>3, <1>4, <1>5, <2>1
<1>8. x ^^ y = Flag(x # y)
  <2>1. Flag(x # y) \in {0, 1} /\ (Flag(x # y) = 1 <=> xor[s][t])
    BY <1>5 DEF Flag
  <2>2. QED
    BY <1>1, <1>2, <1>3, <1>4, <1>5, <2>1
<1>9. QED
  BY <1>6, <1>7, <1>8

\* A bit as the pages compute it.
LEMMA BitIs == \A x \in Int, i \in 0 .. 2 * Width + 2 : Bit(x, i) = Flag(BitOf(x, i))
<1>1. ASSUME NEW x \in Int, NEW i \in 0 .. 2 * Width + 2 PROVE Bit(x, i) = Flag(BitOf(x, i))
  <2>1. PICK q \in Int : q = x \div 2^i
    BY BitStep
  <2>2. q % 2 \in {0, 1}
    OBVIOUS
  <2>3. QED
    BY <2>1, <2>2 DEF Bit, BitOf, Flag
<1>2. QED
  BY <1>1

\* The carries on the page.
LEMMA ShownRippleIs ==
    ASSUME NEW p, p.a \in Int, p.b \in Int, p.cin \in {0, 1}
    PROVE  \A i \in 0 .. Width : rippleCarries(p)[i] = Flag(Carry(p.a, p.b, p.cin, i))
<1> DEFINE G(i, c) == Flag(\/ Bit(p.a, i - 1) = 1 /\ Bit(p.b, i - 1) = 1
                           \/ Bit(p.a, i - 1) = 1 /\ c = 1
                           \/ Bit(p.b, i - 1) = 1 /\ c = 1)
           r == rippleCarries(p)
<1>1. Width \in Nat
  BY Powers
<1>2. PICK h : h = [i \in 0 .. Width |-> Flag(Carry(p.a, p.b, p.cin, i))]
  OBVIOUS
<1>3. h[0] = p.cin
  <2>1. Carry(p.a, p.b, p.cin, 0) <=> p.cin = 1
    BY FullAdderAdds
  <2>2. h[0] = Flag(Carry(p.a, p.b, p.cin, 0))
    BY <1>1, <1>2
  <2>3. QED
    BY <2>1, <2>2 DEF Flag
<1>4. ASSUME NEW i \in 0 .. Width - 1 PROVE h[i + 1] = G(i + 1, h[i])
  <2>1. i \in 0 .. Width /\ i + 1 \in 0 .. Width /\ (i + 1) - 1 = i
        /\ i \in 0 .. 2 * Width + 1 /\ i \in 0 .. 2 * Width + 2
    BY <1>1
  <2>2. Carry(p.a, p.b, p.cin, i + 1) <=>
            FullAdderCarry(BitOf(p.a, i), BitOf(p.b, i), Carry(p.a, p.b, p.cin, i))
    BY <2>1, FullAdderAdds
  <2>3. PICK x \in BOOLEAN, y \in BOOLEAN, z \in BOOLEAN :
            x = BitOf(p.a, i) /\ y = BitOf(p.b, i) /\ z = Carry(p.a, p.b, p.cin, i)
    <3>1. BitOf(p.a, i) \in BOOLEAN /\ BitOf(p.b, i) \in BOOLEAN
          /\ Carry(p.a, p.b, p.cin, i) \in BOOLEAN
      BY DEF BitOf, Carry
    <3>2. QED
      BY <3>1
  <2>4. FullAdderCarry(x, y, z) <=> (x /\ y) \/ (x /\ z) \/ (y /\ z)
    BY DEF FullAdderCarry
  <2>5. Bit(p.a, i) = Flag(x) /\ Bit(p.b, i) = Flag(y)
    BY <2>1, <2>3, BitIs
  <2>6. h[i] = Flag(z) /\ h[i + 1] = Flag((x /\ y) \/ (x /\ z) \/ (y /\ z))
    BY <1>2, <2>1, <2>2, <2>3, <2>4 DEF Flag
  <2>7. G(i + 1, h[i]) = Flag((x /\ y) \/ (x /\ z) \/ (y /\ z))
    BY <2>1, <2>5, <2>6 DEF Flag
  <2>8. QED
    BY <2>6, <2>7
<1>5. r = [i \in 0 .. Width |-> IF i = 0 THEN p.cin ELSE G(i, r[i - 1])]
  <2>1. h = [i \in 0 .. Width |-> IF i = 0 THEN p.cin ELSE G(i, h[i - 1])]
    <3>1. ASSUME NEW i \in 0 .. Width, i # 0 PROVE h[i] = G(i, h[i - 1])
      <4>1. PICK j \in 0 .. Width - 1 : j = i - 1 /\ j + 1 = i
        BY <1>1, <3>1
      <4>2. h[j + 1] = G(j + 1, h[j])
        BY <1>4
      <4>3. QED
        BY <4>1, <4>2
    <3> HIDE DEF G
    <3>2. \A i \in 0 .. Width : h[i] = IF i = 0 THEN p.cin ELSE G(i, h[i - 1])
      BY <1>3, <3>1
    <3>3. DOMAIN h = 0 .. Width /\ h = [i \in 0 .. Width |-> h[i]]
      BY <1>2
    <3>4. QED
      BY <3>2, <3>3
  <2>2. QED
    BY <2>1, Zenon DEF rippleCarries
<1> HIDE DEF r, G
<1> DEFINE P == {i \in 0 .. Width : r[i] = h[i]}
<1>6. 0 \in P
  BY <1>1, <1>3, <1>5
<1>7. ASSUME NEW i \in 0 .. Width - 1, i \in P PROVE i + 1 \in P
  <2>1. i + 1 \in 0 .. Width /\ i + 1 # 0 /\ (i + 1) - 1 = i
    BY <1>1
  <2>2. r[i + 1] = G(i + 1, r[i])
    BY <1>5, <2>1
  <2>3. QED
    BY <1>4, <1>7, <2>1, <2>2
<1> HIDE DEF P
<1>8. 0 .. Width \subseteq P
  BY <1>1, <1>6, <1>7, InductionUpTo
<1>9. QED
  BY <1>2, <1>8 DEF P, r

\* The nibbles of what the pages show of a block.
LEMMA GroupShown ==
    ASSUME NEW a \in Word, NEW b \in Word, NEW k \in Blocks
    PROVE  /\ Nibble(a ^^ b, k) = 15 <=> Nibble(a, k) + Nibble(b, k) = 15
           /\ GroupGenerate(Nibble(a & b, k), Nibble(a ^^ b, k)) =
                  Flag(Nibble(a, k) + Nibble(b, k) >= 16)
<1>1. /\ a \in Int /\ b \in Int /\ a \in Row /\ b \in Row
      /\ a & b \in Row /\ a ^^ b \in Row
  BY WordsAreRows, LogicHas
<1>2. \A x \in Row : x \in Int
  BY RowsAreNumbers, Zenon
<1>3. PICK c \in 0 .. 15, d \in 0 .. 15, g \in 0 .. 15, q \in 0 .. 15 :
          /\ c = Nibble(a, k) /\ d = Nibble(b, k)
          /\ g = Nibble(a & b, k) /\ q = Nibble(a ^^ b, k)
  <2>1. /\ Nibble(a, k) \in 0 .. 15 /\ Nibble(b, k) \in 0 .. 15
        /\ Nibble(a & b, k) \in 0 .. 15 /\ Nibble(a ^^ b, k) \in 0 .. 15
    BY <1>1, <1>2, NibbleOf
  <2>2. QED
    BY <2>1
<1>4. ASSUME NEW i \in 0 .. 3
      PROVE  /\ BitOf(g, i) <=> BitOf(c, i) /\ BitOf(d, i)
             /\ BitOf(q, i) <=> ~(BitOf(c, i) <=> BitOf(d, i))
  <2>1. 4 * k + i \in 0 .. 2 * Width + 1
    BY Powers DEF Blocks
  <2>2. /\ BitOf(a & b, 4 * k + i) <=> BitOf(a, 4 * k + i) /\ BitOf(b, 4 * k + i)
        /\ BitOf(a ^^ b, 4 * k + i) <=> ~(BitOf(a, 4 * k + i) <=> BitOf(b, 4 * k + i))
    BY <1>1, <2>1, LogicHas
  <2>3. \A x \in Int : BitOf(Nibble(x, k), i) <=> BitOf(x, 4 * k + i)
    BY NibbleOf
  <2>4. QED
    BY <1>1, <1>2, <1>3, <2>2, <2>3
<1>5. PICK c0 \in {0, 1}, c1 \in {0, 1}, c2 \in {0, 1}, c3 \in {0, 1} :
          /\ c = c0 + 2 * c1 + 4 * c2 + 8 * c3
          /\ BitOf(c, 0) <=> c0 = 1
          /\ BitOf(c, 1) <=> c1 = 1
          /\ BitOf(c, 2) <=> c2 = 1
          /\ BitOf(c, 3) <=> c3 = 1
  BY NibbleBits
<1>6. PICK d0 \in {0, 1}, d1 \in {0, 1}, d2 \in {0, 1}, d3 \in {0, 1} :
          /\ d = d0 + 2 * d1 + 4 * d2 + 8 * d3
          /\ BitOf(d, 0) <=> d0 = 1
          /\ BitOf(d, 1) <=> d1 = 1
          /\ BitOf(d, 2) <=> d2 = 1
          /\ BitOf(d, 3) <=> d3 = 1
  BY NibbleBits
<1>7. PICK g0 \in {0, 1}, g1 \in {0, 1}, g2 \in {0, 1}, g3 \in {0, 1} :
          /\ g = g0 + 2 * g1 + 4 * g2 + 8 * g3
          /\ BitOf(g, 0) <=> g0 = 1
          /\ BitOf(g, 1) <=> g1 = 1
          /\ BitOf(g, 2) <=> g2 = 1
          /\ BitOf(g, 3) <=> g3 = 1
  BY NibbleBits
<1>8. PICK q0 \in {0, 1}, q1 \in {0, 1}, q2 \in {0, 1}, q3 \in {0, 1} :
          /\ q = q0 + 2 * q1 + 4 * q2 + 8 * q3
          /\ BitOf(q, 0) <=> q0 = 1
          /\ BitOf(q, 1) <=> q1 = 1
          /\ BitOf(q, 2) <=> q2 = 1
          /\ BitOf(q, 3) <=> q3 = 1
  BY NibbleBits
<1>9. /\ 0 \in 0 .. 3 /\ 1 \in 0 .. 3 /\ 2 \in 0 .. 3 /\ 3 \in 0 .. 3
  OBVIOUS
<1>10. /\ g0 = 1 <=> c0 = 1 /\ d0 = 1
       /\ g1 = 1 <=> c1 = 1 /\ d1 = 1
       /\ g2 = 1 <=> c2 = 1 /\ d2 = 1
       /\ g3 = 1 <=> c3 = 1 /\ d3 = 1
       /\ q0 = 1 <=> c0 # d0
       /\ q1 = 1 <=> c1 # d1
       /\ q2 = 1 <=> c2 # d2
       /\ q3 = 1 <=> c3 # d3
  BY <1>4, <1>5, <1>6, <1>7, <1>8, <1>9
<1>11. q = 15 <=> c + d = 15
  BY <1>5, <1>6, <1>8, <1>10
<1>12. GroupGenerate(g, q) = Flag(c + d >= 16)
  <2>1. /\ Bit(g, 0) = g0 /\ Bit(g, 1) = g1 /\ Bit(g, 2) = g2 /\ Bit(g, 3) = g3
        /\ Bit(q, 0) = q0 /\ Bit(q, 1) = q1 /\ Bit(q, 2) = q2 /\ Bit(q, 3) = q3
    <3>1. \A i \in 0 .. 3 : Bit(g, i) = Flag(BitOf(g, i)) /\ Bit(q, i) = Flag(BitOf(q, i))
      BY BitIs, Powers
    <3>2. QED
      BY <1>7, <1>8, <1>9, <3>1 DEF Flag
  <2>2. PICK x2 \in {0, 1}, y1 \in {0, 1}, y2 \in {0, 1}, z1 \in {0, 1}, z2 \in {0, 1} :
            /\ x2 = Flag(q3 = 1 /\ g2 = 1) /\ y1 = Flag(q3 = 1 /\ q2 = 1)
            /\ y2 = Flag(y1 = 1 /\ g1 = 1)
            /\ z1 = Flag(y1 = 1 /\ q1 = 1) /\ z2 = Flag(z1 = 1 /\ g0 = 1)
    BY DEF Flag
  <2>3. q3 & g2 = x2 /\ q3 & q2 = y1 /\ y1 & g1 = y2 /\ y1 & q1 = z1 /\ z1 & g0 = z2
    BY <2>2, LogicOnBits
  <2>4. PICK s \in {0, 1}, t \in {0, 1}, u \in {0, 1} :
            s = Flag(g3 = 1 \/ x2 = 1) /\ t = Flag(s = 1 \/ y2 = 1) /\ u = Flag(t = 1 \/ z2 = 1)
    BY DEF Flag
  <2>5. (g3 | x2) = s /\ (s | y2) = t /\ (t | z2) = u
    BY <2>4, LogicOnBits
  <2>6. GroupGenerate(g, q) = u
    BY <2>1, <2>3, <2>5 DEF GroupGenerate
  <2>7. u = 1 <=> c + d >= 16
    <3>1. u = 1 <=> \/ g3 = 1
                    \/ q3 = 1 /\ g2 = 1
                    \/ q3 = 1 /\ q2 = 1 /\ g1 = 1
                    \/ q3 = 1 /\ q2 = 1 /\ q1 = 1 /\ g0 = 1
      BY <2>2, <2>4 DEF Flag
    <3>2. QED
      BY <1>5, <1>6, <1>10, <3>1
  <2>8. QED
    BY <2>6, <2>7 DEF Flag
<1>13. QED
  BY <1>3, <1>11, <1>12

\* The adder lab shows what both adders compute, and its carry chain what passes from the
\* lowest bit of a group to the next.
LEMMA AddersShown ==
    ASSUME NEW p, p.a \in Word, p.b \in Word, p.cin \in {0, 1}
    PROVE  AddersMatch(p)
<1>1. PICK cin \in BOOLEAN : cin = (p.cin = 1) /\ Truth(cin) = p.cin
  BY DEF Truth
<1>2. PICK ripple, hcla : /\ ripple = RippleCarryAdder(p.a, p.b, cin)
                          /\ hcla = HierarchicalCarryLookaheadAdder(p.a, p.b, cin)
  OBVIOUS
<1>3. p.a \in Int /\ p.b \in Int
  BY WordsAreRows
<1>4. /\ ripple.sum = WordOf(p.a + p.b + p.cin)
      /\ ripple.carryOut = (p.a + p.b + p.cin >= 2^Width)
  <2>1. /\ ripple.sum = WordOf(p.a + p.b + Truth(cin))
        /\ ripple.carryOut = (p.a + p.b + Truth(cin) >= 2^Width)
    BY <1>2, RippleAdds
  <2>2. QED
    BY <1>1, <2>1
<1>5. /\ hcla.sum = WordOf(p.a + p.b + p.cin)
      /\ hcla.carryOut = (p.a + p.b + p.cin >= 2^Width)
      /\ \A k \in Blocks :
            /\ hcla.groupGenerate[k] <=> Nibble(p.a, k) + Nibble(p.b, k) >= 16
            /\ hcla.groupPropagate[k] <=> Nibble(p.a, k) + Nibble(p.b, k) = 15
  <2>1. LET adder == HierarchicalCarryLookaheadAdder(p.a, p.b, cin)
        IN  /\ adder.sum = WordOf(p.a + p.b + Truth(cin))
            /\ adder.carryOut = (p.a + p.b + Truth(cin) >= 2^Width)
            /\ \A k \in Blocks :
                  /\ adder.groupGenerate[k] <=> Nibble(p.a, k) + Nibble(p.b, k) >= 16
                  /\ adder.groupPropagate[k] <=> Nibble(p.a, k) + Nibble(p.b, k) = 15
    BY HierarchicalAdds
  <2>2. QED
    BY <1>1, <1>2, <2>1
<1>6. /\ ArchitectureSum(p).sum = WordOf(p.a + p.b + p.cin)
      /\ ArchitectureSum(p).cout = (p.a + p.b + p.cin >= 2^Width)
  BY DEF ArchitectureSum
<1>7. ASSUME NEW k \in Blocks
      PROVE  ChainCarry(p, k) = Flag(RippleCarries(p.a, p.b, cin)[4 * k + 1])
  <2>1. PICK i \in 0 .. Width : i = 4 * k + 1
    BY Powers DEF Blocks
  <2>2. RippleCarries(p.a, p.b, cin)[i] = Carry(p.a, p.b, p.cin, i)
    <3>1. RippleCarries(p.a, p.b, cin)[i] = Carry(p.a, p.b, Truth(cin), i)
      BY <1>3, RippleIs
    <3>2. QED
      BY <1>1, <3>1
  <2>3. rippleCarries(p)[i] = Flag(Carry(p.a, p.b, p.cin, i))
    BY <1>3, ShownRippleIs
  <2>4. QED
    BY <2>1, <2>2, <2>3 DEF ChainCarry
<1>8. ASSUME NEW k \in Blocks
      PROVE  /\ blocks(p)[k].pG = Flag(hcla.groupPropagate[k])
             /\ blocks(p)[k].gG = Flag(hcla.groupGenerate[k])
             /\ blocks(p)[k].sumNibble = Nibble(hcla.sum, k)
  <2>1. /\ blocks(p)[k].pG = Flag(Nibble(p.a ^^ p.b, k) = 15)
        /\ blocks(p)[k].gG = GroupGenerate(Nibble(p.a & p.b, k), Nibble(p.a ^^ p.b, k))
        /\ blocks(p)[k].sumNibble = Nibble(ArchitectureSum(p).sum, k)
    BY DEF blocks
  <2>2. /\ Nibble(p.a ^^ p.b, k) = 15 <=> Nibble(p.a, k) + Nibble(p.b, k) = 15
        /\ GroupGenerate(Nibble(p.a & p.b, k), Nibble(p.a ^^ p.b, k)) =
               Flag(Nibble(p.a, k) + Nibble(p.b, k) >= 16)
    BY GroupShown
  <2>3. /\ hcla.groupGenerate[k] <=> Nibble(p.a, k) + Nibble(p.b, k) >= 16
        /\ hcla.groupPropagate[k] <=> Nibble(p.a, k) + Nibble(p.b, k) = 15
    BY <1>5
  <2>4. QED
    BY <1>5, <1>6, <2>1, <2>2, <2>3 DEF Flag
<1>9. ripple = RippleCarryAdder(p.a, p.b, p.cin = 1)
      /\ hcla = HierarchicalCarryLookaheadAdder(p.a, p.b, p.cin = 1)
      /\ RippleCarries(p.a, p.b, cin) = RippleCarries(p.a, p.b, p.cin = 1)
  BY <1>1, <1>2
<1>10. QED
  BY <1>4, <1>5, <1>6, <1>7, <1>8, <1>9 DEF AddersMatch

\* The adders lab with the same word in both fields and no carry in.
AddersWith(x) == [AddersLab EXCEPT !.a = x, !.b = x]

\* The carry chain of the page is labelled C4, C8, ...: every one of these labels is wrong for
\* some operands.  Where both have only the lowest bit of the group set, it shows 1 and the
\* adder's carry into the position named is 0.
THEOREM ChainMislabelled ==
    \A k \in Blocks : \E x \in Word :
        ChainCarry(AddersWith(x), k) = 1 /\ ~RippleCarries(x, x, FALSE)[ChainLabel(k)]
<1> SUFFICES ASSUME NEW k \in Blocks
             PROVE  \E x \in Word : /\ ChainCarry(AddersWith(x), k) = 1
                                    /\ ~RippleCarries(x, x, FALSE)[ChainLabel(k)]
  OBVIOUS
<1>1. PICK j \in Nat : /\ j = 4 * k /\ j + 1 \in 0 .. Width /\ j + 4 \in 0 .. Width
                       /\ {j, j + 1, j + 4} \subseteq 0 .. 2 * Width + 1
  BY Powers DEF Blocks
<1>2. PICK x \in Nat \ {0} : x = 2^j
  BY <1>1, Powers
<1>3. 2^(j + 1) = 2 * x /\ 2^(j + 4) = 16 * x
  <2>1. 2^(j + 1) = 2 * 2^j
    BY <1>1, Powers
  <2>2. /\ j \in 0 .. 2 * Width + 2 /\ 4 \in 0 .. 2 * Width + 2 /\ j + 4 <= 2 * Width + 2
    BY <1>1, Powers
  <2>3. 2^(j + 4) = 2^j * 2^4 /\ 2^4 = 16
    BY <2>2, Powers
  <2>4. QED
    BY <1>2, <2>1, <2>3
<1>4. x \in Word
  <2>1. PICK rest \in Nat : Width = (j + 4) + rest
    <3>1. Width - (j + 4) \in Nat /\ Width = (j + 4) + (Width - (j + 4))
      BY <1>1, Powers
    <3>2. QED
      BY <3>1
  <2>2. /\ j + 4 \in 0 .. 2 * Width + 2 /\ rest \in 0 .. 2 * Width + 2
        /\ (j + 4) + rest <= 2 * Width + 2
    BY <1>1, <2>1, Powers
  <2>3. PICK m \in Nat \ {0} : 2^Width = (16 * x) * m
    <3>1. 2^((j + 4) + rest) = 2^(j + 4) * 2^rest /\ 2^rest \in Nat \ {0}
      BY <2>2, Powers
    <3>2. QED
      BY <1>3, <2>1, <3>1
  <2>4. (16 * x) * m >= 16 * x
    BY <1>2, <2>3
  <2>5. QED
    BY <1>2, <2>3, <2>4 DEF Word
<1>5. x % (2 * x) = x /\ x % (16 * x) = x
  <2>1. \A n \in Nat \ {0} : x < n => x % n = x
    <3>1. \A n \in Nat \ {0} : x < n => x = 0 * n + x /\ x \in 0 .. n - 1
      BY <1>2
    <3>2. QED
      BY <1>2, <3>1, DivMod
  <2>2. /\ 2 * x \in Nat \ {0} /\ x < 2 * x
        /\ 16 * x \in Nat \ {0} /\ x < 16 * x
    BY <1>2
  <2>3. QED
    BY <2>1, <2>2
<1>6. Carry(x, x, 0, j + 1) /\ ~Carry(x, x, 0, j + 4)
  BY <1>2, <1>3, <1>5 DEF Carry
<1>7. PICK p : p = AddersWith(x) /\ p.a = x /\ p.b = x /\ p.cin = 0
  <2>1. AddersWith(x).a = x /\ AddersWith(x).b = x /\ AddersWith(x).cin = 0
    BY DEF AddersWith, AddersLab
  <2>2. QED
    BY <2>1
<1>8. ChainCarry(p, k) = 1
  <2>1. rippleCarries(p)[j + 1] = Flag(Carry(p.a, p.b, p.cin, j + 1))
    <3>1. p.a \in Int /\ p.b \in Int /\ p.cin \in {0, 1}
      BY <1>2, <1>7
    <3>2. QED
      BY <1>1, <3>1, ShownRippleIs
  <2>2. QED
    BY <1>1, <1>6, <1>7, <2>1 DEF ChainCarry, Flag
<1>9. ~RippleCarries(x, x, FALSE)[ChainLabel(k)]
  <2>1. RippleCarries(x, x, FALSE)[j + 4] = Carry(x, x, Truth(FALSE), j + 4)
    <3>1. x \in Int /\ FALSE \in BOOLEAN
      BY <1>2
    <3>2. QED
      BY <1>1, <3>1, RippleIs
  <2>2. QED
    BY <1>1, <1>6, <2>1 DEF ChainLabel, Truth
<1>10. QED
  BY <1>4, <1>7, <1>8, <1>9

-----------------------------------------------------------------------------
(* Multipliers.                                                            *)

\* Numbers with the same remainder.
Same(m, x, y) == x % m = y % m

\* Their sums have the same remainder, and what differs by a multiple has.
LEMMA SameSum ==
    ASSUME NEW m \in Nat \ {0}
    PROVE  /\ \A x, y, u, v \in Int : Same(m, x, u) /\ Same(m, y, v) => Same(m, x + y, u + v)
           /\ \A x, k \in Int : Same(m, x + k * m, x)
<1>1. ASSUME NEW x \in Int, NEW y \in Int, NEW u \in Int, NEW v \in Int,
             Same(m, x, u), Same(m, y, v)
      PROVE  Same(m, x + y, u + v)
  <2>1. PICK j \in Int : x = u + j * m
    BY <1>1, Congruent DEF Same
  <2>2. PICK k \in Int : y = v + k * m
    BY <1>1, Congruent DEF Same
  <2>3. x + y = (u + v) + (j + k) * m
    BY <2>1, <2>2
  <2>4. PICK a \in Int, b \in Int, l \in Int : a = x + y /\ b = u + v /\ l = j + k
    OBVIOUS
  <2>5. a = b + l * m
    BY <2>3, <2>4
  <2>6. (b + l * m) % m = b % m
    BY ModPlus
  <2>7. QED
    BY <2>4, <2>5, <2>6 DEF Same
<1>2. ASSUME NEW x \in Int, NEW k \in Int PROVE Same(m, x + k * m, x)
  BY ModPlus DEF Same
<1>3. QED
  BY <1>1, <1>2

\* Sums of equal remainders have equal remainders.
LEMMA SumCongruent ==
    ASSUME NEW m \in Nat \ {0}, NEW n \in Nat, NEW f, NEW g,
           \A k \in 0 .. n - 1 : f[k] \in Int /\ g[k] \in Int /\ f[k] % m = g[k] % m
    PROVE  /\ SumBelow(f, n) \in Int /\ SumBelow(g, n) \in Int
           /\ SumBelow(f, n) % m = SumBelow(g, n) % m
<1> DEFINE P == {k \in 0 .. n : /\ SumBelow(f, k) \in Int /\ SumBelow(g, k) \in Int
                                /\ SumBelow(f, k) % m = SumBelow(g, k) % m}
<1>1. 0 \in P
  <2>1. SumBelow(f, 0) = 0 /\ SumBelow(g, 0) = 0
    BY SumStep
  <2>2. QED
    BY <2>1
<1>2. ASSUME NEW k \in 0 .. n - 1, k \in P PROVE k + 1 \in P
  <2>1. PICK x \in Int, y \in Int : x = SumBelow(f, k) /\ y = SumBelow(g, k) /\ x % m = y % m
    BY <1>2
  <2>2. PICK u \in Int, v \in Int : u = f[k] /\ v = g[k] /\ u % m = v % m
    OBVIOUS
  <2>3. SumBelow(f, k + 1) = x + u /\ SumBelow(g, k + 1) = y + v
    BY <2>1, <2>2, SumStep
  <2>4. Same(m, x, y) /\ Same(m, u, v)
    BY <2>1, <2>2 DEF Same
  <2>5. (x + u) % m = (y + v) % m
    <3>1. Same(m, x + u, y + v)
      BY <2>4, SameSum
    <3>2. QED
      BY <3>1 DEF Same
  <2>6. QED
    BY <2>3, <2>5
<1> HIDE DEF P
<1>3. 0 .. n \subseteq P
  BY <1>1, <1>2, InductionUpTo
<1>4. QED
  BY <1>3 DEF P

\* What a group's code stands for.
LEMMA BoothDigit ==
    ASSUME NEW y \in Int
    PROVE  /\ Factor(y % 8) = ((y \div 2) % 4) + (y % 2) - 4 * ((y \div 4) % 2)
           /\ Factor(y % 8) \in -2 .. 2
           /\ \A a \in Int : BoothMultiple(y % 8, a) = Factor(y % 8) * a
<1>1. PICK c \in 0 .. 7 : c = y % 8
  OBVIOUS
<1>2. (y \div 2) % 4 = c \div 2 /\ y % 2 = c % 2 /\ (y \div 4) % 2 = c \div 4
  BY <1>1
<1>3. Factor(c) = (c \div 2) + (c % 2) - 4 * (c \div 4) /\ Factor(c) \in -2 .. 2
  <2>1. c \in {0, 1, 2, 3, 4, 5, 6, 7}
    OBVIOUS
  <2>2. QED
    BY <2>1 DEF Factor
<1>4. ASSUME NEW a \in Int PROVE BoothMultiple(c, a) = Factor(c) * a
  <2>1. c \in {0, 1, 2, 3, 4, 5, 6, 7}
    OBVIOUS
  <2>2. QED
    BY <2>1 DEF Factor, BoothMultiple
<1>5. QED
  BY <1>1, <1>2, <1>3, <1>4

\* Powers of four.
LEMMA Fours ==
    /\ 4^0 = 1 /\ 4^(Width \div 2) = 2^Width /\ 4^Width = 2^Width * 2^Width
    /\ Accumulator = 4^Width * 4
    /\ \A k \in 0 .. Width : 4^k \in Nat \ {0} /\ 4^k = 2^(2 * k)
    /\ \A k \in 0 .. Width - 1 : 4^(k + 1) = 4^k * 4
<1>1. /\ Width \in Nat /\ Width \div 2 \in Nat /\ Width = 2 * (Width \div 2)
      /\ 2^0 = 1 /\ 2^2 = 4
  BY Powers
<1>2. \A k \in 0 .. Width : 4^k = 2^(2 * k) /\ 2 * k \in 0 .. 2 * Width + 2
  BY <1>1, PowersAssumption
<1>3. \A k \in 0 .. Width : 4^k \in Nat \ {0} /\ 4^k = 2^(2 * k)
  BY <1>2, Powers
<1>4. 4^0 = 1
  <2>1. 4^0 = 2^(2 * 0) /\ 2 * 0 = 0
    BY <1>1, <1>2
  <2>2. QED
    BY <1>1, <2>1
<1>5. 4^(Width \div 2) = 2^Width
  <2>1. Width \div 2 \in 0 .. Width
    BY <1>1
  <2>2. QED
    BY <1>1, <1>2, <2>1
<1>6. ASSUME NEW k \in 0 .. Width - 1 PROVE 4^(k + 1) = 4^k * 4
  <2>1. k \in 0 .. Width /\ k + 1 \in 0 .. Width /\ 2 * (k + 1) = 2 * k + 2
        /\ 2 * k \in 0 .. 2 * Width + 2 /\ 2 \in 0 .. 2 * Width + 2
        /\ 2 * k + 2 <= 2 * Width + 2
    BY <1>1
  <2>2. 2^(2 * k + 2) = 2^(2 * k) * 2^2
    BY <2>1, Powers
  <2>3. QED
    BY <1>1, <1>2, <2>1, <2>2
<1>7. 4^Width = 2^Width * 2^Width
  <2>1. Width \in 0 .. Width /\ Width \in 0 .. 2 * Width + 2 /\ Width + Width = 2 * Width
        /\ Width + Width <= 2 * Width + 2
    BY <1>1
  <2>2. 2^(Width + Width) = 2^Width * 2^Width
    BY <2>1, Powers
  <2>3. QED
    BY <1>2, <2>1, <2>2
<1>8. Accumulator = 4^Width * 4
  <2>1. PICK n \in Nat : n = 4^Width
    BY <1>1, <1>3
  <2>2. Accumulator = 4 * n
    BY <1>7, <2>1, WordsAreRows
  <2>3. QED
    BY <2>1, <2>2
<1>9. QED
  BY <1>3, <1>4, <1>5, <1>6, <1>7, <1>8

\* The recoding of a number: what the groups below k stand for.
LEMMA BoothRecodes ==
    ASSUME NEW b \in Int, NEW f,
           \A g \in Groups : f[g] = Factor(BoothCode(b, g)) * 4^g
    PROVE  \A k \in 0 .. Width \div 2 :
               SumBelow(f, k) = (b % 4^k) - (((2 * b) \div 4^k) % 2) * 4^k
<1>1. PICK n \in Nat : n = Width \div 2 /\ n <= Width - 1
  BY Powers
<1>2. PICK h : \A k \in 0 .. n : h[k] = (b % 4^k) - (((2 * b) \div 4^k) % 2) * 4^k
  <2>1. \A k \in 0 .. n : [j \in 0 .. n |-> (b % 4^j) - (((2 * b) \div 4^j) % 2) * 4^j][k]
                              = (b % 4^k) - (((2 * b) \div 4^k) % 2) * 4^k
    OBVIOUS
  <2>2. QED
    BY <2>1
<1>3. h[0] = 0
  <2>1. 4^0 = 1 /\ b % 1 = 0 /\ ((2 * b) \div 1) % 2 = 0 /\ 0 \in 0 .. n
    BY Fours
  <2>2. h[0] = (b % 4^0) - (((2 * b) \div 4^0) % 2) * 4^0
    BY <1>2, <2>1
  <2>3. h[0] = (b % 1) - (((2 * b) \div 1) % 2) * 1
    BY <2>1, <2>2
  <2>4. QED
    BY <2>1, <2>3
<1>4. ASSUME NEW k \in 0 .. n - 1 PROVE h[k + 1] = h[k] + f[k]
  <2>1. k \in Groups /\ k \in 0 .. Width - 1 /\ k \in 0 .. Width /\ k \in 0 .. n /\ k + 1 \in 0 .. n
    BY <1>1, Powers DEF Groups
  <2>2. PICK M \in Nat \ {0} : M = 4^k /\ 4^(k + 1) = M * 4
    BY <2>1, Fours
  <2>3. PICK y \in Int, q \in Int, r \in Int : y = (2 * b) \div M /\ q = b \div M /\ r = b % M
    BY DivModOf
  <2>4. b % (M * 4) = r + M * (q % 4)
    BY <2>3, DivDiv, 4 \in Nat \ {0}
  <2>5. (2 * b) \div (M * 4) = y \div 4
    <3>1. PICK c \in Int : c = 2 * b
      OBVIOUS
    <3>2. c \div (M * 4) = (c \div M) \div 4
      BY DivDiv, 4 \in Nat \ {0}
    <3>3. QED
      BY <2>3, <3>1, <3>2
  <2>6. y \div 2 = q
    <3>1. PICK c \in Int : c = 2 * b
      OBVIOUS
    <3>2. c \div (M * 2) = (c \div M) \div 2 /\ c \div (2 * M) = (c \div 2) \div M
      BY DivDiv, 2 \in Nat \ {0}
    <3>3. c \div 2 = b /\ M * 2 = 2 * M
      BY <3>1
    <3>4. QED
      BY <2>3, <3>1, <3>2, <3>3
  <2>7. PICK d \in Int, s \in Int, t \in Int, u \in Int :
            /\ d = Factor(y % 8) /\ s = q % 4 /\ t = y % 2 /\ u = (y \div 4) % 2
            /\ d = s + t - 4 * u
    <3>1. Factor(y % 8) = ((y \div 2) % 4) + (y % 2) - 4 * ((y \div 4) % 2)
      BY BoothDigit
    <3>2. (y \div 2) % 4 \in Int /\ y % 2 \in Int /\ (y \div 4) % 2 \in Int
      OBVIOUS
    <3>3. QED
      BY <2>6, <3>1, <3>2
  <2>8. f[k] = d * M
    BY <2>1, <2>2, <2>3, <2>7 DEF BoothCode
  <2>9. h[k] = r - t * M
    BY <1>2, <2>1, <2>2, <2>3, <2>7
  <2>10. h[k + 1] = (r + M * s) - u * (M * 4)
    BY <1>2, <2>1, <2>2, <2>3, <2>4, <2>5, <2>7
  <2>11. (r + M * s) - u * (M * 4) = (r - t * M) + (s + t - 4 * u) * M
    OBVIOUS
  <2>12. QED
    BY <2>7, <2>8, <2>9, <2>10, <2>11
<1>5. \A k \in 0 .. n : SumBelow(f, k) = h[k]
  BY <1>3, <1>4, SumIs
<1>6. QED
  BY <1>1, <1>2, <1>5

\* A word as a number with a sign.
LEMMA SignedIs ==
    ASSUME NEW b \in Word
    PROVE  /\ SignedOf(b) \in Int /\ SignedOf(b) % 2^Width = b
           /\ (b % 2^Width) - (((2 * b) \div 2^Width) % 2) * 2^Width = SignedOf(b)
<1>1. PICK H \in Nat \ {0} : H = 2^(Width - 1) /\ 2^Width = 2 * H
  <2>1. Width - 1 \in 0 .. 2 * Width + 1 /\ Width - 1 \in 0 .. 2 * Width + 2
        /\ (Width - 1) + 1 = Width
    BY Powers
  <2>2. 2^Width = 2 * 2^(Width - 1) /\ 2^(Width - 1) \in Nat \ {0}
    BY <2>1, Powers
  <2>3. QED
    BY <2>2
<1>2. b \in Nat /\ b < 2 * H
  BY <1>1 DEF Word
<1>3. b % (2 * H) = b
  BY <1>2
<1>4. (b - 2 * H) % (2 * H) = b
  <2>1. b - 2 * H = (-1) * (2 * H) + b /\ b \in 0 .. 2 * H - 1 /\ 2 * H \in Nat \ {0}
        /\ b - 2 * H \in Int
    BY <1>2
  <2>2. QED
    BY <2>1, DivMod
<1>5. (2 * b) \div (2 * H) = IF b < H THEN 0 ELSE 1
  <2>1. CASE b < H
    <3>1. 2 * b = 0 * (2 * H) + 2 * b /\ 2 * b \in 0 .. 2 * H - 1 /\ 2 * H \in Nat \ {0}
          /\ 2 * b \in Int
      BY <1>2, <2>1
    <3>2. QED
      BY <2>1, <3>1, DivMod
  <2>2. CASE b >= H
    <3>1. 2 * b = 1 * (2 * H) + (2 * b - 2 * H) /\ 2 * b - 2 * H \in 0 .. 2 * H - 1
          /\ 2 * H \in Nat \ {0} /\ 2 * b \in Int
      BY <1>2, <2>2
    <3>2. QED
      BY <1>2, <2>2, <3>1, DivMod
  <2>3. QED
    BY <1>2, <2>1, <2>2
<1>6. SignedOf(b) = IF b < H THEN b ELSE b - 2 * H
  BY <1>1 DEF SignedOf
<1>7. CASE b < H
  <2>1. SignedOf(b) = b
    BY <1>6, <1>7
  <2>2. (b % (2 * H)) - (((2 * b) \div (2 * H)) % 2) * (2 * H) = b
    BY <1>2, <1>3, <1>5, <1>7
  <2>3. QED
    BY <1>1, <1>2, <1>3, <2>1, <2>2
<1>8. CASE b >= H
  <2>1. SignedOf(b) = b - 2 * H
    BY <1>2, <1>6, <1>8
  <2>2. (b % (2 * H)) - (((2 * b) \div (2 * H)) % 2) * (2 * H) = b - 2 * H
    BY <1>2, <1>3, <1>5, <1>8
  <2>3. QED
    BY <1>1, <1>2, <1>4, <2>1, <2>2
<1>9. QED
  BY <1>2, <1>7, <1>8

\* The rows are multiples at their places, and add up to the product.
LEMMA RowsAddUp ==
    ASSUME NEW a \in Word, NEW b \in Word
    PROVE  /\ \A g \in Groups : /\ BoothRows(a, b)[g] \in Row
                                /\ BoothRows(a, b)[g]
                                       = (Factor(BoothCode(b, g)) * SignedOf(a) * 4^g)
                                                            % Accumulator
           /\ SumBelow(BoothRows(a, b), Width \div 2) \in Int
           /\ SumBelow(BoothRows(a, b), Width \div 2) % Accumulator
                  = (SignedOf(a) * SignedOf(b)) % Accumulator
<1>1. PICK n \in Nat : n = Width \div 2 /\ n <= Width /\ Groups = 0 .. n - 1
  BY Powers DEF Groups
<1>2. PICK A \in Nat \ {0} : A = Accumulator
  <2>1. 4^Width \in Nat \ {0} /\ Accumulator = 4^Width * 4
    BY Fours, Powers
  <2>2. QED
    BY <2>1
<1>3. PICK x \in Int, y \in Int : x = SignedOf(a) /\ y = SignedOf(b) /\ b \in Int
  BY SignedIs, WordsAreRows
<1>4. PICK f : \A g \in Groups : f[g] = Factor(BoothCode(b, g)) * 4^g
  <2>1. \A g \in Groups : [i \in Groups |-> Factor(BoothCode(b, i)) * 4^i][g]
                              = Factor(BoothCode(b, g)) * 4^g
    OBVIOUS
  <2>2. QED
    BY <2>1
<1>5. SumBelow(f, n) = y
  <2>1. \A k \in 0 .. Width \div 2 :
            SumBelow(f, k) = (b % 4^k) - (((2 * b) \div 4^k) % 2) * 4^k
    BY <1>3, <1>4, BoothRecodes
  <2>2. n \in 0 .. Width \div 2 /\ 4^n = 2^Width
    BY <1>1, Fours
  <2>3. QED
    BY <1>3, <2>1, <2>2, SignedIs
<1>6. PICK p : \A g \in Groups : p[g] = x * f[g]
  <2>1. \A g \in Groups : [i \in Groups |-> x * f[i]][g] = x * f[g]
    OBVIOUS
  <2>2. QED
    BY <2>1
<1>7. ASSUME NEW g \in Groups
      PROVE  /\ f[g] \in Int /\ p[g] \in Int
             /\ BoothRows(a, b)[g] = p[g] % A
             /\ BoothRows(a, b)[g] = (Factor(BoothCode(b, g)) * x * 4^g) % A
  <2>1. PICK M \in Nat \ {0} : M = 4^g
    <3>1. g \in 0 .. Width
      BY <1>1, Powers
    <3>2. QED
      BY <3>1, Fours
  <2>2. PICK w \in Int : w = (2 * b) \div M
    <3>1. PICK c \in Int : c = 2 * b
      BY <1>3
    <3>2. QED
      BY <3>1, DivModOf
  <2>3. PICK d \in Int : d = Factor(w % 8)
    <3>1. Factor(w % 8) \in -2 .. 2
      BY BoothDigit
    <3>2. QED
      BY <3>1
  <2>4. BoothMultiple(w % 8, x) = d * x
    BY <2>3, BoothDigit
  <2>5. BoothCode(b, g) = w % 8
    BY <2>1, <2>2 DEF BoothCode
  <2>6. f[g] = d * M /\ p[g] = x * (d * M)
    BY <1>4, <1>6, <2>1, <2>3, <2>5
  <2>7. BoothRows(a, b)[g] = (d * x * M) % A
    BY <1>2, <1>3, <2>1, <2>4, <2>5 DEF BoothRows
  <2>8. d * x * M = x * (d * M)
    OBVIOUS
  <2>9. QED
    BY <2>1, <2>3, <2>5, <2>6, <2>7, <2>8
<1>8. SumBelow(p, n) = x * y
  <2>1. PICK h : \A k \in 0 .. n : h[k] = x * SumBelow(f, k)
    <3>1. \A k \in 0 .. n : [i \in 0 .. n |-> x * SumBelow(f, i)][k] = x * SumBelow(f, k)
      OBVIOUS
    <3>2. QED
      BY <3>1
  <2>2. \A k \in 0 .. n : SumBelow(f, k) \in Int
    <3>1. \A k \in 0 .. n : SumBelow(f, k) \in Int /\ SumBelow(f, k) % 1 = SumBelow(f, k) % 1
      <4>1. ASSUME NEW k \in 0 .. n PROVE SumBelow(f, k) \in Int
        <5>1. k \in Nat /\ 1 \in Nat \ {0} /\ \A i \in 0 .. k - 1 : f[i] \in Int
          BY <1>1, <1>7
        <5>2. QED
          BY <5>1, SumCongruent
      <4>2. QED
        BY <4>1
    <3>2. QED
      BY <3>1
  <2>3. h[0] = 0
    <3>1. SumBelow(f, 0) = 0 /\ 0 \in 0 .. n
      BY SumStep
    <3>2. QED
      BY <2>1, <3>1
  <2>4. ASSUME NEW k \in 0 .. n - 1 PROVE h[k + 1] = h[k] + p[k]
    <3>1. k \in Groups /\ k \in Nat /\ k \in 0 .. n /\ k + 1 \in 0 .. n
      BY <1>1
    <3>2. PICK s \in Int, e \in Int : s = SumBelow(f, k) /\ e = f[k]
      BY <1>7, <2>2, <3>1
    <3>3. SumBelow(f, k + 1) = s + e
      BY <3>1, <3>2, SumStep
    <3>4. x * (s + e) = x * s + x * e
      OBVIOUS
    <3>5. QED
      BY <1>6, <2>1, <3>1, <3>2, <3>3, <3>4
  <2>5. \A k \in 0 .. n : SumBelow(p, k) = h[k]
    BY <2>3, <2>4, SumIs
  <2>6. QED
    BY <1>5, <2>1, <2>5
<1>9. PICK R : R = BoothRows(a, b)
  OBVIOUS
<1>10. ASSUME NEW g \in 0 .. n - 1
       PROVE  R[g] \in Int /\ p[g] \in Int /\ R[g] % A = p[g] % A /\ R[g] \in 0 .. A - 1
  <2>1. PICK z \in Int : z = p[g] /\ R[g] = z % A
    BY <1>1, <1>7, <1>9
  <2>2. z % A \in 0 .. A - 1 /\ (z % A) % A = z % A
    OBVIOUS
  <2>3. QED
    BY <2>1, <2>2
<1>11. SumBelow(R, n) \in Int /\ SumBelow(R, n) % A = SumBelow(p, n) % A
  BY <1>10, SumCongruent
<1>12. QED
  BY <1>1, <1>2, <1>3, <1>7, <1>8, <1>9, <1>10, <1>11 DEF Row

\* Booth's multiplier multiplies.
LEMMA BoothMultiplies ==
    ASSUME NEW a \in Word, NEW b \in Word
    PROVE  /\ BoothMultiplier(a, b) = (SignedOf(a) * SignedOf(b)) % 4^Width
           /\ WordOf(BoothMultiplier(a, b)) = WordOf(SignedOf(a) * SignedOf(b))
<1>1. PICK S \in Int, x \in Int : S = SumBelow(BoothRows(a, b), Width \div 2)
                                  /\ x = SignedOf(a) * SignedOf(b)
  <2>1. SignedOf(a) \in Int /\ SignedOf(b) \in Int
    BY SignedIs
  <2>2. QED
    BY <2>1, RowsAddUp
<1>2. PICK m \in Nat \ {0}, w \in Nat \ {0} :
          m = 4^Width /\ Accumulator = m * 4 /\ w = 2^Width /\ m = w * w
  BY Fours, Powers, WordsAreRows
<1>3. S % (m * 4) = x % (m * 4)
  BY <1>1, <1>2, RowsAddUp
<1>4. S % m = x % m
  <2>1. (S % (m * 4)) % m = S % m /\ (x % (m * 4)) % m = x % m
    BY ModMod, 4 \in Nat \ {0}
  <2>2. QED
    BY <1>3, <2>1
<1>5. (x % (w * w)) % w = x % w
  BY ModMod
<1>6. QED
  BY <1>1, <1>2, <1>4, <1>5 DEF BoothMultiplier, WordOf

\* Two rows with the weight of three: a sum without carries, and the carries.
LEMMA CompressorAdds ==
    ASSUME NEW x \in Row, NEW y \in Row, NEW z \in Row
    PROVE  /\ CarrySaveCompressor(x, y, z)[1] \in Row /\ CarrySaveCompressor(x, y, z)[2] \in Row
           /\ Same(Accumulator,
                   CarrySaveCompressor(x, y, z)[1] + CarrySaveCompressor(x, y, z)[2], x + y + z)
<1>1. PICK n \in Nat : n = 2 * Width + 2 /\ n - 1 = 2 * Width + 1 /\ n \in 0 .. 2 * Width + 2
  BY Powers
<1>2. PICK A \in Nat \ {0} : A = Accumulator /\ A = 2^n /\ Row = 0 .. A - 1
  <2>1. 2^n \in Nat \ {0}
    BY <1>1, Powers
  <2>2. QED
    BY <1>1, <2>1 DEF Accumulator, Row
<1>3. /\ x ^^ y \in Row /\ (x ^^ y) ^^ z \in Row /\ x & y \in Row /\ x & z \in Row
      /\ y & z \in Row /\ (x & y) | (x & z) \in Row
      /\ ((x & y) | (x & z)) | (y & z) \in Row
  <2>1. x ^^ y \in Row /\ x & y \in Row /\ x & z \in Row /\ y & z \in Row
    BY LogicHas
  <2>2. (x ^^ y) ^^ z \in Row /\ (x & y) | (x & z) \in Row
    BY <2>1, LogicHas
  <2>3. QED
    BY <2>1, <2>2, LogicHas
<1>4. PICK s \in Row, m \in Row : s = (x ^^ y) ^^ z /\ m = ((x & y) | (x & z)) | (y & z)
  BY <1>3
<1>5. ASSUME NEW i \in 0 .. n - 1
      PROVE  /\ BitOf(s, i) <=> ((BitOf(x, i) <=> BitOf(y, i)) <=> BitOf(z, i))
             /\ BitOf(m, i) <=> \/ BitOf(x, i) /\ BitOf(y, i)
                                \/ BitOf(x, i) /\ BitOf(z, i)
                                \/ BitOf(y, i) /\ BitOf(z, i)
  <2>1. i \in 0 .. 2 * Width + 1
    BY <1>1
  <2>2. BitOf(x ^^ y, i) <=> ~(BitOf(x, i) <=> BitOf(y, i))
    BY <2>1, LogicHas
  <2>3. BitOf((x ^^ y) ^^ z, i) <=> ~(BitOf(x ^^ y, i) <=> BitOf(z, i))
    BY <1>3, <2>1, LogicHas
  <2>4. /\ BitOf(x & y, i) <=> BitOf(x, i) /\ BitOf(y, i)
        /\ BitOf(x & z, i) <=> BitOf(x, i) /\ BitOf(z, i)
        /\ BitOf(y & z, i) <=> BitOf(y, i) /\ BitOf(z, i)
    BY <2>1, LogicHas
  <2>5. BitOf((x & y) | (x & z), i) <=> BitOf(x & y, i) \/ BitOf(x & z, i)
    BY <1>3, <2>1, LogicHas
  <2>6. BitOf(((x & y) | (x & z)) | (y & z), i) <=>
            BitOf((x & y) | (x & z), i) \/ BitOf(y & z, i)
    BY <1>3, <2>1, LogicHas
  <2>7. QED
    BY <1>4, <2>2, <2>3, <2>4, <2>5, <2>6
<1>6. x \in Int /\ y \in Int /\ z \in Int /\ s \in Int /\ m \in Int
  BY <1>2
<1> DEFINE P == {k \in 0 .. n : (s % 2^k) + 2 * (m % 2^k) = (x % 2^k) + (y % 2^k) + (z % 2^k)}
<1>7. 0 \in P
  <2>1. s % 2^0 = 0 /\ m % 2^0 = 0 /\ x % 2^0 = 0 /\ y % 2^0 = 0 /\ z % 2^0 = 0
    BY <1>6, BitStep
  <2>2. QED
    BY <2>1
<1>8. ASSUME NEW k \in 0 .. n - 1, k \in P PROVE k + 1 \in P
  <2>1. k \in 0 .. 2 * Width + 2 /\ k \in 0 .. 2 * Width + 1
    BY <1>1
  <2>2. PICK M \in Nat \ {0} : M = 2^k
    BY <2>1, Powers
  <2>3. PICK sk \in Int, mk \in Int, xk \in Int, yk \in Int, zk \in Int :
            /\ sk = s % 2^k /\ mk = m % 2^k /\ xk = x % 2^k /\ yk = y % 2^k /\ zk = z % 2^k
    <3>1. /\ s % M \in Int /\ m % M \in Int /\ x % M \in Int
          /\ y % M \in Int /\ z % M \in Int
      BY <1>6
    <3>2. QED
      BY <2>2, <3>1
  <2>4. sk + 2 * mk = xk + yk + zk
    BY <1>8, <2>3
  <2>5. /\ s % 2^(k + 1) = sk + (IF BitOf(s, k) THEN M ELSE 0)
        /\ m % 2^(k + 1) = mk + (IF BitOf(m, k) THEN M ELSE 0)
        /\ x % 2^(k + 1) = xk + (IF BitOf(x, k) THEN M ELSE 0)
        /\ y % 2^(k + 1) = yk + (IF BitOf(y, k) THEN M ELSE 0)
        /\ z % 2^(k + 1) = zk + (IF BitOf(z, k) THEN M ELSE 0)
    BY <1>6, <2>1, <2>2, <2>3, BitStep
  <2>6. PICK bx \in BOOLEAN, by \in BOOLEAN, bz \in BOOLEAN :
            bx = BitOf(x, k) /\ by = BitOf(y, k) /\ bz = BitOf(z, k)
    <3>1. BitOf(x, k) \in BOOLEAN /\ BitOf(y, k) \in BOOLEAN /\ BitOf(z, k) \in BOOLEAN
      BY DEF BitOf
    <3>2. QED
      BY <3>1
  <2>7. /\ BitOf(s, k) <=> ((bx <=> by) <=> bz)
        /\ BitOf(m, k) <=> (bx /\ by) \/ (bx /\ bz) \/ (by /\ bz)
    BY <1>5, <2>6
  <2>8. k + 1 \in 0 .. n
    BY <1>1
  <2>9. (s % 2^(k + 1)) + 2 * (m % 2^(k + 1))
            = (x % 2^(k + 1)) + (y % 2^(k + 1)) + (z % 2^(k + 1))
    BY <2>4, <2>5, <2>6, <2>7
  <2>10. QED
    BY <2>8, <2>9
<1> HIDE DEF P
<1>9. 0 .. n \subseteq P
  BY <1>7, <1>8, InductionUpTo
<1>10. s + 2 * m = x + y + z
  <2>1. (s % A) + 2 * (m % A) = (x % A) + (y % A) + (z % A)
    BY <1>2, <1>9 DEF P
  <2>2. \A w \in Row : w % A = w
    BY <1>2
  <2>3. QED
    BY <2>1, <2>2
<1>11. PICK c \in Row : c = (2 * m) % A /\ Same(A, c, 2 * m)
  <2>1. PICK d \in Int : d = 2 * m
    BY <1>6
  <2>2. d % A \in 0 .. A - 1 /\ (d % A) % A = d % A
    OBVIOUS
  <2>3. QED
    BY <1>2, <2>1, <2>2 DEF Same
<1>12. Same(A, s + c, s + 2 * m)
  <2>1. Same(A, s, s) /\ c \in Int /\ 2 * m \in Int
    BY <1>2, <1>6 DEF Same
  <2>2. QED
    BY <1>6, <1>11, <2>1, SameSum
<1>13. CarrySaveCompressor(x, y, z)[1] = s /\ CarrySaveCompressor(x, y, z)[2] = c
  BY <1>2, <1>4, <1>11 DEF CarrySaveCompressor
<1>14. QED
  BY <1>2, <1>10, <1>12, <1>13

\* The sum of the first rows.
RowSum(rows, j) == SumBelow([i \in 0 .. Len(rows) - 1 |-> rows[i + 1]], j)

\* One row more of the sum.
LEMMA RowSumStep ==
    ASSUME NEW rows \in Seq(Row)
    PROVE  /\ RowSum(rows, 0) = 0
           /\ \A j \in 0 .. Len(rows) - 1 : RowSum(rows, j + 1) = RowSum(rows, j) + rows[j + 1]
           /\ \A j \in 1 .. Len(rows) : rows[j] \in Row /\ rows[j] \in Int
           /\ \A j \in 0 .. Len(rows) : RowSum(rows, j) \in Int
<1> DEFINE f == [i \in 0 .. Len(rows) - 1 |-> rows[i + 1]]
<1>1. PICK n \in Nat : n = Len(rows)
  OBVIOUS
<1>2. \A j \in 1 .. n : rows[j] \in Row /\ rows[j] \in Int
  BY <1>1, RowsAreNumbers
<1>3. \A j \in 0 .. n - 1 : f[j] = rows[j + 1]
  BY <1>1
<1>4. \A j : RowSum(rows, j) = SumBelow(f, j)
  BY DEF RowSum
<1> HIDE DEF f
<1>5. \A j \in 0 .. n - 1 : SumBelow(f, j + 1) = SumBelow(f, j) + f[j]
  BY SumStep
<1>6. SumBelow(f, 0) = 0
  BY SumStep
<1>7. ASSUME NEW j \in 0 .. n PROVE SumBelow(f, j) \in Int
  <2>1. j \in Nat /\ 1 \in Nat \ {0} /\ \A i \in 0 .. j - 1 : f[i] \in Int
    BY <1>2, <1>3
  <2>2. QED
    BY <2>1, SumCongruent
<1>8. QED
  BY <1>1, <1>2, <1>3, <1>4, <1>5, <1>6, <1>7

\* A layer: fewer rows with the same sum.
LEMMA LayerAdds ==
    ASSUME NEW rows \in Seq(Row), Len(rows) > 2
    PROVE  /\ WallaceLayer(rows) \in Seq(Row)
           /\ Len(WallaceLayer(rows)) \in 2 .. Len(rows) - 1
           /\ Same(Accumulator, RowSum(WallaceLayer(rows), Len(WallaceLayer(rows))),
                   RowSum(rows, Len(rows)))
<1> DEFINE pair(k) == CarrySaveCompressor(rows[3 * k + 1], rows[3 * k + 2], rows[3 * k + 3])
<1>1. PICK N \in Nat, n \in Nat : /\ N = Len(rows) /\ n = N \div 3 /\ n >= 1
                                  /\ 3 * n <= N /\ N < 3 * n + 3
  <2>1. PICK N \in Nat : N = Len(rows) /\ N > 2
    OBVIOUS
  <2>2. N \div 3 \in Nat /\ N \div 3 >= 1 /\ 3 * (N \div 3) <= N /\ N < 3 * (N \div 3) + 3
    BY <2>1
  <2>3. QED
    BY <2>1, <2>2
<1>2. PICK A \in Nat \ {0} : A = Accumulator
  <2>1. 4^Width \in Nat \ {0} /\ Accumulator = 4^Width * 4
    BY Fours, Powers
  <2>2. QED
    BY <2>1
<1>3. \A j \in 1 .. N : rows[j] \in Row /\ rows[j] \in Int
  BY <1>1, RowSumStep
<1>4. ASSUME NEW k \in 0 .. n - 1
      PROVE  /\ pair(k)[1] \in Row /\ pair(k)[2] \in Row
             /\ Same(A, pair(k)[1] + pair(k)[2],
                     rows[3 * k + 1] + rows[3 * k + 2] + rows[3 * k + 3])
  <2>1. 3 * k + 1 \in 1 .. N /\ 3 * k + 2 \in 1 .. N /\ 3 * k + 3 \in 1 .. N
    BY <1>1
  <2>2. rows[3 * k + 1] \in Row /\ rows[3 * k + 2] \in Row /\ rows[3 * k + 3] \in Row
    BY <1>3, <2>1
  <2>3. QED
    BY <1>2, <2>2, CompressorAdds
<1>5. WallaceLayer(rows) = [i \in 1 .. N - n |->
          IF i <= 2 * n THEN pair((i - 1) \div 2)[((i - 1) % 2) + 1] ELSE rows[i + n]]
  BY <1>1 DEF WallaceLayer
<1> HIDE DEF pair
<1>6. PICK L : L = [i \in 1 .. N - n |->
          IF i <= 2 * n THEN pair((i - 1) \div 2)[((i - 1) % 2) + 1] ELSE rows[i + n]]
  OBVIOUS
<1>7. ASSUME NEW k \in 0 .. n - 1
      PROVE L[2 * k + 1] = pair(k)[1] /\ L[2 * k + 2] = pair(k)[2]
  <2>1. /\ 2 * k + 1 \in 1 .. N - n /\ 2 * k + 2 \in 1 .. N - n
        /\ 2 * k + 1 <= 2 * n /\ 2 * k + 2 <= 2 * n
        /\ ((2 * k + 1) - 1) \div 2 = k /\ ((2 * k + 2) - 1) \div 2 = k
        /\ (((2 * k + 1) - 1) % 2) + 1 = 1 /\ (((2 * k + 2) - 1) % 2) + 1 = 2
    BY <1>1
  <2>2. QED
    BY <1>6, <2>1
<1>8. ASSUME NEW i \in 2 * n + 1 .. N - n PROVE L[i] = rows[i + n]
  <2>1. i \in 1 .. N - n /\ ~(i <= 2 * n)
    BY <1>1
  <2>2. QED
    BY <1>6, <2>1
<1>9. ASSUME NEW i \in 1 .. N - n PROVE L[i] \in Row
  <2>1. CASE i <= 2 * n
    <3>1. PICK k \in 0 .. n - 1 : i = 2 * k + 1 \/ i = 2 * k + 2
      <4>1. (i - 1) \div 2 \in 0 .. n - 1
            /\ (i = 2 * ((i - 1) \div 2) + 1 \/ i = 2 * ((i - 1) \div 2) + 2)
        BY <1>1, <2>1
      <4>2. QED
        BY <4>1
    <3>2. QED
      BY <1>4, <1>7, <3>1
  <2>2. CASE i > 2 * n
    <3>1. i \in 2 * n + 1 .. N - n /\ i + n \in 1 .. N
      BY <1>1, <2>2
    <3>2. QED
      BY <1>3, <1>8, <3>1
  <2>3. QED
    BY <1>1, <2>1, <2>2
<1>10. N - n \in 2 .. N - 1 /\ N - n \in Nat
  BY <1>1
<1>11. L \in Seq(Row) /\ Len(L) = N - n
  <2>1. L \in [1 .. N - n -> Row]
    BY <1>6, <1>9
  <2>2. QED
    BY <1>10, <2>1
<1>12. /\ RowSum(rows, 0) = 0 /\ RowSum(L, 0) = 0
       /\ \A j \in 0 .. N - 1 : RowSum(rows, j + 1) = RowSum(rows, j) + rows[j + 1]
       /\ \A j \in 0 .. N - n - 1 : RowSum(L, j + 1) = RowSum(L, j) + L[j + 1]
       /\ \A j \in 0 .. N : RowSum(rows, j) \in Int
       /\ \A j \in 0 .. N - n : RowSum(L, j) \in Int
  BY <1>1, <1>11, RowSumStep
<1> DEFINE P == {k \in 0 .. n : Same(A, RowSum(L, 2 * k), RowSum(rows, 3 * k))}
<1>13. 0 \in P
  <2>1. Same(A, 0, 0) /\ 2 * 0 = 0 /\ 3 * 0 = 0
    BY DEF Same
  <2>2. QED
    BY <1>12, <2>1
<1>14. ASSUME NEW k \in 0 .. n - 1, k \in P PROVE k + 1 \in P
  <2>1. PICK i \in 0 .. N - n - 1, j \in 0 .. N - 1 :
            /\ i = 2 * k /\ j = 3 * k /\ i + 1 \in 0 .. N - n - 1
            /\ j + 1 \in 0 .. N - 1 /\ j + 2 \in 0 .. N - 1
            /\ i \in 0 .. N - n /\ j \in 0 .. N
            /\ (i + 1) + 1 = i + 2 /\ (j + 1) + 1 = j + 2 /\ (j + 2) + 1 = j + 3
            /\ i + 2 = 2 * (k + 1) /\ j + 3 = 3 * (k + 1)
            /\ j + 1 \in 1 .. N /\ j + 2 \in 1 .. N /\ j + 3 \in 1 .. N
    BY <1>1
  <2>2. PICK u \in Int, v \in Int : u = RowSum(L, i) /\ v = RowSum(rows, j) /\ Same(A, u, v)
    BY <1>12, <1>14, <2>1
  <2>3. PICK p \in Int, q \in Int, x \in Int, y \in Int, z \in Int :
            /\ p = L[i + 1] /\ q = L[i + 2]
            /\ x = rows[j + 1] /\ y = rows[j + 2] /\ z = rows[j + 3]
            /\ Same(A, p + q, x + y + z)
    <3>1. L[i + 1] = pair(k)[1] /\ L[i + 2] = pair(k)[2]
      BY <1>7, <2>1
    <3>2. pair(k)[1] \in Int /\ pair(k)[2] \in Int
      BY <1>4, RowsAreNumbers
    <3>3. QED
      BY <1>3, <1>4, <2>1, <3>1, <3>2
  <2>4. RowSum(L, i + 2) = u + (p + q)
    <3>1. RowSum(L, i + 1) = u + p
      BY <1>12, <2>1, <2>2, <2>3
    <3>2. RowSum(L, i + 2) = RowSum(L, i + 1) + q
      BY <1>12, <2>1, <2>3
    <3>3. QED
      BY <3>1, <3>2
  <2>5. RowSum(rows, j + 3) = v + (x + y + z)
    <3>1. RowSum(rows, j + 1) = v + x
      BY <1>12, <2>1, <2>2, <2>3
    <3>2. RowSum(rows, j + 2) = RowSum(rows, j + 1) + y
      BY <1>12, <2>1, <2>3
    <3>3. RowSum(rows, j + 3) = RowSum(rows, j + 2) + z
      BY <1>12, <2>1, <2>3
    <3>4. QED
      BY <3>1, <3>2, <3>3
  <2>6. Same(A, u + (p + q), v + (x + y + z))
    <3>1. PICK d \in Int, e \in Int : d = p + q /\ e = x + y + z
      OBVIOUS
    <3>2. Same(A, d, e)
      BY <2>3, <3>1
    <3>3. Same(A, u + d, v + e)
      BY <2>2, <3>2, SameSum
    <3>4. QED
      BY <3>1, <3>3
  <2>7. k + 1 \in 0 .. n
    OBVIOUS
  <2>8. QED
    BY <2>1, <2>4, <2>5, <2>6, <2>7
<1> HIDE DEF P
<1>15. 0 .. n \subseteq P
  BY <1>13, <1>14, InductionUpTo
<1>16. Same(A, RowSum(L, 2 * n), RowSum(rows, 3 * n))
  BY <1>15 DEF P
<1>17. PICK r \in Nat : r = N - 3 * n
  BY <1>1
<1> DEFINE Q == {k \in 0 .. r : Same(A, RowSum(L, 2 * n + k), RowSum(rows, 3 * n + k))}
<1>18. 0 \in Q
  BY <1>16
<1>19. ASSUME NEW k \in 0 .. r - 1, k \in Q PROVE k + 1 \in Q
  <2>1. PICK i \in 0 .. N - n - 1, j \in 0 .. N - 1 :
            /\ i = 2 * n + k /\ j = 3 * n + k
            /\ i + 1 = 2 * n + (k + 1) /\ j + 1 = 3 * n + (k + 1)
            /\ i + 1 \in 2 * n + 1 .. N - n /\ (i + 1) + n = j + 1
            /\ j + 1 \in 1 .. N /\ i \in 0 .. N - n /\ j \in 0 .. N
    <3>1. PICK i \in Nat, j \in Nat : i = 2 * n + k /\ j = 3 * n + k
      OBVIOUS
    <3>2. k + 1 <= N - 3 * n
      BY <1>17
    <3>3. i + 1 <= N - n /\ j + 1 <= N /\ 2 * n <= i
      BY <1>1, <3>1, <3>2
    <3>4. QED
      BY <1>1, <3>1, <3>3
  <2>2. PICK u \in Int, v \in Int, w \in Int :
            u = RowSum(L, i) /\ v = RowSum(rows, j) /\ Same(A, u, v) /\ w = rows[j + 1]
    BY <1>3, <1>12, <1>19, <2>1
  <2>3. L[i + 1] = w
    BY <1>8, <2>1, <2>2
  <2>4. RowSum(L, i + 1) = u + w /\ RowSum(rows, j + 1) = v + w
    BY <1>12, <2>1, <2>2, <2>3
  <2>5. Same(A, u + w, v + w)
    <3>1. Same(A, w, w)
      BY DEF Same
    <3>2. QED
      BY <2>2, <3>1, SameSum
  <2>6. k + 1 \in 0 .. r
    OBVIOUS
  <2>7. QED
    BY <2>1, <2>4, <2>5, <2>6
<1> HIDE DEF Q
<1>20. 0 .. r \subseteq Q
  BY <1>18, <1>19, InductionUpTo
<1>21. Same(A, RowSum(L, N - n), RowSum(rows, N))
  <2>1. r \in Q /\ 2 * n + r = N - n /\ 3 * n + r = N
    BY <1>1, <1>17, <1>20
  <2>2. QED
    BY <2>1 DEF Q
<1>22. QED
  BY <1>1, <1>2, <1>5, <1>6, <1>10, <1>11, <1>21

\* The layers of a tree.
NextLayer(above) == IF Len(above) > 2 THEN WallaceLayer(above) ELSE above

\* They exist.
LEMMA LayersExist ==
    ASSUME NEW rows, NEW n \in Nat
    PROVE  \E h : h = [k \in 0 .. n |-> IF k = 0 THEN rows ELSE NextLayer(h[k - 1])]
<1> DEFINE P == {m \in Nat :
                    \E h : h = [k \in 0 .. m |-> IF k = 0 THEN rows ELSE NextLayer(h[k - 1])]}
<1>1. 0 \in P
  <2> DEFINE g == [k \in 0 .. 0 |-> rows]
  <2>1. g = [k \in 0 .. 0 |-> IF k = 0 THEN rows ELSE NextLayer(g[k - 1])]
    OBVIOUS
  <2> HIDE DEF g
  <2>2. QED
    BY <2>1
<1>2. ASSUME NEW m \in Nat, m \in P PROVE m + 1 \in P
  <2>1. PICK h : h = [k \in 0 .. m |-> IF k = 0 THEN rows ELSE NextLayer(h[k - 1])]
    BY <1>2
  <2> DEFINE g == [k \in 0 .. m + 1 |-> IF k = m + 1 THEN NextLayer(h[m]) ELSE h[k]]
  <2>2. g = [k \in 0 .. m + 1 |-> IF k = 0 THEN rows ELSE NextLayer(g[k - 1])]
    <3>1. ASSUME NEW k \in 0 .. m + 1
          PROVE  (IF k = m + 1 THEN NextLayer(h[m]) ELSE h[k])
                     = IF k = 0 THEN rows ELSE NextLayer(g[k - 1])
      <4>1. CASE k = 0
        BY <2>1, <4>1
      <4>2. CASE k = m + 1
        BY <4>2
      <4>3. CASE k \in 1 .. m
        <5>1. h[k] = NextLayer(h[k - 1]) /\ g[k - 1] = h[k - 1]
          BY <2>1, <4>3
        <5>2. QED
          BY <4>3, <5>1
      <4>4. QED
        BY <4>1, <4>2, <4>3
    <3>2. QED
      BY <3>1
  <2> HIDE DEF g
  <2>3. QED
    BY <2>2
<1> HIDE DEF P
<1>3. Nat \subseteq P
  BY <1>1, <1>2, Induction
<1>4. QED
  BY <1>3 DEF P

\* The tree adds its rows.
LEMMA TreeAdds ==
    ASSUME NEW rows \in Seq(Row), Len(rows) >= 2
    PROVE  /\ WallaceTree(rows) \in Int
           /\ Same(Accumulator, WallaceTree(rows), RowSum(rows, Len(rows)))
<1> DEFINE layer == CHOOSE h : h = [k \in 0 .. Len(rows) |->
                                       IF k = 0 THEN rows ELSE NextLayer(h[k - 1])]
<1>1. PICK n \in Nat : n = Len(rows) /\ n >= 2
  OBVIOUS
<1>2. layer = [k \in 0 .. Len(rows) |-> IF k = 0 THEN rows ELSE NextLayer(layer[k - 1])]
  <2>1. \E h : h = [k \in 0 .. n |-> IF k = 0 THEN rows ELSE NextLayer(h[k - 1])]
    BY LayersExist, Zenon
  <2>2. \E h : h = [k \in 0 .. Len(rows) |-> IF k = 0 THEN rows ELSE NextLayer(h[k - 1])]
    BY <1>1, <2>1, Zenon
  <2>3. QED
    BY <2>2, Zenon
<1>3. WallaceTree(rows) = layer[Len(rows)][1] + layer[Len(rows)][2]
  BY Zenon DEF WallaceTree, NextLayer
<1> HIDE DEF layer
<1>4. layer[0] = rows /\ \A k \in 0 .. n - 1 : layer[k + 1] = NextLayer(layer[k])
  BY <1>1, <1>2
<1> DEFINE P == {k \in 0 .. n :
                    /\ layer[k] \in Seq(Row) /\ Len(layer[k]) >= 2
                    /\ Len(layer[k]) = 2 \/ Len(layer[k]) + k <= n
                    /\ Same(Accumulator, RowSum(layer[k], Len(layer[k])), RowSum(rows, n))}
<1>5. 0 \in P
  <2>1. Same(Accumulator, RowSum(rows, n), RowSum(rows, n))
    BY DEF Same
  <2>2. QED
    BY <1>1, <1>4, <2>1
<1>6. ASSUME NEW k \in 0 .. n - 1, k \in P PROVE k + 1 \in P
  <2>1. PICK above : above = layer[k]
    OBVIOUS
  <2>2. above \in Seq(Row) /\ \E N \in Nat :
            /\ N = Len(above) /\ N >= 2 /\ (N = 2 \/ N + k <= n)
            /\ Same(Accumulator, RowSum(above, Len(above)), RowSum(rows, n))
    <3>1. /\ layer[k] \in Seq(Row) /\ Len(layer[k]) >= 2
          /\ Len(layer[k]) = 2 \/ Len(layer[k]) + k <= n
          /\ Same(Accumulator, RowSum(layer[k], Len(layer[k])), RowSum(rows, n))
      BY <1>6
    <3> HIDE DEF P
    <3>2. Len(above) \in Nat
      BY <2>1, <3>1
    <3>3. QED
      BY <2>1, <3>1, <3>2
  <2>3. PICK N \in Nat :
            /\ N = Len(above) /\ N >= 2 /\ (N = 2 \/ N + k <= n)
            /\ Same(Accumulator, RowSum(above, Len(above)), RowSum(rows, n))
    BY <2>2, Zenon
  <2>4. layer[k + 1] = NextLayer(above) /\ k + 1 \in 0 .. n
    BY <1>4, <2>1
  <2>5. CASE N = 2
    <3>1. layer[k + 1] = above
      BY <2>3, <2>4, <2>5 DEF NextLayer
    <3>2. QED
      BY <2>2, <2>3, <2>4, <2>5, <3>1
  <2>6. CASE N > 2
    <3>1. layer[k + 1] = WallaceLayer(above)
      BY <2>3, <2>4, <2>6 DEF NextLayer
    <3>2. PICK below \in Seq(Row) :
              /\ below = WallaceLayer(above) /\ Len(below) \in 2 .. N - 1
              /\ Same(Accumulator, RowSum(below, Len(below)), RowSum(above, Len(above)))
      BY <2>2, <2>3, <2>6, LayerAdds
    <3>3. Same(Accumulator, RowSum(below, Len(below)), RowSum(rows, n))
      BY <2>3, <3>2 DEF Same
    <3>4. Len(below) + (k + 1) <= n /\ Len(below) >= 2
      BY <2>3, <2>6, <3>2
    <3>5. QED
      BY <2>4, <3>1, <3>2, <3>3, <3>4
  <2>7. QED
    BY <2>3, <2>5, <2>6
<1> HIDE DEF P
<1>7. 0 .. n \subseteq P
  BY <1>5, <1>6, InductionUpTo
<1>8. PICK last \in Seq(Row) :
          /\ last = layer[n] /\ Len(last) = 2
          /\ Same(Accumulator, RowSum(last, 2), RowSum(rows, n))
  <2>1. n \in P
    BY <1>7
  <2>2. /\ layer[n] \in Seq(Row) /\ Len(layer[n]) >= 2
        /\ Len(layer[n]) = 2 \/ Len(layer[n]) + n <= n
        /\ Same(Accumulator, RowSum(layer[n], Len(layer[n])), RowSum(rows, n))
    BY <2>1 DEF P
  <2>3. Len(layer[n]) = 2
    BY <2>2
  <2>4. QED
    BY <2>2, <2>3
<1>9. last[1] + last[2] = RowSum(last, 2) /\ RowSum(last, 2) \in Int
  <2>1. /\ RowSum(last, 0) = 0 /\ RowSum(last, 0 + 1) = RowSum(last, 0) + last[0 + 1]
        /\ RowSum(last, 1 + 1) = RowSum(last, 1) + last[1 + 1]
        /\ last[1] \in Int /\ last[2] \in Int
    BY <1>8, RowSumStep
  <2>2. QED
    BY <2>1
<1>10. QED
  BY <1>1, <1>3, <1>8, <1>9

\* The Wallace tree computes what the sum of the rows does.
LEMMA WallaceMultiplies ==
    ASSUME NEW a \in Word, NEW b \in Word
    PROVE  BoothWallaceMultiplier(a, b) = BoothMultiplier(a, b)
<1>1. PICK n \in Nat : n = Width \div 2 /\ n >= 2 /\ Groups = 0 .. n - 1
  BY Powers DEF Groups
<1>2. PICK R : R = BoothRows(a, b)
  OBVIOUS
<1>3. \A g \in 0 .. n - 1 : R[g] \in Row
  BY <1>1, <1>2, RowsAddUp
<1>4. PICK rows : rows = [i \in 1 .. n |-> R[i - 1]]
  OBVIOUS
<1>5. rows \in Seq(Row) /\ Len(rows) = n
  <2>1. rows \in [1 .. n -> Row]
    BY <1>3, <1>4
  <2>2. QED
    BY <2>1
<1>6. SumBelow(R, n) = RowSum(rows, n)
  <2>1. PICK h : \A k \in 0 .. n : h[k] = RowSum(rows, k)
    <3>1. \A k \in 0 .. n : [i \in 0 .. n |-> RowSum(rows, i)][k] = RowSum(rows, k)
      OBVIOUS
    <3>2. QED
      BY <3>1
  <2>2. h[0] = 0
    BY <1>5, <2>1, RowSumStep
  <2>3. ASSUME NEW k \in 0 .. n - 1 PROVE h[k + 1] = h[k] + R[k]
    <3>1. RowSum(rows, k + 1) = RowSum(rows, k) + rows[k + 1]
      BY <1>5, RowSumStep
    <3>2. rows[k + 1] = R[k] /\ k \in 0 .. n /\ k + 1 \in 0 .. n
      BY <1>4
    <3>3. QED
      BY <2>1, <3>1, <3>2
  <2>4. \A k \in 0 .. n : SumBelow(R, k) = h[k]
    BY <2>2, <2>3, SumIs
  <2>5. QED
    BY <2>1, <2>4
<1>7. PICK T \in Int, S \in Int :
          T = WallaceTree(rows) /\ S = RowSum(rows, n) /\ Same(Accumulator, T, S)
  <2>1. RowSum(rows, n) \in Int
    BY <1>5, RowSumStep
  <2>2. WallaceTree(rows) \in Int /\ Same(Accumulator, WallaceTree(rows), RowSum(rows, Len(rows)))
    BY <1>1, <1>5, TreeAdds
  <2>3. QED
    BY <1>5, <2>1, <2>2
<1>8. PICK m \in Nat \ {0} : m = 4^Width /\ Accumulator = m * 4
  BY Fours, Powers
<1>9. T % m = S % m
  <2>1. (T % (m * 4)) % m = T % m /\ (S % (m * 4)) % m = S % m
    BY ModMod, 4 \in Nat \ {0}
  <2>2. T % (m * 4) = S % (m * 4)
    BY <1>7, <1>8 DEF Same
  <2>3. QED
    BY <2>1, <2>2
<1>10. BoothWallaceMultiplier(a, b) = T % m
  BY <1>1, <1>2, <1>4, <1>7, <1>8 DEF BoothWallaceMultiplier
<1>11. BoothMultiplier(a, b) = S % m
  BY <1>1, <1>2, <1>6, <1>7, <1>8 DEF BoothMultiplier
<1>12. QED
  BY <1>9, <1>10, <1>11

\* A code from the three bits the page reads.
LEMMA CodeShown ==
    ASSUME NEW p, p.b \in Word, NEW g \in 0 .. 3
    PROVE  boothGroups(p)[g].code = BoothCode(p.b, g)
<1>1. p.b \in Int /\ Width \in Nat /\ Width >= 8
  BY WordsAreRows, Powers
<1>2. PICK M \in Nat \ {0}, y \in Int, q \in Int :
          M = 4^g /\ y = (2 * p.b) \div M /\ q = p.b \div M
  <2>1. 4^g \in Nat \ {0}
    BY <1>1, Fours
  <2>2. PICK M \in Nat \ {0}, c \in Int, d \in Int : M = 4^g /\ c = 2 * p.b /\ d = p.b
    BY <1>1, <2>1
  <2>3. c \div M \in Int /\ d \div M \in Int
    BY DivModOf
  <2>4. QED
    BY <2>2, <2>3
<1>3. y \div 2 = q
  <2>1. PICK c \in Int, d \in Int : c = 2 * d /\ d = p.b
    BY <1>1
  <2>2. c \div (M * 2) = (c \div M) \div 2 /\ c \div (2 * M) = (c \div 2) \div M
    BY DivDiv, 2 \in Nat \ {0}
  <2>3. c \div 2 = d /\ M * 2 = 2 * M
    BY <2>1
  <2>4. QED
    BY <1>2, <2>1, <2>2, <2>3
<1>4. Bit(p.b, 2 * g) = q % 2
  <2>1. 2^(2 * g) = M
    BY <1>1, <1>2, Fours
  <2>2. QED
    BY <1>2, <2>1 DEF Bit
<1>5. Bit(p.b, 2 * g + 1) = (q \div 2) % 2
  <2>1. 2^(2 * g + 1) = M * 2
    <3>1. 2 * g \in 0 .. 2 * Width + 1 /\ 2^(2 * g) = M
      BY <1>1, <1>2, Fours
    <3>2. 2^(2 * g + 1) = 2 * 2^(2 * g)
      BY <3>1, Powers
    <3>3. QED
      BY <3>1, <3>2
  <2>2. p.b \div (M * 2) = (p.b \div M) \div 2
    BY <1>1, DivDiv, 2 \in Nat \ {0}
  <2>3. QED
    BY <1>2, <2>1, <2>2 DEF Bit
<1>6. (IF g = 0 THEN 0 ELSE Bit(p.b, 2 * g - 1)) = y % 2
  <2>1. CASE g = 0
    <3>1. M = 1
      BY <1>2, <2>1, Fours
    <3>2. y = 2 * p.b
      BY <1>1, <1>2, <3>1
    <3>3. QED
      BY <1>1, <2>1, <3>2
  <2>2. CASE g # 0
    <3>1. PICK N \in Nat \ {0} : N = 2^(2 * g - 1) /\ M = 2 * N
      <4>1. 2 * g - 1 \in 0 .. 2 * Width + 1 /\ (2 * g - 1) + 1 = 2 * g
            /\ 2 * g - 1 \in 0 .. 2 * Width + 2
        BY <1>1, <2>2
      <4>2. 2^(2 * g) = 2 * 2^(2 * g - 1) /\ 2^(2 * g - 1) \in Nat \ {0}
        BY <4>1, Powers
      <4>3. 2^(2 * g) = M
        BY <1>1, <1>2, Fours
      <4>4. QED
        BY <4>2, <4>3
    <3>2. PICK c \in Int, d \in Int : c = 2 * d /\ d = p.b
      BY <1>1
    <3>3. c \div (2 * N) = (c \div 2) \div N
      BY DivDiv, 2 \in Nat \ {0}
    <3>4. c \div 2 = d
      BY <3>2
    <3>5. y = d \div N
      BY <1>2, <3>1, <3>2, <3>3, <3>4
    <3>6. QED
      BY <2>2, <3>1, <3>2, <3>5 DEF Bit
  <2>3. QED
    BY <2>1, <2>2
<1>7. y % 8 = 4 * ((q \div 2) % 2) + 2 * (q % 2) + (y % 2)
  BY <1>3
<1>8. boothGroups(p)[g].code =
          4 * Bit(p.b, 2 * g + 1) + 2 * Bit(p.b, 2 * g)
              + (IF g = 0 THEN 0 ELSE Bit(p.b, 2 * g - 1))
  BY DEF boothGroups
<1>9. BoothCode(p.b, g) = y % 8
  BY <1>2 DEF BoothCode
<1>10. QED
  BY <1>4, <1>5, <1>6, <1>7, <1>8, <1>9

\* The multiplier lab shows the product and the rows of the first groups.
LEMMA MultipliersShown ==
    ASSUME NEW p, p.a \in Word, p.b \in Word
    PROVE  MultipliersMatch(p)
<1>1. product32(p) = WordOf(BoothMultiplier(p.a, p.b))
  BY BoothMultiplies DEF product32
<1>2. ASSUME NEW g \in 0 .. 3
      PROVE  WordOf(boothGroups(p)[g].partialVal * 4^g) = WordOf(BoothRows(p.a, p.b)[g])
  <2>1. PICK x \in Int, M \in Nat \ {0}, w \in Nat \ {0}, d \in Int :
            /\ x = SignedOf(p.a) /\ M = 4^g /\ w = 2^Width
            /\ d = Factor(BoothCode(p.b, g))
    <3>1. SignedOf(p.a) \in Int /\ p.b \in Int
      BY SignedIs, WordsAreRows
    <3>2. 4^g \in Nat \ {0} /\ 2^Width \in Nat \ {0}
      BY Fours, Powers
    <3>3. Factor(BoothCode(p.b, g)) \in Int
      <4>1. PICK c \in Int, M \in Nat \ {0} : c = 2 * p.b /\ M = 4^g
        BY <3>1, <3>2
      <4>2. PICK y \in Int : y = c \div M
        BY DivModOf
      <4>3. Factor(y % 8) \in -2 .. 2
        BY BoothDigit
      <4>4. QED
        BY <4>1, <4>2, <4>3 DEF BoothCode
    <3>4. QED
      BY <3>1, <3>2, <3>3
  <2>2. boothGroups(p)[g].partialVal = (d * x) % w
    <3>1. boothGroups(p)[g].partialVal
              = WordOf(Factor(boothGroups(p)[g].code) * SignedOf(p.a))
      BY DEF boothGroups
    <3>2. QED
      BY <2>1, <3>1, CodeShown DEF WordOf
  <2>3. PICK A \in Nat \ {0}, v \in Nat \ {0} : A = Accumulator /\ A = w * v
    <3>1. Accumulator = 4 * (w * w)
      BY <2>1, WordsAreRows
    <3>2. 4 * (w * w) = w * (4 * w) /\ 4 * w \in Nat \ {0} /\ w * (4 * w) \in Nat \ {0}
      OBVIOUS
    <3>3. QED
      BY <3>1, <3>2
  <2>4. PICK e \in Int, z \in Int : e = d * x /\ z = e * M
    OBVIOUS
  <2>5. BoothRows(p.a, p.b)[g] = z % A
    <3>1. g \in Groups
      BY Powers DEF Groups
    <3>2. BoothRows(p.a, p.b)[g] = (Factor(BoothCode(p.b, g)) * SignedOf(p.a) * 4^g) % Accumulator
      BY <3>1, RowsAddUp
    <3>3. QED
      BY <2>1, <2>3, <2>4, <3>2
  <2>6. (z % (w * v)) % w = z % w
    BY ModMod
  <2>7. ((e % w) * M) % w = z % w
    <3>1. PICK q \in Int, r \in Int : q = e \div w /\ r = e % w /\ e = q * w + r
      BY DivModOf
    <3>2. z = r * M + (q * M) * w
      BY <2>4, <3>1
    <3>3. PICK s \in Int, t \in Int : s = r * M /\ t = q * M
      OBVIOUS
    <3>4. (s + t * w) % w = s % w
      BY ModPlus
    <3>5. QED
      BY <3>1, <3>2, <3>3, <3>4
  <2>8. QED
    BY <2>1, <2>2, <2>3, <2>4, <2>5, <2>6, <2>7 DEF WordOf
<1>3. \A g \in 0 .. 3 : boothGroups(p)[g].code = BoothCode(p.b, g)
  BY CodeShown
<1>4. QED
  BY <1>1, <1>2, <1>3, WallaceMultiplies DEF MultipliersMatch

-----------------------------------------------------------------------------
(* The ALU.                                                                *)

\* A result with its flags.
Flags(r, c, o) ==
    [result |-> r, zero |-> r = 0, negative |-> BitOf(r, Width - 1), carry |-> c, overflow |-> o]

\* The subtraction is an addition of the complement and one.
LEMMA SubtractorSubtracts ==
    ASSUME NEW a \in Word, NEW b \in Word
    PROVE  LET adder == HierarchicalCarryLookaheadAdder(a, ComplementOf(b), TRUE)
           IN  adder.sum = WordOf(a - b) /\ adder.carryOut = (a >= b)
<1>1. PICK M \in Nat \ {0} : M = 2^Width
  BY WordsAreRows
<1>2. a \in Nat /\ b \in Nat /\ b < M
  BY <1>1, WordsAreRows
<1>3. PICK d \in Word : d = ComplementOf(b) /\ d = M - 1 - b
  BY <1>1, <1>2 DEF ComplementOf, Word
<1>4. PICK c \in BOOLEAN : c = TRUE /\ Truth(c) = 1
  BY DEF Truth
<1>5. LET adder == HierarchicalCarryLookaheadAdder(a, d, c)
      IN  /\ adder.sum = WordOf(a + d + Truth(c))
          /\ adder.carryOut = (a + d + Truth(c) >= 2^Width)
  BY HierarchicalAdds
<1>6. a + d + 1 = (a - b) + M
  BY <1>1, <1>2, <1>3
<1>7. PICK e \in Int, u \in Int : e = a + d + 1 /\ u = a - b /\ e = u + 1 * M
  BY <1>2, <1>3, <1>6
<1>8. e % M = u % M
  <2>1. PICK k \in Int : k = 1
    OBVIOUS
  <2>2. (u + k * M) % M = u % M
    BY ModPlus
  <2>3. e = u + k * M
    BY <1>7, <2>1
  <2>4. QED
    BY <2>2, <2>3
<1>9. (e >= M) = (a >= b)
  BY <1>2, <1>7
<1>10. QED
  BY <1>1, <1>3, <1>4, <1>5, <1>7, <1>8, <1>9 DEF WordOf

\* The adder of the ALU.
LEMMA AdderAdds ==
    ASSUME NEW a \in Word, NEW b \in Word
    PROVE  LET adder == HierarchicalCarryLookaheadAdder(a, b, FALSE)
           IN  adder.sum = WordOf(a + b) /\ adder.carryOut = (a + b >= 2^Width)
<1>1. PICK c \in BOOLEAN : c = FALSE /\ Truth(c) = 0
  BY DEF Truth
<1>2. LET adder == HierarchicalCarryLookaheadAdder(a, b, c)
      IN  /\ adder.sum = WordOf(a + b + Truth(c))
          /\ adder.carryOut = (a + b + Truth(c) >= 2^Width)
  BY HierarchicalAdds
<1>3. a + b + 0 = a + b
  BY WordsAreRows
<1>4. QED
  BY <1>1, <1>2, <1>3

\* What the ALU answers, operation by operation.
LEMMA ALUIs ==
    ASSUME NEW a \in Word, NEW b \in Word
    PROVE  LET s == b % Width
               top(x) == BitOf(x, Width - 1)
           IN  /\ ALU(0, a, b) = Flags(WordOf(a + b), a + b >= 2^Width,
                      top(a) = top(b) /\ top(WordOf(a + b)) # top(a))
               /\ ALU(1, a, b) = Flags(WordOf(a - b), a >= b,
                      top(a) # top(b) /\ top(WordOf(a - b)) # top(a))
               /\ ALU(2, a, b) = Flags(a & b, FALSE, FALSE)
               /\ ALU(3, a, b) = Flags(a | b, FALSE, FALSE)
               /\ ALU(4, a, b) = Flags(a ^^ b, FALSE, FALSE)
               /\ ALU(5, a, b) = Flags(WordOf(a * 2^s), FALSE, FALSE)
               /\ ALU(6, a, b) = Flags(a \div 2^s, FALSE, FALSE)
               /\ ALU(7, a, b) = Flags(WordOf(SignedOf(a) \div 2^s), FALSE, FALSE)
               /\ ALU(8, a, b) = Flags(Flag(SignedOf(a) < SignedOf(b)), FALSE, FALSE)
               /\ ALU(9, a, b) = Flags(Flag(a < b), FALSE, FALSE)
               /\ ALU(10, a, b) = Flags(WordOf(SignedOf(a) * SignedOf(b)), FALSE, FALSE)
<1>1. /\ ALUOpcode[0 + 1] = "ADD" /\ ALUOpcode[1 + 1] = "SUB" /\ ALUOpcode[2 + 1] = "AND"
      /\ ALUOpcode[3 + 1] = "OR" /\ ALUOpcode[4 + 1] = "XOR" /\ ALUOpcode[5 + 1] = "SLL"
      /\ ALUOpcode[6 + 1] = "SRL" /\ ALUOpcode[7 + 1] = "SRA" /\ ALUOpcode[8 + 1] = "SLT"
      /\ ALUOpcode[9 + 1] = "SLTU" /\ ALUOpcode[10 + 1] = "MUL"
  BY DEF ALUOpcode
<1> USE DEF Flags
<1>2. ALU(0, a, b) = Flags(WordOf(a + b), a + b >= 2^Width,
          BitOf(a, Width - 1) = BitOf(b, Width - 1)
          /\ BitOf(WordOf(a + b), Width - 1) # BitOf(a, Width - 1))
  BY <1>1, AdderAdds DEF ALU
<1>3. ALU(1, a, b) = Flags(WordOf(a - b), a >= b,
          BitOf(a, Width - 1) # BitOf(b, Width - 1)
          /\ BitOf(WordOf(a - b), Width - 1) # BitOf(a, Width - 1))
  BY <1>1, SubtractorSubtracts DEF ALU
<1>4. ALU(2, a, b) = Flags(a & b, FALSE, FALSE)
  BY <1>1 DEF ALU
<1>5. ALU(3, a, b) = Flags(a | b, FALSE, FALSE)
  BY <1>1 DEF ALU
<1>6. ALU(4, a, b) = Flags(a ^^ b, FALSE, FALSE)
  BY <1>1 DEF ALU
<1>7. ALU(5, a, b) = Flags(WordOf(a * 2^(b % Width)), FALSE, FALSE)
  BY <1>1 DEF ALU
<1>8. ALU(6, a, b) = Flags(a \div 2^(b % Width), FALSE, FALSE)
  BY <1>1 DEF ALU
<1>9. ALU(7, a, b) = Flags(WordOf(SignedOf(a) \div 2^(b % Width)), FALSE, FALSE)
  BY <1>1 DEF ALU
<1>10. ALU(8, a, b) = Flags(Flag(SignedOf(a) < SignedOf(b)), FALSE, FALSE)
  BY <1>1 DEF ALU, Flag
<1>11. ALU(9, a, b) = Flags(Flag(a < b), FALSE, FALSE)
  BY <1>1 DEF ALU, Flag
<1>12. ALU(10, a, b) = Flags(WordOf(SignedOf(a) * SignedOf(b)), FALSE, FALSE)
  <2>1. WordOf(BoothWallaceMultiplier(a, b)) = WordOf(SignedOf(a) * SignedOf(b))
    BY WallaceMultiplies, BoothMultiplies
  <2>2. QED
    BY <1>1, <2>1 DEF ALU
<1> HIDE DEF Flags
<1>13. QED
  BY <1>2, <1>3, <1>4, <1>5, <1>6, <1>7, <1>8, <1>9, <1>10, <1>11, <1>12

\* The highest bit of a word.
LEMMA TopIs ==
    ASSUME NEW x \in Word
    PROVE  /\ BitOf(x, Width - 1) <=> x >= 2^(Width - 1)
           /\ 2^(Width - 1) \in Nat \ {0} /\ 2^Width = 2 * 2^(Width - 1)
           /\ Bit(x, Width - 1) = Flag(BitOf(x, Width - 1))
<1>1. PICK H \in Nat \ {0} : H = 2^(Width - 1) /\ 2^Width = 2 * H
  <2>1. Width - 1 \in 0 .. 2 * Width + 1 /\ Width - 1 \in 0 .. 2 * Width + 2
        /\ (Width - 1) + 1 = Width
    BY Powers
  <2>2. 2^Width = 2 * 2^(Width - 1) /\ 2^(Width - 1) \in Nat \ {0}
    BY <2>1, Powers
  <2>3. QED
    BY <2>2
<1>2. x \in Nat /\ x < 2 * H
  BY <1>1, WordsAreRows
<1>3. CASE x < H
  <2>1. x = 0 * H + x /\ x \in 0 .. H - 1 /\ x \in Int
    BY <1>2, <1>3
  <2>2. x \div H = 0
    BY <2>1, DivMod
  <2>3. Bit(x, Width - 1) = 0 /\ ~BitOf(x, Width - 1)
    BY <1>1, <2>2 DEF BitOf, Bit
  <2>4. QED
    BY <1>1, <1>2, <1>3, <2>3 DEF Flag
<1>4. CASE x >= H
  <2>1. x = 1 * H + (x - H) /\ x - H \in 0 .. H - 1 /\ x \in Int
    BY <1>2, <1>4
  <2>2. x \div H = 1
    BY <2>1, DivMod
  <2>3. Bit(x, Width - 1) = 1 /\ BitOf(x, Width - 1)
    BY <1>1, <2>2 DEF BitOf, Bit
  <2>4. QED
    BY <1>1, <1>2, <1>4, <2>3 DEF Flag
<1>5. QED
  BY <1>2, <1>3, <1>4

\* What the page shows, in the same words.
LEMMA ShownIs ==
    ASSUME NEW p, p.a \in Word, p.b \in Word
    PROVE  LET e == Evaluated(p)
           IN  ArchitectureResult(p) = Flags(e.result, e.carry, e.overflow)
  BY DEF ArchitectureResult, Flags, Bit, BitOf

\* The page's sum and difference of two words.
LEMMA WordOfIs == \A n \in Int : WordOf(n) \in Word
  BY WordsAreRows DEF WordOf, Word

\* Result and flags of every operation.
LEMMA ResultShown ==
    ASSUME NEW p, p.a \in Word, p.b \in Word, p.selectedOpcode \in 0 .. 10
    PROVE  ArchitectureResult(p) = ALU(p.selectedOpcode, p.a, p.b)
<1>1. PICK a \in Word, b \in Word, op \in 0 .. 10 :
          a = p.a /\ b = p.b /\ op = p.selectedOpcode
  OBVIOUS
<1>2. PICK e : e = Evaluated(p) /\ ArchitectureResult(p) = Flags(e.result, e.carry, e.overflow)
  BY ShownIs
<1>3. ASSUME NEW x \in Word, NEW y \in Word
      PROVE  (Bit(x, Width - 1) = Bit(y, Width - 1)) = (BitOf(x, Width - 1) = BitOf(y, Width - 1))
  <2>1. /\ Bit(x, Width - 1) = Flag(BitOf(x, Width - 1))
        /\ Bit(y, Width - 1) = Flag(BitOf(y, Width - 1))
    BY TopIs
  <2>2. PICK u \in BOOLEAN, v \in BOOLEAN : u = BitOf(x, Width - 1) /\ v = BitOf(y, Width - 1)
    <3>1. BitOf(x, Width - 1) \in BOOLEAN /\ BitOf(y, Width - 1) \in BOOLEAN
      BY DEF BitOf
    <3>2. QED
      BY <3>1
  <2>3. (Flag(u) = Flag(v)) = (u = v)
    BY DEF Flag
  <2>4. QED
    BY <2>1, <2>2, <2>3
<1>4. a + b \in Int /\ a - b \in Int /\ WordOf(a + b) \in Word /\ WordOf(a - b) \in Word
  BY WordsAreRows, WordOfIs
<1>5. CASE op = 0
  <2>1. e = [result |-> WordOf(a + b), carry |-> a + b >= 2^Width,
             overflow |-> Bit(a, Width - 1) = Bit(b, Width - 1)
                          /\ Bit(a, Width - 1) # Bit(WordOf(a + b), Width - 1)]
    BY <1>1, <1>2, <1>5 DEF Evaluated
  <2>2. (Bit(a, Width - 1) = Bit(b, Width - 1)
            /\ Bit(a, Width - 1) # Bit(WordOf(a + b), Width - 1)) =
        (BitOf(a, Width - 1) = BitOf(b, Width - 1)
            /\ BitOf(WordOf(a + b), Width - 1) # BitOf(a, Width - 1))
    BY <1>3, <1>4
  <2>3. ALU(0, a, b) = Flags(WordOf(a + b), a + b >= 2^Width,
            BitOf(a, Width - 1) = BitOf(b, Width - 1)
            /\ BitOf(WordOf(a + b), Width - 1) # BitOf(a, Width - 1))
    BY ALUIs
  <2>4. QED
    BY <1>1, <1>2, <1>5, <2>1, <2>2, <2>3
<1>6. CASE op = 1
  <2>1. e = [result |-> WordOf(a - b), carry |-> a >= b,
             overflow |-> Bit(a, Width - 1) # Bit(b, Width - 1)
                          /\ Bit(a, Width - 1) # Bit(WordOf(a - b), Width - 1)]
    BY <1>1, <1>2, <1>6 DEF Evaluated
  <2>2. (Bit(a, Width - 1) # Bit(b, Width - 1)
            /\ Bit(a, Width - 1) # Bit(WordOf(a - b), Width - 1)) =
        (BitOf(a, Width - 1) # BitOf(b, Width - 1)
            /\ BitOf(WordOf(a - b), Width - 1) # BitOf(a, Width - 1))
    BY <1>3, <1>4
  <2>3. ALU(1, a, b) = Flags(WordOf(a - b), a >= b,
            BitOf(a, Width - 1) # BitOf(b, Width - 1)
            /\ BitOf(WordOf(a - b), Width - 1) # BitOf(a, Width - 1))
    BY ALUIs
  <2>4. QED
    BY <1>1, <1>2, <1>6, <2>1, <2>2, <2>3
<1>7. CASE op \notin {0, 1}
  <2>1. CASE op = 2
    <3>1. e = [result |-> a & b, carry |-> FALSE, overflow |-> FALSE]
      BY <1>1, <1>2, <2>1 DEF Evaluated
    <3>2. ALU(2, a, b) = Flags(a & b, FALSE, FALSE)
      BY ALUIs
    <3>3. QED
      BY <1>1, <1>2, <2>1, <3>1, <3>2 DEF Flags
  <2>2. CASE op = 3
    <3>1. e = [result |-> a | b, carry |-> FALSE, overflow |-> FALSE]
      BY <1>1, <1>2, <2>2 DEF Evaluated
    <3>2. ALU(3, a, b) = Flags(a | b, FALSE, FALSE)
      BY ALUIs
    <3>3. QED
      BY <1>1, <1>2, <2>2, <3>1, <3>2 DEF Flags
  <2>3. CASE op = 4
    <3>1. e = [result |-> a ^^ b, carry |-> FALSE, overflow |-> FALSE]
      BY <1>1, <1>2, <2>3 DEF Evaluated
    <3>2. ALU(4, a, b) = Flags(a ^^ b, FALSE, FALSE)
      BY ALUIs
    <3>3. QED
      BY <1>1, <1>2, <2>3, <3>1, <3>2 DEF Flags
  <2>4. CASE op = 5
    <3>1. e = [result |-> WordOf(a * 2^(b % Width)), carry |-> FALSE, overflow |-> FALSE]
      BY <1>1, <1>2, <2>4 DEF Evaluated, shiftAmt
    <3>2. ALU(5, a, b) = Flags(WordOf(a * 2^(b % Width)), FALSE, FALSE)
      BY ALUIs
    <3>3. QED
      BY <1>1, <1>2, <2>4, <3>1, <3>2 DEF Flags
  <2>5. CASE op = 6
    <3>1. e = [result |-> a \div 2^(b % Width), carry |-> FALSE, overflow |-> FALSE]
      BY <1>1, <1>2, <2>5 DEF Evaluated, shiftAmt
    <3>2. ALU(6, a, b) = Flags(a \div 2^(b % Width), FALSE, FALSE)
      BY ALUIs
    <3>3. QED
      BY <1>1, <1>2, <2>5, <3>1, <3>2 DEF Flags
  <2>6. CASE op = 7
    <3>1. e = [result |-> WordOf(SignedOf(a) \div 2^(b % Width)), carry |-> FALSE,
               overflow |-> FALSE]
      BY <1>1, <1>2, <2>6 DEF Evaluated, shiftAmt
    <3>2. ALU(7, a, b) = Flags(WordOf(SignedOf(a) \div 2^(b % Width)), FALSE, FALSE)
      BY ALUIs
    <3>3. QED
      BY <1>1, <1>2, <2>6, <3>1, <3>2 DEF Flags
  <2>7. CASE op = 8
    <3>1. e = [result |-> Flag(SignedOf(a) < SignedOf(b)), carry |-> FALSE, overflow |-> FALSE]
      BY <1>1, <1>2, <2>7 DEF Evaluated
    <3>2. ALU(8, a, b) = Flags(Flag(SignedOf(a) < SignedOf(b)), FALSE, FALSE)
      BY ALUIs
    <3>3. QED
      BY <1>1, <1>2, <2>7, <3>1, <3>2 DEF Flags
  <2>8. CASE op = 9
    <3>1. e = [result |-> Flag(a < b), carry |-> FALSE, overflow |-> FALSE]
      BY <1>1, <1>2, <2>8 DEF Evaluated
    <3>2. ALU(9, a, b) = Flags(Flag(a < b), FALSE, FALSE)
      BY ALUIs
    <3>3. QED
      BY <1>1, <1>2, <2>8, <3>1, <3>2 DEF Flags
  <2>9. CASE op = 10
    <3>1. e = [result |-> WordOf(SignedOf(a) * SignedOf(b)), carry |-> FALSE, overflow |-> FALSE]
      BY <1>1, <1>2, <2>9 DEF Evaluated
    <3>2. ALU(10, a, b) = Flags(WordOf(SignedOf(a) * SignedOf(b)), FALSE, FALSE)
      BY ALUIs
    <3>3. QED
      BY <1>1, <1>2, <2>9, <3>1, <3>2 DEF Flags
  <2>10. QED
    BY <1>7, <2>1, <2>2, <2>3, <2>4, <2>5, <2>6, <2>7, <2>8, <2>9
<1>8. QED
  BY <1>5, <1>6, <1>7

\* The identities the page states of a subtraction.
LEMMA SubtractionCompares ==
    ASSUME NEW a \in Word, NEW b \in Word
    PROVE  /\ ALU(1, a, b).carry = ~(a < b)
           /\ (ALU(1, a, b).negative # ALU(1, a, b).overflow) = (SignedOf(a) < SignedOf(b))
<1>1. PICK H \in Nat \ {0} : H = 2^(Width - 1) /\ 2^Width = 2 * H
  BY TopIs
<1>2. a \in Nat /\ b \in Nat /\ a < 2 * H /\ b < 2 * H
  BY <1>1, WordsAreRows
<1>3. PICK d \in Word : d = WordOf(a - b)
  <2>1. a - b \in Int
    BY <1>2
  <2>2. WordOf(a - b) \in Word
    BY <2>1, WordOfIs
  <2>3. QED
    BY <2>2
<1>4. d \in Nat /\ d = IF a >= b THEN a - b ELSE a - b + 2 * H
  <2>1. d = (a - b) % (2 * H)
    BY <1>1, <1>3 DEF WordOf
  <2>2. CASE a >= b
    <3>1. PICK u \in 0 .. 2 * H - 1 : u = a - b
      BY <1>2, <2>2
    <3>2. u % (2 * H) = u
      OBVIOUS
    <3>3. QED
      BY <2>1, <2>2, <3>1, <3>2
  <2>3. CASE a < b
    <3>1. PICK u \in 0 .. 2 * H - 1, x \in Int : u = a - b + 2 * H /\ x = a - b
      BY <1>2, <2>3
    <3>2. x = (-1) * (2 * H) + u /\ 2 * H \in Nat \ {0}
      BY <3>1
    <3>3. x % (2 * H) = u
      BY <3>2, DivMod
    <3>4. QED
      BY <1>2, <2>1, <2>3, <3>1, <3>3
  <2>4. QED
    BY <1>2, <2>2, <2>3
<1>5. /\ BitOf(a, Width - 1) <=> a >= H
      /\ BitOf(b, Width - 1) <=> b >= H
      /\ BitOf(d, Width - 1) <=> d >= H
  BY <1>1, TopIs
<1>6. /\ ALU(1, a, b).carry = (a >= b)
      /\ ALU(1, a, b).negative = BitOf(d, Width - 1)
      /\ ALU(1, a, b).overflow = (BitOf(a, Width - 1) # BitOf(b, Width - 1)
                                  /\ BitOf(d, Width - 1) # BitOf(a, Width - 1))
  <2>1. ALU(1, a, b) = Flags(d, a >= b,
            BitOf(a, Width - 1) # BitOf(b, Width - 1)
            /\ BitOf(d, Width - 1) # BitOf(a, Width - 1))
    BY <1>3, ALUIs
  <2>2. QED
    BY <2>1 DEF Flags
<1>7. PICK x \in BOOLEAN, y \in BOOLEAN, z \in BOOLEAN :
          /\ x = BitOf(a, Width - 1) /\ y = BitOf(b, Width - 1) /\ z = BitOf(d, Width - 1)
          /\ x <=> a >= H
          /\ y <=> b >= H
          /\ z <=> d >= H
  <2>1. /\ BitOf(a, Width - 1) \in BOOLEAN /\ BitOf(b, Width - 1) \in BOOLEAN
        /\ BitOf(d, Width - 1) \in BOOLEAN
    BY DEF BitOf
  <2>2. QED
    BY <1>5, <2>1
<1>8. SignedOf(a) = (IF a < H THEN a ELSE a - 2 * H)
      /\ SignedOf(b) = IF b < H THEN b ELSE b - 2 * H
  BY <1>1 DEF SignedOf
<1>9. (z # (x # y /\ z # x)) <=> (SignedOf(a) < SignedOf(b))
  BY <1>2, <1>4, <1>7, <1>8
<1>10. (a >= b) = ~(a < b)
  BY <1>2
<1>11. QED
  BY <1>6, <1>7, <1>9, <1>10

\* The stages shown add up to the distance of the shift.
LEMMA StagesShown ==
    ASSUME NEW p, p.a \in Word, p.b \in Word
    PROVE  NumberOn([k \in 0 .. 4 |-> k \in ShifterStages(p)], 5) = p.b % Width
<1>1. PICK x \in Nat : x = p.b % Width /\ x = shiftAmt(p) /\ x < Width
  <2>1. p.b \in Nat /\ Width \in Nat \ {0}
    BY WordsAreRows, Powers
  <2>2. p.b % Width \in Nat /\ p.b % Width < Width
    BY <2>1
  <2>3. QED
    BY <2>2 DEF shiftAmt
<1>2. /\ 5 \in 0 .. 2 * Width + 2 /\ 2^5 = 32 /\ Width <= 32
      /\ \A k \in 0 .. 4 : 2^k \in Nat \ {0}
  <2>1. Width \in Nat /\ Width >= 8 /\ 4 \in 0 .. 2 * Width + 1 /\ 4 + 1 = 5 /\ 2^4 = 16
    BY Powers
  <2>2. 2^5 = 2 * 2^4
    BY <2>1, Powers
  <2>3. \A k \in 0 .. 4 : 2^k \in Nat \ {0}
    BY <2>1, Powers
  <2>4. QED
    BY <2>1, <2>2, <2>3, WidthAssumption
<1> DEFINE wires == [k \in 0 .. 4 |-> k \in ShifterStages(p)]
<1>3. PICK n \in 0 .. 2 * Width + 2 : n = 5 /\ n - 1 = 4
  BY <1>2
<1>4. ASSUME NEW k \in 0 .. n - 1 PROVE wires[k] <=> BitOf(x, k)
  <2>1. k \in 0 .. 4
    BY <1>3
  <2>2. wires[k] <=> 2^k < Width /\ Bit(x, k) = 1
    BY <1>1, <2>1 DEF ShifterStages
  <2>3. Bit(x, k) = 1 <=> BitOf(x, k)
    BY DEF Bit, BitOf
  <2>4. PICK m \in Nat \ {0} : m = 2^k
    BY <1>2, <2>1
  <2>5. CASE m < Width
    BY <2>2, <2>3, <2>4, <2>5
  <2>6. CASE ~(m < Width)
    <3>1. Width \in Nat
      BY Powers
    <3>2. x = 0 * m + x /\ x \in 0 .. m - 1 /\ x \in Int
      BY <1>1, <2>6, <3>1
    <3>3. x \div m = 0
      BY <3>2, DivMod
    <3>4. ~BitOf(x, k)
      BY <2>4, <3>3 DEF BitOf
    <3>5. QED
      BY <2>2, <2>4, <2>6, <3>4
  <2>7. QED
    BY <2>5, <2>6
<1> HIDE DEF wires
<1>5. NumberOn(wires, n) = x % 2^n
  BY <1>4, NumberIs
<1>6. x % 32 = x
  <2>1. x < 32
    BY <1>1, <1>2, Powers
  <2>2. QED
    BY <2>1
<1>7. QED
  BY <1>1, <1>2, <1>3, <1>5, <1>6 DEF wires

\* The ALU lab shows what the ALU answers.
LEMMA AluShown ==
    ASSUME NEW p, p.a \in Word, p.b \in Word, p.selectedOpcode \in 0 .. 10
    PROVE  AluMatches(p)
<1>1. ArchitectureResult(p) = ALU(p.selectedOpcode, p.a, p.b)
  BY ResultShown
<1>2. ASSUME p.selectedOpcode = 6
      PROVE  ArchitectureResult(p).result =
                 p.a \div 2^NumberOn([k \in 0 .. 4 |-> k \in ShifterStages(p)], 5)
  <2>1. ALU(6, p.a, p.b) = Flags(p.a \div 2^(p.b % Width), FALSE, FALSE)
    BY ALUIs
  <2>2. ArchitectureResult(p).result = p.a \div 2^(p.b % Width)
    BY <1>1, <1>2, <2>1 DEF Flags
  <2>3. QED
    BY <2>2, StagesShown
<1>3. ASSUME p.selectedOpcode = 1
      PROVE  /\ Comparisons(p).SLT = (ArchitectureResult(p).negative
                                          # ArchitectureResult(p).overflow)
             /\ Comparisons(p).SLTU = ~ArchitectureResult(p).carry
  <2>1. PICK r : r = ALU(1, p.a, p.b) /\ r = ArchitectureResult(p)
    BY <1>1, <1>3
  <2>2. r.carry = ~(p.a < p.b) /\ (r.negative # r.overflow) = (SignedOf(p.a) < SignedOf(p.b))
    BY <2>1, SubtractionCompares
  <2>3. Comparisons(p).SLT = (SignedOf(p.a) < SignedOf(p.b)) /\ Comparisons(p).SLTU = (p.a < p.b)
    BY DEF Comparisons
  <2>4. (p.a < p.b) = ~(~(p.a < p.b))
    BY WordsAreRows
  <2>5. QED
    BY <2>1, <2>2, <2>3, <2>4
<1>4. ASSUME p.selectedOpcode \in {8, 9}
      PROVE  ArchitectureResult(p).result =
                 Flag(IF p.selectedOpcode = 8 THEN Comparisons(p).SLT ELSE Comparisons(p).SLTU)
  <2>1. /\ ALU(8, p.a, p.b).result = Flag(SignedOf(p.a) < SignedOf(p.b))
        /\ ALU(9, p.a, p.b).result = Flag(p.a < p.b)
    <3>1. /\ ALU(8, p.a, p.b) = Flags(Flag(SignedOf(p.a) < SignedOf(p.b)), FALSE, FALSE)
          /\ ALU(9, p.a, p.b) = Flags(Flag(p.a < p.b), FALSE, FALSE)
      BY ALUIs
    <3>2. QED
      BY <3>1 DEF Flags
  <2>2. Comparisons(p).SLT = (SignedOf(p.a) < SignedOf(p.b)) /\ Comparisons(p).SLTU = (p.a < p.b)
    BY DEF Comparisons
  <2>3. QED
    BY <1>1, <1>4, <2>1, <2>2
<1>5. QED
  BY <1>1, <1>2, <1>3, <1>4 DEF AluMatches

-----------------------------------------------------------------------------
(* Reversible gates.                                                       *)

\* The two logic levels, and three wires.
Level == {0, 1}
Bits == [1 .. 3 -> Level]

\* A row of a truth table: its first half, its second half, and the row from both.
LEMMA HalvesOfRow ==
    ASSUME NEW x, NEW y, NEW z, NEW u, NEW v, NEW w
    PROVE  /\ SubSeq(<<x, y, z, u, v, w>>, 1, 3) = <<x, y, z>>
           /\ SubSeq(<<x, y, z, u, v, w>>, 4, 6) = <<u, v, w>>
           /\ <<x, y, z>> \o <<u, v, w>> = <<x, y, z, u, v, w>>
<1>1. PICK row, left, right :
          row = <<x, y, z, u, v, w>> /\ left = <<x, y, z>> /\ right = <<u, v, w>>
  OBVIOUS
<1>0. PICK S : S = {x, y, z, u, v, w}
  OBVIOUS
<1>2. /\ row \in Seq(S) /\ left \in Seq(S) /\ right \in Seq(S)
      /\ Len(row) = 6 /\ Len(left) = 3 /\ Len(right) = 3
      /\ row[1] = x /\ row[2] = y /\ row[3] = z /\ row[4] = u /\ row[5] = v /\ row[6] = w
      /\ left[1] = x /\ left[2] = y /\ left[3] = z /\ right[1] = u /\ right[2] = v /\ right[3] = w
  BY <1>0, <1>1
<1>3. \A i \in 1 .. 6 : row[i] \in S
  <2>1. \A i \in 1 .. 6 : i = 1 \/ i = 2 \/ i = 3 \/ i = 4 \/ i = 5 \/ i = 6
    OBVIOUS
  <2>2. QED
    BY <1>0, <1>2, <2>1
<1>4. SubSeq(row, 1, 3) = left
  <2>1. /\ SubSeq(row, 1, 3) \in Seq(S) /\ Len(SubSeq(row, 1, 3)) = 3
        /\ \A i \in 1 .. 3 : SubSeq(row, 1, 3)[i] = row[1 + i - 1]
    BY <1>3, SubSeqProperties
  <2>2. \A i \in 1 .. 3 : SubSeq(row, 1, 3)[i] = left[i]
    BY <1>2, <2>1
  <2>3. QED
    BY <1>2, <2>1, <2>2, SeqEqual
<1>5. SubSeq(row, 4, 6) = right
  <2>1. /\ SubSeq(row, 4, 6) \in Seq(S) /\ Len(SubSeq(row, 4, 6)) = 3
        /\ \A i \in 1 .. 3 : SubSeq(row, 4, 6)[i] = row[4 + i - 1]
    BY <1>3, SubSeqProperties
  <2>2. \A i \in 1 .. 3 : SubSeq(row, 4, 6)[i] = right[i]
    BY <1>2, <2>1
  <2>3. QED
    BY <1>2, <2>1, <2>2, SeqEqual
<1>6. left \o right = row
  <2>1. PICK both : both = left \o right
    OBVIOUS
  <2>2. /\ both \in Seq(S) /\ Len(both) = Len(left) + Len(right)
        /\ \A i \in 1 .. Len(left) + Len(right) :
               both[i] = IF i <= Len(left) THEN left[i] ELSE right[i - Len(left)]
    BY <1>2, <2>1, ConcatProperties
  <2>3. /\ both \in Seq(S) /\ row \in Seq(S) /\ Len(both) = Len(row)
        /\ \A i \in 1 .. Len(both) : both[i] = row[i]
    BY <1>2, <2>2
  <2>4. both = row
    BY <2>3, SeqEqual
  <2>5. QED
    BY <2>1, <2>4
<1>7. QED
  BY <1>1, <1>4, <1>5, <1>6

\* Three bits.
LEMMA ThreeBits == \A in \in Bits : in = <<in[1], in[2], in[3]>>
  BY DEF Bits

\* Three levels as three wires.
Row3(in, x, y, z) == in \in Bits /\ in = <<x, y, z>> /\ in[1] = x /\ in[2] = y /\ in[3] = z

\* There are such wires.
LEMMA BitsOf ==
    ASSUME NEW x \in Level, NEW y \in Level, NEW z \in Level
    PROVE  \E in : Row3(in, x, y, z)
<1>1. <<x, y, z>> \in [1 .. 3 -> Level]
  OBVIOUS
<1>2. \E in : in = <<x, y, z>> /\ in \in Bits
  BY <1>1, Zenon DEF Bits
<1>3. QED
  BY <1>2 DEF Row3

\* Fredkin's gate: its second output, and with the inputs exchanged its third.
Swapped(x, y, z) == IF x = 1 THEN z ELSE y

\* A truth table of three inputs and three outputs, no outputs of which are those of two
\* rows, and a row of it.
TruthTable(table) ==
    \A row \in table : \E a, b, c, d, e, f \in Level : row = <<a, b, c, d, e, f>>

OneToOne(table) ==
    \A a, b, c, x, y, z, d, e, f \in Level :
        <<a, b, c, d, e, f>> \in table /\ <<x, y, z, d, e, f>> \in table
            => a = x /\ b = y /\ c = z

\* What Fredkin's and Toffoli's gate answer.
FredkinRow(x, y, z, u, v, w) == u = x /\ v = Swapped(x, y, z) /\ w = Swapped(x, z, y)
ToffoliRow(x, y, z, u, v, w) == u = x /\ v = y /\ w = Flag(z # Flag(x = 1 /\ y = 1))

Answers(table, in, out) ==
    \A d, e, f \in Level :
        <<in[1], in[2], in[3], d, e, f>> \in table <=> d = out[1] /\ e = out[2] /\ f = out[3]

\* The rows of Fredkin's table.
LEMMA FredkinRows ==
    /\ TruthTable(FredkinTable)
    /\ \A x, y, z, u, v, w \in Level :
          <<x, y, z, u, v, w>> \in FredkinTable <=> FredkinRow(x, y, z, u, v, w)
  BY DEF FredkinTable, Level, TruthTable, Swapped, FredkinRow

\* The rows of Toffoli's table.
LEMMA ToffoliRows ==
    /\ TruthTable(ToffoliTable)
    /\ \A x, y, z, u, v, w \in Level :
          <<x, y, z, u, v, w>> \in ToffoliTable <=> ToffoliRow(x, y, z, u, v, w)
  BY DEF ToffoliTable, Level, TruthTable, Flag, ToffoliRow

\* One gate: the outputs shown, and a table whose rows are the gate's.
LEMMA TableShows ==
    ASSUME NEW table, NEW in \in Bits, NEW out \in Bits, TruthTable(table), Answers(table, in, out)
    PROVE  ActiveRows(table, in) = {in \o out}
<1>1. PICK x \in Level, y \in Level, z \in Level :
          in = <<x, y, z>> /\ x = in[1] /\ y = in[2] /\ z = in[3]
  BY ThreeBits DEF Bits
<1>2. PICK u \in Level, v \in Level, w \in Level :
          out = <<u, v, w>> /\ u = out[1] /\ v = out[2] /\ w = out[3]
  BY ThreeBits DEF Bits
<1>3. \A d, e, f \in Level : <<x, y, z, d, e, f>> \in table <=> d = u /\ e = v /\ f = w
  BY <1>1, <1>2 DEF Answers
<1>4. <<x, y, z>> \o <<u, v, w>> = <<x, y, z, u, v, w>>
      /\ SubSeq(<<x, y, z, u, v, w>>, 1, 3) = <<x, y, z>>
  BY HalvesOfRow
<1>5. <<x, y, z, u, v, w>> \in ActiveRows(table, <<x, y, z>>)
  <2>1. <<x, y, z, u, v, w>> \in table
    BY <1>3, Zenon
  <2>2. QED
    BY <1>4, <2>1 DEF ActiveRows
<1>6. ASSUME NEW row \in table, SubSeq(row, 1, 3) = <<x, y, z>>
      PROVE  row = <<x, y, z, u, v, w>>
  <2>1. PICK a \in Level, b \in Level, c \in Level, d \in Level, e \in Level, f \in Level :
            row = <<a, b, c, d, e, f>>
    BY Zenon DEF TruthTable
  <2>2. /\ SubSeq(<<a, b, c, d, e, f>>, 1, 3) = <<a, b, c>>
        /\ SubSeq(<<a, b, c, d, e, f>>, 4, 6) = <<d, e, f>>
        /\ <<a, b, c>> \o <<d, e, f>> = <<a, b, c, d, e, f>>
    BY HalvesOfRow
  <2>3. <<a, b, c>> = <<x, y, z>>
    BY <1>6, <2>1, <2>2
  <2>4. a = x /\ b = y /\ c = z
    BY <2>3
  <2>5. row = <<x, y, z, d, e, f>> /\ <<x, y, z, d, e, f>> \in table
    BY <1>6, <2>1, <2>4
  <2>6. d = u /\ e = v /\ f = w
    BY <1>3, <2>5, Zenon
  <2>7. QED
    BY <2>5, <2>6
<1>7. QED
  BY <1>1, <1>2, <1>4, <1>5, <1>6 DEF ActiveRows

\* A table none of whose rows share their second half is one to one.
LEMMA TableInverts ==
    ASSUME NEW table, TruthTable(table), OneToOne(table)
    PROVE  \A r, s \in table : SubSeq(r, 4, 6) = SubSeq(s, 4, 6) => r = s
<1> SUFFICES ASSUME NEW r \in table, NEW s \in table, SubSeq(r, 4, 6) = SubSeq(s, 4, 6)
             PROVE  r = s
  OBVIOUS
<1>1. PICK a \in Level, b \in Level, c \in Level, d \in Level, e \in Level, f \in Level :
          r = <<a, b, c, d, e, f>>
  BY Zenon DEF TruthTable
<1>2. PICK x \in Level, y \in Level, z \in Level, u \in Level, v \in Level, w \in Level :
          s = <<x, y, z, u, v, w>>
  BY Zenon DEF TruthTable
<1>3. /\ SubSeq(<<a, b, c, d, e, f>>, 1, 3) = <<a, b, c>>
      /\ SubSeq(<<a, b, c, d, e, f>>, 4, 6) = <<d, e, f>>
      /\ <<a, b, c>> \o <<d, e, f>> = <<a, b, c, d, e, f>>
      /\ SubSeq(<<x, y, z, u, v, w>>, 1, 3) = <<x, y, z>>
      /\ SubSeq(<<x, y, z, u, v, w>>, 4, 6) = <<u, v, w>>
      /\ <<x, y, z>> \o <<u, v, w>> = <<x, y, z, u, v, w>>
  BY HalvesOfRow
<1>4. <<d, e, f>> = <<u, v, w>>
  BY <1>1, <1>2, <1>3
<1>5. d = u /\ e = v /\ f = w
  BY <1>4
<1>6. a = x /\ b = y /\ c = z
  <2>1. <<a, b, c, d, e, f>> \in table /\ <<x, y, z, d, e, f>> \in table
    BY <1>1, <1>2, <1>5
  <2>2. QED
    BY <2>1, Zenon DEF OneToOne
<1>7. QED
  BY <1>1, <1>2, <1>5, <1>6

\* Both gates can be undone.
LEMMA TablesInvert == OneToOne(FredkinTable) /\ OneToOne(ToffoliTable)
<1>1. OneToOne(FredkinTable)
  <2>1. \A a, b, c, x, y, z, d, e, f \in Level :
            <<a, b, c, d, e, f>> \in FredkinTable /\ <<x, y, z, d, e, f>> \in FredkinTable
                => a = x /\ b = y /\ c = z
    <3> TAKE a \in Level, b \in Level, c \in Level, x \in Level, y \in Level, z \in Level,
             d \in Level, e \in Level, f \in Level
    <3> HAVE <<a, b, c, d, e, f>> \in FredkinTable /\ <<x, y, z, d, e, f>> \in FredkinTable
    <3>1. FredkinRow(a, b, c, d, e, f)
      BY FredkinRows, Zenon
    <3>2. FredkinRow(x, y, z, d, e, f)
      BY FredkinRows, Zenon
    <3>3. QED
      BY <3>1, <3>2 DEF FredkinRow, Swapped, Level
  <2>2. QED
    BY <2>1 DEF OneToOne
<1>2. OneToOne(ToffoliTable)
  <2>1. \A a, b, c, x, y, z, d, e, f \in Level :
            <<a, b, c, d, e, f>> \in ToffoliTable /\ <<x, y, z, d, e, f>> \in ToffoliTable
                => a = x /\ b = y /\ c = z
    <3> TAKE a \in Level, b \in Level, c \in Level, x \in Level, y \in Level, z \in Level,
             d \in Level, e \in Level, f \in Level
    <3> HAVE <<a, b, c, d, e, f>> \in ToffoliTable /\ <<x, y, z, d, e, f>> \in ToffoliTable
    <3>1. ToffoliRow(a, b, c, d, e, f)
      BY ToffoliRows, Zenon
    <3>2. ToffoliRow(x, y, z, d, e, f)
      BY ToffoliRows, Zenon
    <3>3. QED
      BY <3>1, <3>2 DEF ToffoliRow, Flag, Level
  <2>2. QED
    BY <2>1 DEF OneToOne
<1>3. QED
  BY <1>1, <1>2

\* The gates lab shows what the gates do.
LEMMA GatesShown ==
    ASSUME NEW p, p.fredkin \in Bits, p.toffoli \in Bits
    PROVE  GatesMatch(p)
<1>1. PICK x \in Level, y \in Level, z \in Level : p.fredkin = <<x, y, z>>
  <2>1. p.fredkin = <<p.fredkin[1], p.fredkin[2], p.fredkin[3]>>
    BY ThreeBits
  <2>2. p.fredkin[1] \in Level /\ p.fredkin[2] \in Level /\ p.fredkin[3] \in Level
    BY DEF Bits, Level
  <2>3. QED
    BY <2>1, <2>2
<1>2. PICK i \in Level, j \in Level, k \in Level : p.toffoli = <<i, j, k>>
  <2>1. p.toffoli = <<p.toffoli[1], p.toffoli[2], p.toffoli[3]>>
    BY ThreeBits
  <2>2. p.toffoli[1] \in Level /\ p.toffoli[2] \in Level /\ p.toffoli[3] \in Level
    BY DEF Bits, Level
  <2>3. QED
    BY <2>1, <2>2
<1>3. PICK v \in Level, w \in Level :
          v = Swapped(x, y, z) /\ w = Swapped(x, z, y)
  BY DEF Level, Swapped
<1>4. FredkinOutputs(p.fredkin) = <<x, v, w>>
  BY <1>1, <1>3 DEF FredkinOutputs, Swapped
<1>5. PICK t \in Level : t = Flag(k # Flag(i = 1 /\ j = 1))
  BY DEF Flag, Level
<1>6. ToffoliOutputs(p.toffoli) = <<i, j, t>>
  <2>1. PICK g \in Level : g = Flag(i = 1 /\ j = 1)
    BY DEF Flag, Level
  <2>2. i & j = g /\ k ^^ g = t
    BY <1>5, <2>1, LogicOnBits DEF Level
  <2>3. QED
    BY <1>2, <2>2 DEF ToffoliOutputs
<1>7. /\ Flag(x = 1) = x /\ Flag(IF x = 1 THEN z = 1 ELSE y = 1) = v
      /\ Flag(IF x = 1 THEN y = 1 ELSE z = 1) = w
      /\ Flag(i = 1) = i /\ Flag(j = 1) = j /\ Flag((k = 1) # (i = 1 /\ j = 1)) = t
  BY <1>3, <1>5 DEF Flag, Level, Swapped
<1>8. <<Flag(Fredkin(x = 1, y = 1, z = 1).p), Flag(Fredkin(x = 1, y = 1, z = 1).q),
        Flag(Fredkin(x = 1, y = 1, z = 1).r)>> = <<x, v, w>>
  BY <1>7 DEF Fredkin
<1>9. <<Flag(Toffoli(i = 1, j = 1, k = 1).p), Flag(Toffoli(i = 1, j = 1, k = 1).q),
        Flag(Toffoli(i = 1, j = 1, k = 1).r)>> = <<i, j, t>>
  BY <1>7 DEF Toffoli
<1>10. /\ [n \in 1 .. 3 |-> p.fredkin[n] = 1][1] = (x = 1)
       /\ [n \in 1 .. 3 |-> p.fredkin[n] = 1][2] = (y = 1)
       /\ [n \in 1 .. 3 |-> p.fredkin[n] = 1][3] = (z = 1)
       /\ [n \in 1 .. 3 |-> p.toffoli[n] = 1][1] = (i = 1)
       /\ [n \in 1 .. 3 |-> p.toffoli[n] = 1][2] = (j = 1)
       /\ [n \in 1 .. 3 |-> p.toffoli[n] = 1][3] = (k = 1)
  BY <1>1, <1>2
<1>11. ActiveRows(FredkinTable, p.fredkin) = {p.fredkin \o <<x, v, w>>}
  <2>1. ASSUME NEW d \in Level, NEW e \in Level, NEW f \in Level
        PROVE  <<x, y, z, d, e, f>> \in FredkinTable <=> d = x /\ e = v /\ f = w
    <3>1. <<x, y, z, d, e, f>> \in FredkinTable <=> FredkinRow(x, y, z, d, e, f)
      BY FredkinRows, Zenon
    <3>2. QED
      BY <1>3, <3>1 DEF FredkinRow
  <2>2. PICK in : Row3(in, x, y, z)
    BY BitsOf, Zenon
  <2>3. PICK out : Row3(out, x, v, w)
    BY BitsOf, Zenon
  <2>4. Answers(FredkinTable, in, out)
    BY <2>1, <2>2, <2>3 DEF Answers, Row3
  <2>5. TruthTable(FredkinTable)
    BY FredkinRows
  <2>6. ActiveRows(FredkinTable, in) = {in \o out}
    BY <2>2, <2>3, <2>4, <2>5, TableShows DEF Row3
  <2>7. QED
    BY <1>1, <2>2, <2>3, <2>6 DEF Row3
<1>12. ActiveRows(ToffoliTable, p.toffoli) = {p.toffoli \o <<i, j, t>>}
  <2>1. ASSUME NEW d \in Level, NEW e \in Level, NEW f \in Level
        PROVE  <<i, j, k, d, e, f>> \in ToffoliTable <=> d = i /\ e = j /\ f = t
    <3>1. <<i, j, k, d, e, f>> \in ToffoliTable <=> ToffoliRow(i, j, k, d, e, f)
      BY ToffoliRows, Zenon
    <3>2. QED
      BY <1>5, <3>1 DEF ToffoliRow
  <2>2. PICK in : Row3(in, i, j, k)
    BY BitsOf, Zenon
  <2>3. PICK out : Row3(out, i, j, t)
    BY BitsOf, Zenon
  <2>4. Answers(ToffoliTable, in, out)
    BY <2>1, <2>2, <2>3 DEF Answers, Row3
  <2>5. TruthTable(ToffoliTable)
    BY ToffoliRows
  <2>6. ActiveRows(ToffoliTable, in) = {in \o out}
    BY <2>2, <2>3, <2>4, <2>5, TableShows DEF Row3
  <2>7. QED
    BY <1>2, <2>2, <2>3, <2>6 DEF Row3
<1>13. /\ \A r, s \in FredkinTable : SubSeq(r, 4, 6) = SubSeq(s, 4, 6) => r = s
       /\ \A r, s \in ToffoliTable : SubSeq(r, 4, 6) = SubSeq(s, 4, 6) => r = s
  BY FredkinRows, ToffoliRows, TablesInvert, TableInverts
<1>14. x + v + w = x + y + z
  BY <1>3 DEF Level, Swapped
<1>15. /\ p.fredkin[1] = x /\ p.fredkin[2] = y /\ p.fredkin[3] = z
       /\ FredkinOutputs(p.fredkin)[1] = x /\ FredkinOutputs(p.fredkin)[2] = v
       /\ FredkinOutputs(p.fredkin)[3] = w
  BY <1>1, <1>4
<1>16. QED
  BY <1>4, <1>6, <1>8, <1>9, <1>10, <1>11, <1>12, <1>13, <1>14, <1>15 DEF GatesMatch

-----------------------------------------------------------------------------
(* The telemetry.                                                          *)

Counters(t) ==
    /\ t.reversibleEnergy \in Nat /\ t.claSwitching \in Nat /\ t.multiplierThermal \in Nat
    /\ t.edpConfig \in Nat
    /\ {"reversibleEnergy", "claSwitching", "multiplierThermal", "edpConfig", "previousResult"}
           \subseteq DOMAIN t

\* An operation adds to the counters.
LEMMA BlockCounts ==
    ASSUME NEW t, Counters(t), NEW opcode, NEW result
    PROVE  Counters(TelemetryBlock(t, opcode, result))
<1>1. \A x : PopCount(x) \in Nat
  <2>1. IsFiniteSet(Wires)
    BY Powers, FS_Interval DEF Wires
  <2>2. ASSUME NEW x PROVE PopCount(x) \in Nat
    <3>1. IsFiniteSet({i \in Wires : BitOf(x, i)})
      BY <2>1, FS_Subset
    <3>2. QED
      BY <3>1, FS_CardinalityType DEF PopCount
  <2>3. QED
    BY <2>2
<1>2. PICK n \in Nat : n = PopCount(result ^^ t.previousResult)
  BY <1>1
<1>3. PICK c \in Nat, m \in Nat :
          TelemetryBlock(t, opcode, result) =
              [t EXCEPT !.claSwitching = @ + c, !.multiplierThermal = @ + m,
                        !.previousResult = result]
  <2>1. PICK c \in Nat, m \in Nat :
            /\ c = IF ALUOpcode[opcode + 1] \in {"ADD", "SUB"} THEN n ELSE 0
            /\ m = IF ALUOpcode[opcode + 1] = "MUL" THEN n ELSE 0
    OBVIOUS
  <2>2. QED
    BY <1>2, <2>1 DEF TelemetryBlock
<1>4. QED
  BY <1>3 DEF Counters

\* The largest of some numbers.
LEMMA MaxIs ==
    ASSUME NEW S \in SUBSET Int, NEW m \in S, \A x \in S : x <= m
    PROVE  Max(S) = m
<1>1. \E x \in S : \A y \in S : x >= y
  OBVIOUS
<1>2. PICK n : n = Max(S)
  OBVIOUS
<1>3. n \in S /\ \A y \in S : n >= y
  BY <1>1, <1>2 DEF Max
<1>4. QED
  BY <1>2, <1>3

\* The length of a meter.
LEMMA Percents ==
    ASSUME NEW most \in Nat \ {0}
    PROVE  /\ \A x \in Nat : x <= most => (x * 100) \div most \in 0 .. 100
           /\ \A x, y \in Nat : x <= y => (x * 100) \div most <= (y * 100) \div most
<1>1. ASSUME NEW x \in Nat, NEW y \in Nat, x <= y
      PROVE  (x * 100) \div most <= (y * 100) \div most
  <2>1. PICK c \in Nat, d \in Nat : c = x * 100 /\ d = y * 100 /\ c <= d
    BY <1>1
  <2>2. PICK q \in Nat, r \in 0 .. most - 1 : q = c \div most /\ c = q * most + r
    BY DivModOf
  <2>3. PICK u \in Nat, v \in 0 .. most - 1 : u = d \div most /\ d = u * most + v
    BY DivModOf
  <2>4. q <= u
    <3>1. SUFFICES ASSUME q >= u + 1 PROVE FALSE
      OBVIOUS
    <3>2. q * most >= (u + 1) * most /\ (u + 1) * most = u * most + most
      BY <3>1
    <3>3. QED
      BY <2>1, <2>2, <2>3, <3>2
  <2>5. QED
    BY <2>1, <2>2, <2>3, <2>4
<1>2. ASSUME NEW x \in Nat, x <= most PROVE (x * 100) \div most \in 0 .. 100
  <2>1. (x * 100) \div most <= (most * 100) \div most
    BY <1>1, <1>2
  <2>2. (most * 100) \div most = 100
    <3>1. PICK z \in Int, h \in Int : z = most * 100 /\ h = 100 /\ z = h * most + 0
      OBVIOUS
    <3>2. z \div most = h
      BY <3>1, DivMod
    <3>3. QED
      BY <3>1, <3>2
  <2>3. x * 100 \in Nat /\ (x * 100) \div most \in Nat
    <3>1. PICK z \in Nat : z = x * 100
      OBVIOUS
    <3>2. z \div most \in Nat
      BY DivModOf
    <3>3. QED
      BY <3>1, <3>2
  <2>4. QED
    BY <2>1, <2>2, <2>3
<1>3. QED
  BY <1>1, <1>2

\* The keys of the telemetry.
Keys == {"rev_energy_acc", "cla_switching", "mul_thermal", "edp_current", "edp_config"}

\* What stands under the keys.
LEMMA TelemetryIs ==
    ASSUME NEW device, Counters(device), NEW t, t = Telemetry(device)
    PROVE  /\ \A key \in Keys : t[key] \in Nat
           /\ t.rev_energy_acc = device.reversibleEnergy
           /\ t.cla_switching = device.claSwitching
           /\ t.mul_thermal = device.multiplierThermal
           /\ t.edp_current = (device.reversibleEnergy + device.claSwitching
                                  + device.multiplierThermal) * device.edpConfig
           /\ t.edp_config = device.edpConfig
<1> USE DEF TelemetryRead, TelemetryAddress
<1>1. TelemetryRead(device, 0) = device.reversibleEnergy
  OBVIOUS
<1>2. TelemetryRead(device, 4) = device.claSwitching
  OBVIOUS
<1>3. TelemetryRead(device, 8) = device.multiplierThermal
  OBVIOUS
<1>4. TelemetryRead(device, 12) =
          (device.reversibleEnergy + device.claSwitching + device.multiplierThermal)
              * device.edpConfig
  OBVIOUS
<1>5. TelemetryRead(device, 16) = device.edpConfig
  OBVIOUS
<1>6. \A x, y, z, w \in Nat : (x + y + z) * w \in Nat
  OBVIOUS
<1> HIDE DEF TelemetryRead, TelemetryAddress
<1>7. QED
  BY <1>1, <1>2, <1>3, <1>4, <1>5, <1>6 DEF Counters, Telemetry, Keys

\* The rows of the lab and of the panel.
LEMMA TelemetryRows ==
    /\ ToSet(REGISTERS) = {[addrOffset |-> 0, key |-> "rev_energy_acc"],
           [addrOffset |-> 4, key |-> "cla_switching"], [addrOffset |-> 8, key |-> "mul_thermal"],
           [addrOffset |-> 12, key |-> "edp_current"], [addrOffset |-> 16, key |-> "edp_config"]}
    /\ ToSet(MMIO_REGS) = {[address |-> 0, key |-> "rev_energy_acc"],
           [address |-> 4, key |-> "cla_switching"], [address |-> 8, key |-> "mul_thermal"],
           [address |-> 12, key |-> "edp_current"], [address |-> 16, key |-> "edp_config"]}
<1>1. \A i \in 1 .. 5 : i = 1 \/ i = 2 \/ i = 3 \/ i = 4 \/ i = 5
  OBVIOUS
<1>2. DOMAIN REGISTERS = 1 .. 5 /\ DOMAIN MMIO_REGS = 1 .. 5
  BY DEF REGISTERS, MMIO_REGS
<1>3. QED
  BY <1>1, <1>2 DEF ToSet, REGISTERS, MMIO_REGS

\* Every meter fits its track, and the meters are in the order of what they show.
LEMMA MetersIn ==
    ASSUME NEW t, \A key \in Keys : t[key] \in Nat
    PROVE  \A r, s \in ToSet(REGISTERS) :
              /\ Meter(t, r.key) \in 3 .. 100
              /\ t[r.key] <= t[s.key] => Meter(t, r.key) <= Meter(t, s.key)
<1>1. PICK v \in Nat, w \in Nat, x \in Nat, y \in Nat, z \in Nat :
          /\ v = t["rev_energy_acc"] /\ w = t["cla_switching"] /\ x = t["mul_thermal"]
          /\ y = t["edp_current"] /\ z = t["edp_config"]
  BY DEF Keys
<1>2. {1} \union {t[r.key] : r \in ToSet(REGISTERS)} = {1, v, w, x, y, z}
  BY <1>1, TelemetryRows
<1>3. PICK most \in {1, v, w, x, y, z} : \A n \in {1, v, w, x, y, z} : n <= most
  <2>1. PICK i \in {1, v} : 1 <= i /\ v <= i
    OBVIOUS
  <2>2. PICK j \in {i, w} : i <= j /\ w <= j
    OBVIOUS
  <2>3. PICK k \in {j, x} : j <= k /\ x <= k
    OBVIOUS
  <2>4. PICK l \in {k, y} : k <= l /\ y <= l
    OBVIOUS
  <2>5. PICK m \in {l, z} : l <= m /\ z <= m
    OBVIOUS
  <2>6. m \in {1, v, w, x, y, z}
    BY <2>1, <2>2, <2>3, <2>4, <2>5
  <2>7. \A n \in {1, v, w, x, y, z} : n <= m
    BY <2>1, <2>2, <2>3, <2>4, <2>5
  <2>8. QED
    BY <2>6, <2>7
<1>4. most \in Nat \ {0} /\ \A key \in Keys : t[key] <= most
  BY <1>1, <1>3 DEF Keys
<1>5. Max({1} \union {t[r.key] : r \in ToSet(REGISTERS)}) = most
  <2>1. PICK S : S = {1, v, w, x, y, z}
    OBVIOUS
  <2>2. S \in SUBSET Int /\ most \in S /\ \A n \in S : n <= most
    BY <1>3, <2>1
  <2>3. Max(S) = most
    BY <2>2, MaxIs
  <2>4. QED
    BY <1>2, <2>1, <2>3
<1>6. ASSUME NEW n \in Nat PROVE Max({3, n}) = IF n >= 3 THEN n ELSE 3
  <2>1. PICK S, m : S = {3, n} /\ m = IF n >= 3 THEN n ELSE 3
    OBVIOUS
  <2>2. S \in SUBSET Int /\ m \in S /\ \A i \in S : i <= m
    BY <2>1
  <2>3. Max(S) = m
    BY <2>2, MaxIs
  <2>4. QED
    BY <2>1, <2>3
<1>7. ASSUME NEW key \in Keys
      PROVE  /\ (t[key] * 100) \div most \in 0 .. 100
             /\ Meter(t, key) = IF (t[key] * 100) \div most >= 3 THEN (t[key] * 100) \div most
                                ELSE 3
  <2>1. (t[key] * 100) \div most \in 0 .. 100
    BY <1>4, Percents
  <2>2. PICK n \in 0 .. 100 : n = (t[key] * 100) \div most
    BY <2>1
  <2>3. Meter(t, key) = Max({3, n})
    BY <1>5, <2>2 DEF Meter
  <2>4. QED
    BY <1>6, <2>2, <2>3
<1>8. ASSUME NEW key \in Keys, NEW other \in Keys
      PROVE  /\ Meter(t, key) \in 3 .. 100
             /\ t[key] <= t[other] => Meter(t, key) <= Meter(t, other)
  <2>1. PICK m \in 0 .. 100, n \in 0 .. 100 :
            m = (t[key] * 100) \div most /\ n = (t[other] * 100) \div most
    BY <1>7, Zenon
  <2>2. t[key] <= t[other] => m <= n
    BY <1>4, <2>1, Percents
  <2>3. Meter(t, key) = (IF m >= 3 THEN m ELSE 3) /\ Meter(t, other) = (IF n >= 3 THEN n ELSE 3)
    BY <1>7, <2>1
  <2>4. Meter(t, key) \in 3 .. 100
    BY <2>3
  <2>5. m <= n => (IF m >= 3 THEN m ELSE 3) <= (IF n >= 3 THEN n ELSE 3)
    OBVIOUS
  <2>6. QED
    BY <2>2, <2>3, <2>4, <2>5, Zenon
<1>9. \A r \in ToSet(REGISTERS) : r.key \in Keys
  BY TelemetryRows DEF Keys
<1>10. QED
  BY <1>8, <1>9

\* The telemetry lab and panel show what the device answers.
LEMMA TelemetryShown ==
    ASSUME NEW p, p.selectedAddress \in {0, 4, 8, 12, 16}, Counters(p.device),
           p.telemetry = Telemetry(p.device)
    PROVE  TelemetryMatches(p)
<1>1. PICK t, device : t = p.telemetry /\ device = p.device
  OBVIOUS
<1>2. t = Telemetry(device) /\ Counters(device)
  BY <1>1
<1>3. /\ t["rev_energy_acc"] = TelemetryRead(device, 0)
      /\ t["cla_switching"] = TelemetryRead(device, 4)
      /\ t["mul_thermal"] = TelemetryRead(device, 8)
      /\ t["edp_current"] = TelemetryRead(device, 12)
      /\ t["edp_config"] = TelemetryRead(device, 16)
  BY <1>2 DEF Telemetry
<1>4. PICK reg : reg = selectedReg(p)
  OBVIOUS
<1>5. reg \in ToSet(MMIO_REGS) /\ reg.address = p.selectedAddress
  <2>1. \E r \in ToSet(MMIO_REGS) : r.address = p.selectedAddress
    BY TelemetryRows
  <2>2. QED
    BY <1>4, <2>1 DEF selectedReg
<1>6. t[reg.key] = TelemetryRead(device, reg.address)
  BY <1>3, <1>5, TelemetryRows
<1>7. \A r \in ToSet(REGISTERS) : t[r.key] = TelemetryRead(device, r.addrOffset)
  BY <1>3, TelemetryRows
<1>8. t.edp_current = (t.rev_energy_acc + t.cla_switching + t.mul_thermal) * t.edp_config
  BY <1>2, TelemetryIs
<1>9. \A r, s \in ToSet(REGISTERS) :
          /\ Meter(t, r.key) \in 3 .. 100
          /\ t[r.key] <= t[s.key] => Meter(t, r.key) <= Meter(t, s.key)
  BY <1>2, TelemetryIs, MetersIn
<1>10. QED
  BY <1>1, <1>4, <1>5, <1>6, <1>7, <1>8, <1>9 DEF TelemetryMatches

-----------------------------------------------------------------------------
(* The Booth groups of two sliders.                                        *)

\* The positions of a slider.
Position == -128 .. 127

\* They are numbers of eight bits.
LEMMA PositionIs == \A x \in Position : x \in Int /\ -128 <= x /\ x <= 127
  BY DEF Position

\* A slider's number in the word: as it reads, and what Booth's window of it is past its end.
LEMMA SliderIs ==
    ASSUME NEW x \in Position
    PROVE  /\ InRange(x)
           /\ (x % 2^Width) - (((2 * x) \div 2^Width) % 2) * 2^Width = x
           /\ ((2 * x) \div 2^Width) % 8 \in {0, 7}
<1> x \in Int /\ -128 <= x /\ x <= 127
  BY PositionIs
<1>1. PICK H \in Nat \ {0} : H = 2^(Width - 1) /\ 2^Width = 2 * H /\ H >= 128
  BY Wide
<1>2. InRange(x)
  BY <1>1 DEF InRange, MinInt, MaxInt
<1>3. CASE x >= 0
  <2>1. x = 0 * (2 * H) + x /\ 2 * x = 0 * (2 * H) + 2 * x
        /\ x \in 0 .. 2 * H - 1 /\ 2 * x \in 0 .. 2 * H - 1 /\ 2 * H \in Nat \ {0}
    BY <1>1, <1>3
  <2>2. x % (2 * H) = x /\ (2 * x) \div (2 * H) = 0
    BY <2>1, DivMod
  <2>3. QED
    BY <1>1, <1>2, <2>2
<1>4. CASE x < 0
  <2>1. PICK M \in Nat \ {0}, y \in Int, r \in Int, s \in Int, k \in Int :
            /\ M = 2 * H /\ y = 2 * x /\ r = x + 2 * H /\ s = 2 * x + 2 * H /\ k = -1
            /\ r \in 0 .. M - 1 /\ s \in 0 .. M - 1 /\ x = k * M + r /\ y = k * M + s
    <3>1. /\ 2 * H \in Nat \ {0} /\ 2 * x \in Int /\ -1 \in Int
          /\ x + 2 * H \in 0 .. 2 * H - 1 /\ 2 * x + 2 * H \in 0 .. 2 * H - 1
          /\ x = (-1) * (2 * H) + (x + 2 * H) /\ 2 * x = (-1) * (2 * H) + (2 * x + 2 * H)
      BY <1>1, <1>4
    <3>2. QED
      BY <3>1
  <2>2. x % M = r /\ y \div M = k
    BY <2>1, DivMod
  <2>3. k % 2 = 1 /\ k % 8 = 7
    <3>1. PICK m \in Nat \ {0}, n \in Nat \ {0}, u \in Int, v \in Int :
              /\ m = 2 /\ n = 8 /\ u = 1 /\ v = 7
              /\ u \in 0 .. m - 1 /\ v \in 0 .. n - 1 /\ k = k * m + u /\ k = k * n + v
      BY <2>1
    <3>2. k % m = u /\ k % n = v
      BY <3>1, DivMod
    <3>3. QED
      BY <3>1, <3>2
  <2>4. QED
    BY <1>1, <1>2, <2>2, <2>3
<1>5. QED
  BY <1>3, <1>4

\* Past the first group, what the page shows is Booth's digit of the group.
LEMMA GroupsAre ==
    ASSUME NEW a \in Position, NEW x \in Position, page.valA = a, page.valB = x,
           NEW i \in 1 .. Width \div 2
    PROVE  boothGroups34(page)[i].partialProduct = a * Factor(BoothCode(x, i))
<1> a \in Int /\ x \in Int
  BY PositionIs
<1>1. PICK n \in Nat : n = Width \div 2 /\ Width = 2 * n /\ i <= n /\ 1 <= i /\ i \in Int
  BY Powers
<1>2. PICK k \in Nat : k = 2 * i - 1 /\ k < Width /\ k + 1 = 2 * i /\ i \in 0 .. n
  BY <1>1
<1>3. k % Width = k
  BY <1>1, <1>2
<1>4. PICK M \in Nat \ {0} : M = 2^k /\ 4^i = 2 * M
  <2>1. k \in 0 .. 2 * Width + 1 /\ k \in 0 .. 2 * Width + 2 /\ i \in 0 .. Width
    BY <1>1, <1>2
  <2>2. 2^k \in Nat \ {0} /\ 2^(k + 1) = 2 * 2^k /\ 4^i = 2^(2 * i)
    BY <2>1, Powers, Fours
  <2>3. QED
    BY <1>2, <2>2
<1>5. (2 * x) \div (2 * M) = x \div M
  <2>1. PICK c \in Int : c = 2 * x /\ c \div 2 = x
    OBVIOUS
  <2>2. c \div (2 * M) = (c \div 2) \div M
    BY DivDiv, 2 \in Nat \ {0}
  <2>3. QED
    BY <2>1, <2>2
<1>6. PICK d \in 0 .. 7 : d = (x \div M) % 8
  <2>1. x \div M \in Int
    BY DivModOf
  <2>2. QED
    BY <2>1
<1>7. ShiftRight(page.valB, 2 * i - 1) % 8 = d
  BY <1>2, <1>3, <1>4, <1>6 DEF ShiftRight
<1>8. BoothCode(x, i) = d
  BY <1>4, <1>5, <1>6 DEF BoothCode
<1>9. <<0, 1, 1, 2, -2, -1, -1, 0>>[d + 1] = Factor(d)
  <2>1. d \in {0, 1, 2, 3, 4, 5, 6, 7}
    OBVIOUS
  <2>2. QED
    BY <2>1 DEF Factor
<1>10. boothGroups34(page)[i].partialProduct = a * Factor(d)
  <2>1. i \in 0 .. Width \div 2
    BY <1>1
  <2>2. QED
    BY <1>7, <1>9, <2>1 DEF boothGroups34
<1>11. QED
  BY <1>8, <1>10

\* The partial products shown, at their places, are those of all groups but the first.
LEMMA GroupsAddUp ==
    ASSUME NEW a \in Position, NEW x \in Position, page.valA = a, page.valB = x
    PROVE  SumBelow([i \in 0 .. Width \div 2 - 1 |->
                         boothGroups34(page)[i + 1].partialProduct * 4^(i + 1)], Width \div 2)
               = a * x - a * Factor(BoothCode(x, 0))
<1> a \in Int /\ x \in Int
  BY PositionIs
<1>1. PICK n \in Nat : n = Width \div 2 /\ n >= 4 /\ n + 1 <= Width
  BY Powers
<1>2. PICK F : \A g \in 0 .. n : F[g] = Factor(BoothCode(x, g)) * 4^g
  <2>1. \A g \in 0 .. n : [j \in 0 .. n |-> Factor(BoothCode(x, j)) * 4^j][g]
                              = Factor(BoothCode(x, g)) * 4^g
    OBVIOUS
  <2>2. QED
    BY <2>1
<1>3. ASSUME NEW g \in 0 .. n PROVE F[g] \in Int /\ Factor(BoothCode(x, g)) \in Int /\ 4^g \in Int
  <2>1. 4^g \in Nat \ {0} /\ g \in 0 .. Width
    <3>1. g \in 0 .. Width
      BY <1>1, Powers
    <3>2. QED
      BY <3>1, Fours
  <2>2. PICK y \in Int : y = (2 * x) \div 4^g
    <3>1. PICK c \in Int, m \in Nat \ {0} : c = 2 * x /\ m = 4^g
      BY <2>1
    <3>2. c \div m \in Int
      BY DivModOf
    <3>3. QED
      BY <3>1, <3>2
  <2>3. Factor(y % 8) \in -2 .. 2
    BY BoothDigit
  <2>4. Factor(BoothCode(x, g)) \in Int
    <3>1. BoothCode(x, g) = y % 8
      BY <2>2 DEF BoothCode
    <3>2. QED
      BY <2>3, <3>1
  <2>5. QED
    BY <1>2, <2>1, <2>4
<1>4. SumBelow(F, n) = x
  <2>1. \A g \in Groups : F[g] = Factor(BoothCode(x, g)) * 4^g
    BY <1>1, <1>2 DEF Groups
  <2>2. x \in Int /\ n \in 0 .. Width \div 2
    BY <1>1
  <2>3. SumBelow(F, n) = (x % 4^n) - (((2 * x) \div 4^n) % 2) * 4^n
    BY <2>1, <2>2, BoothRecodes
  <2>4. QED
    BY <1>1, <2>3, Fours, SliderIs
<1>5. F[n] = 0
  <2>1. BoothCode(x, n) \in {0, 7}
    BY <1>1, Fours, SliderIs DEF BoothCode
  <2>2. Factor(BoothCode(x, n)) = 0
    BY <2>1 DEF Factor
  <2>3. F[n] = 0 * 4^n /\ 4^n \in Int
    BY <1>1, <1>2, <1>3, <2>2
  <2>4. QED
    BY <2>3
<1>6. PICK h : h = [i \in 0 .. n - 1 |->
                        boothGroups34(page)[i + 1].partialProduct * 4^(i + 1)]
  OBVIOUS
<1>7. ASSUME NEW i \in 0 .. n - 1 PROVE h[i] = a * F[i + 1]
  <2>1. i + 1 \in 1 .. Width \div 2 /\ i + 1 \in 0 .. n
    BY <1>1
  <2>2. PICK j : j = i + 1 /\ j \in 1 .. Width \div 2 /\ j \in 0 .. n
    BY <2>1, Zenon
  <2>3. boothGroups34(page)[j].partialProduct = a * Factor(BoothCode(x, j))
    BY <2>2, GroupsAre
  <2>4. PICK e \in Int, m \in Int : e = Factor(BoothCode(x, j)) /\ m = 4^j
    BY <1>3, <2>2
  <2>5. h[i] = (a * e) * m /\ F[j] = e * m
    BY <1>2, <1>6, <2>2, <2>3, <2>4
  <2>6. (a * e) * m = a * (e * m)
    OBVIOUS
  <2>7. QED
    BY <2>2, <2>5, <2>6
<1>8. PICK w : \A k \in 0 .. n : w[k] = a * (SumBelow(F, k + 1) - F[0])
  <2>1. \A k \in 0 .. n : [j \in 0 .. n |-> a * (SumBelow(F, j + 1) - F[0])][k]
                              = a * (SumBelow(F, k + 1) - F[0])
    OBVIOUS
  <2>2. QED
    BY <2>1
<1>9. \A k \in 0 .. n + 1 : SumBelow(F, k) \in Int
  <2> DEFINE P == {k \in Nat : k <= n + 1 => SumBelow(F, k) \in Int}
  <2>1. 0 \in P
    BY SumStep
  <2>2. ASSUME NEW k \in Nat, k \in P PROVE k + 1 \in P
    <3>1. SumBelow(F, k + 1) = SumBelow(F, k) + F[k]
      BY SumStep
    <3>2. k <= n => F[k] \in Int
      BY <1>3
    <3>3. QED
      BY <2>2, <3>1, <3>2
  <2> HIDE DEF P
  <2>3. Nat \subseteq P
    BY <2>1, <2>2, Induction
  <2>4. QED
    BY <1>1, <2>3 DEF P
<1>10. w[0] = 0
  <2>1. SumBelow(F, 0) = 0 /\ SumBelow(F, 0 + 1) = SumBelow(F, 0) + F[0] /\ F[0] \in Int
    BY <1>1, <1>3, SumStep
  <2>2. w[0] = a * (SumBelow(F, 0 + 1) - F[0]) /\ SumBelow(F, 0 + 1) - F[0] = 0
    BY <1>8, <2>1
  <2>3. QED
    BY <2>2
<1>11. ASSUME NEW k \in 0 .. n - 1 PROVE w[k + 1] = w[k] + h[k]
  <2>1. PICK j \in Nat : j = k + 1 /\ j \in 0 .. n /\ k \in 0 .. n
    OBVIOUS
  <2>2. SumBelow(F, j + 1) = SumBelow(F, j) + F[j]
    BY SumStep
  <2>3. PICK s \in Int, u \in Int, v \in Int : s = SumBelow(F, j) /\ u = F[j] /\ v = F[0]
    BY <1>3, <1>9, <2>1
  <2>4. w[j] = a * ((s + u) - v)
    BY <1>8, <2>1, <2>2, <2>3
  <2>5. w[k] = a * (s - v)
    BY <1>8, <2>1, <2>3
  <2>6. a * ((s + u) - v) = a * (s - v) + a * u
    OBVIOUS
  <2>7. QED
    BY <1>7, <2>1, <2>3, <2>4, <2>5, <2>6
<1>12. SumBelow(h, n) = w[n]
  <2>1. \A k \in 0 .. n : SumBelow(h, k) = w[k]
    BY <1>10, <1>11, SumIs
  <2>2. QED
    BY <2>1
<1>13. w[n] = a * x - a * Factor(BoothCode(x, 0))
  <2>1. SumBelow(F, n + 1) = SumBelow(F, n) + F[n]
    BY SumStep
  <2>2. PICK d \in Int : d = Factor(BoothCode(x, 0)) /\ F[0] = d
    <3>1. 4^0 = 1 /\ 0 \in 0 .. n
      BY <1>1, Fours
    <3>2. F[0] = Factor(BoothCode(x, 0)) * 1 /\ Factor(BoothCode(x, 0)) \in Int
      BY <1>2, <1>3, <3>1
    <3>3. QED
      BY <3>2
  <2>3. w[n] = a * (x - d)
    BY <1>4, <1>5, <1>8, <2>1, <2>2
  <2>4. a * (x - d) = a * x - a * d
    OBVIOUS
  <2>5. QED
    BY <2>2, <2>3, <2>4
<1>14. QED
  BY <1>1, <1>6, <1>12, <1>13

\* The booth lab: both words of the product, and the partial products.
LEMMA BoothShown ==
    ASSUME page.valA \in Position, page.valB \in Position
    PROVE  BoothAddsUp
<1>1. PICK a \in Position, x \in Position : a = page.valA /\ x = page.valB
  OBVIOUS
<1> a \in Int /\ x \in Int
  BY PositionIs
<1>2. Rv32M!Signed(WordOf(a)) = a /\ Rv32M!Signed(WordOf(x)) = x
  <2>1. InRange(a) /\ InRange(x)
    BY SliderIs
  <2>2. QED
    BY <2>1, Readings
<1>3. PICK m : m = 2^Width /\ m = Rv32M!WordModulus
  BY WordSizes
<1>4. /\ WordOf(a * x) = Rv32M!Multiply("MUL", WordOf(a), WordOf(x))
      /\ WordOf((a * x) \div 2^Width) = Rv32M!Multiply("MULH", WordOf(a), WordOf(x))
  BY <1>2, <1>3 DEF Rv32M!Multiply, Rv32M!Wrap, WordOf
<1>5. /\ Product(page).low = SignedOf(WordOf(a * x))
      /\ Product(page).high = SignedOf(WordOf((a * x) \div 2^Width))
  BY <1>1 DEF Product
<1>6. BoothCode(WordOf(x), 0) = BoothCode(x, 0) /\ BoothCode(x, 0) = (2 * x) % 8
  <2>1. PICK e \in Nat \ {0} : 2^Width = 8 * e
    <3>1. 3 \in 0 .. 2 * Width + 2 /\ Width - 3 \in 0 .. 2 * Width + 2
          /\ 3 + (Width - 3) <= 2 * Width + 2 /\ 3 + (Width - 3) = Width
      BY Powers
    <3>2. 2^(3 + (Width - 3)) = 2^3 * 2^(Width - 3) /\ 2^(Width - 3) \in Nat \ {0} /\ 2^3 = 8
      BY <3>1, Powers
    <3>3. QED
      BY <3>1, <3>2
  <2>2. PICK q \in Int, r \in Int : r = WordOf(x) /\ x = q * (8 * e) + r
    <3>1. PICK M \in Nat \ {0} : M = 8 * e
      OBVIOUS
    <3>2. x \div M \in Int /\ x % M \in Int /\ x = (x \div M) * M + (x % M)
      BY DivModOf
    <3>3. QED
      BY <2>1, <3>1, <3>2 DEF WordOf
  <2>3. PICK c \in Int, d \in Int, k \in Int : c = 2 * r /\ d = 2 * x /\ k = 2 * (q * e)
    OBVIOUS
  <2>4. d = c + k * 8
    <3>1. 2 * (q * (8 * e) + r) = 2 * r + (2 * (q * e)) * 8
      OBVIOUS
    <3>2. QED
      BY <2>2, <2>3, <3>1
  <2>5. d % 8 = c % 8
    BY <2>4, ModPlus, 8 \in Nat \ {0}
  <2>6. 4^0 = 1 /\ c \div 1 = c /\ d \div 1 = d
    BY Fours
  <2>7. QED
    BY <2>2, <2>3, <2>5, <2>6 DEF BoothCode
<1>7. BoothMultiple(BoothCode(WordOf(x), 0), a) = a * Factor(BoothCode(x, 0))
  <2>1. PICK y \in Int, d \in Int : y = 2 * x /\ d = Factor(y % 8)
    <3>1. PICK y \in Int : y = 2 * x
      OBVIOUS
    <3>2. Factor(y % 8) \in -2 .. 2
      BY BoothDigit
    <3>3. QED
      BY <3>1, <3>2
  <2>2. BoothMultiple(y % 8, a) = Factor(y % 8) * a
    BY BoothDigit
  <2>3. d * a = a * d
    OBVIOUS
  <2>4. QED
    BY <1>6, <2>1, <2>2, <2>3
<1>8. SumBelow([i \in 0 .. Width \div 2 - 1 |->
                    boothGroups34(page)[i + 1].partialProduct * 4^(i + 1)], Width \div 2)
          = a * x - a * Factor(BoothCode(x, 0))
  BY <1>1, GroupsAddUp
<1>9. /\ WordOf(page.valA * page.valB)
             = Rv32M!Multiply("MUL", WordOf(page.valA), WordOf(page.valB))
      /\ WordOf((page.valA * page.valB) \div 2^Width)
             = Rv32M!Multiply("MULH", WordOf(page.valA), WordOf(page.valB))
  BY <1>1, <1>4, Zenon
<1>10. QED
  BY <1>1, <1>4, <1>5, <1>7, <1>8, <1>9 DEF BoothAddsUp

-----------------------------------------------------------------------------
(* What the hooks of the labs that compute hold.                           *)

Addresses == {0, 4, 8, 12, 16}

\* Whatever is typed, toggled, picked and executed, the operands are words, the wires and the
\* carry are bits, the opcode is one of the eleven, the address one of the five, and the
\* telemetry on screen is that of the device.
ArithmeticInv ==
    /\ On("gates") =>
           {"lab", "fredkin", "toffoli"} \subseteq DOMAIN page
           /\ page.fredkin \in Bits /\ page.toffoli \in Bits
    /\ page.lab \in {"adders", "alu", "multipliers"} =>
           {"lab", "a", "b"} \subseteq DOMAIN page /\ page.a \in Word /\ page.b \in Word
    /\ On("adders") => "cin" \in DOMAIN page /\ page.cin \in Level
    /\ On("alu") => "selectedOpcode" \in DOMAIN page /\ page.selectedOpcode \in 0 .. 10
    /\ On("telemetry") =>
           {"lab", "selectedAddress", "telemetry", "device", "operations"} \subseteq DOMAIN page
           /\ page.selectedAddress \in Addresses
           /\ Counters(page.device) /\ page.telemetry = Telemetry(page.device)

\* The sliders stand at their positions.
BoothInv ==
    On("booth") =>
        {"lab", "valA", "valB"} \subseteq DOMAIN page
        /\ page.valA \in Position /\ page.valB \in Position

\* The buttons of the gates lab.
LEMMA GatesStepFollows ==
    ASSUME ArithmeticInv, Mounted,
           ToggleInput("fredkin") \/ ToggleInput("toffoli") \/ SelectGateView
    PROVE  ArithmeticInv'
<1> USE DEF On
<1>1. /\ page.lab = "gates" /\ {"lab", "fredkin", "toffoli"} \subseteq DOMAIN page
      /\ page.fredkin \in Bits /\ page.toffoli \in Bits
  BY DEF ArithmeticInv, ToggleInput, SelectGateView, Pick
<1>2. ASSUME NEW in \in Bits, NEW i \in 1 .. 3 PROVE [in EXCEPT ![i] = 1 - @] \in Bits
  BY DEF Bits, Level
<1>3. /\ page'.lab = "gates" /\ DOMAIN page' = DOMAIN page
      /\ page'.fredkin \in Bits /\ page'.toffoli \in Bits
  <2>1. ASSUME NEW gate \in {"fredkin", "toffoli"}, ToggleInput(gate)
        PROVE  /\ page'.lab = "gates" /\ DOMAIN page' = DOMAIN page
               /\ page'.fredkin \in Bits /\ page'.toffoli \in Bits
    <3>1. PICK i \in 1 .. 3 : page' = [page EXCEPT ![gate] = [page[gate] EXCEPT ![i] = 1 - @]]
      BY <2>1 DEF ToggleInput, Set
    <3>2. PICK out \in Bits : out = [page[gate] EXCEPT ![i] = 1 - @]
      BY <1>1, <1>2
    <3>3. page' = [page EXCEPT ![gate] = out]
      BY <3>1, <3>2
    <3>4. QED
      BY <1>1, <3>3
  <2>2. CASE SelectGateView
    BY <1>1, <2>2 DEF SelectGateView, Pick, Set
  <2>3. QED
    BY <2>1, <2>2
<1>4. QED
  BY <1>1, <1>3 DEF ArithmeticInv

\* The controls of the three labs with two operands.
LEMMA OperandsStepFollows ==
    ASSUME ArithmeticInv, Mounted,
           \/ EditOperand \/ ToggleCin \/ SelectAdderSchematic
           \/ SelectOpcode \/ SelectAluSchematic \/ SelectMultiplierSchematic
    PROVE  ArithmeticInv'
<1> USE DEF On
<1>1. /\ page.lab \in {"adders", "alu", "multipliers"} /\ {"lab", "a", "b"} \subseteq DOMAIN page
      /\ page.a \in Word /\ page.b \in Word
      /\ page.lab = "adders" => "cin" \in DOMAIN page /\ page.cin \in Level
      /\ page.lab = "alu" => "selectedOpcode" \in DOMAIN page /\ page.selectedOpcode \in 0 .. 10
  BY DEF ArithmeticInv, EditOperand, ToggleCin, SelectAdderSchematic, SelectOpcode,
         SelectAluSchematic, SelectMultiplierSchematic, Pick
<1> DEFINE Kept == /\ page'.lab = page.lab /\ DOMAIN page' = DOMAIN page
                   /\ page'.a \in Word /\ page'.b \in Word
                   /\ page.lab = "adders" => page'.cin \in Level
                   /\ page.lab = "alu" => page'.selectedOpcode \in 0 .. 10
<1>2. CASE EditOperand
  <2>1. PICK hook \in {"a", "b"}, x \in Operand : page' = [page EXCEPT ![hook] = x]
    BY <1>2 DEF EditOperand, Set
  <2>2. x \in Word
    BY OperandAssumption
  <2>3. Kept
    BY <1>1, <2>1, <2>2
  <2>4. QED
    BY <1>1, <2>3 DEF ArithmeticInv
<1>3. CASE ToggleCin
  <2>1. page' = [page EXCEPT !["cin"] = 1 - page.cin] /\ page.lab = "adders"
    BY <1>3 DEF ToggleCin, Set
  <2>2. PICK c \in Level : c = 1 - page.cin
    BY <1>1, <2>1 DEF Level
  <2>3. Kept
    BY <1>1, <2>1, <2>2
  <2>4. QED
    BY <1>1, <2>3 DEF ArithmeticInv
<1>4. CASE SelectOpcode
  <2>1. PICK op \in 0 .. 10 : page' = [page EXCEPT !["selectedOpcode"] = op]
    BY <1>4 DEF SelectOpcode, Pick, Set
  <2>2. Kept
    BY <1>1, <2>1
  <2>3. QED
    BY <1>1, <2>2 DEF ArithmeticInv
<1>5. CASE SelectAdderSchematic \/ SelectAluSchematic \/ SelectMultiplierSchematic
  <2>1. PICK view : page' = [page EXCEPT !["activeSchematic"] = view]
    BY <1>5 DEF SelectAdderSchematic, SelectAluSchematic, SelectMultiplierSchematic, Pick, Set
  <2>2. Kept
    BY <1>1, <2>1
  <2>3. QED
    BY <1>1, <2>2 DEF ArithmeticInv
<1>6. QED
  BY <1>2, <1>3, <1>4, <1>5

\* The telemetry lab: what is picked, and what the device answers after an operation.
LEMMA TelemetryStepFollows ==
    ASSUME ArithmeticInv, Mounted,
           SelectAddress \/ SelectTelemetrySchematic \/ \E v \in Vector : Execute(v)
    PROVE  ArithmeticInv'
<1> USE DEF On
<1> DEFINE Shown == {"lab", "selectedAddress", "telemetry", "device", "operations"}
<1>1. /\ page.lab = "telemetry" /\ Shown \subseteq DOMAIN page
      /\ page.selectedAddress \in Addresses
      /\ Counters(page.device) /\ page.telemetry = Telemetry(page.device)
  BY DEF ArithmeticInv, SelectAddress, SelectTelemetrySchematic, Execute, Pick
<1>2. CASE SelectAddress
  <2>1. PICK address : /\ address \in {r.address : r \in ToSet(MMIO_REGS)}
                       /\ page' = [page EXCEPT !["selectedAddress"] = address]
    BY <1>2 DEF SelectAddress, Pick, Set
  <2>2. address \in Addresses
    BY <2>1, TelemetryRows DEF Addresses
  <2>3. /\ page'.lab = "telemetry" /\ DOMAIN page' = DOMAIN page
        /\ page'.selectedAddress = address /\ page'.device = page.device
        /\ page'.telemetry = page.telemetry
    BY <1>1, <2>1
  <2>4. QED
    BY <1>1, <2>2, <2>3 DEF ArithmeticInv
<1>3. CASE SelectTelemetrySchematic
  <2>1. PICK view : page' = [page EXCEPT !["activeSchematic"] = view]
    BY <1>3 DEF SelectTelemetrySchematic, Pick, Set
  <2>2. /\ page'.lab = "telemetry" /\ DOMAIN page' = DOMAIN page
        /\ page'.selectedAddress = page.selectedAddress /\ page'.device = page.device
        /\ page'.telemetry = page.telemetry
    BY <1>1, <2>1
  <2>3. QED
    BY <1>1, <2>2 DEF ArithmeticInv
<1>4. ASSUME NEW v \in Vector, Execute(v) PROVE ArithmeticInv'
  <2>1. PICK result : result = ALU(v.opcode, v.a, v.b).result
    OBVIOUS
  <2>2. PICK after : after = TelemetryBlock(page.device, v.opcode, result)
    OBVIOUS
  <2>3. page' = [page EXCEPT !.device = after, !.telemetry = Telemetry(after),
                             !.operations = page.operations + 1]
    BY <1>4, <2>1, <2>2 DEF Execute
  <2>4. Counters(after)
    BY <1>1, <2>2, BlockCounts
  <2>5. /\ page'.lab = "telemetry" /\ DOMAIN page' = DOMAIN page
        /\ page'.selectedAddress = page.selectedAddress /\ page'.device = after
        /\ page'.telemetry = Telemetry(after)
    BY <1>1, <2>3
  <2>6. QED
    BY <1>1, <2>4, <2>5 DEF ArithmeticInv
<1>5. QED
  BY <1>2, <1>3, <1>4

\* Every control of the labs of Objective 1.
LEMMA ArithmeticStepFollows ==
    ASSUME ArithmeticInv, ArithmeticStep, Mounted PROVE ArithmeticInv'
  BY GatesStepFollows, OperandsStepFollows, TelemetryStepFollows, Zenon DEF ArithmeticStep

\* A slider moves, or another lab's control is used.
LEMMA BoothStepFollows == ASSUME BoothInv, MachineStep, Mounted PROVE BoothInv'
<1>1. CASE MoveSlider
  <2>1. PICK hook \in {"valA", "valB"}, x \in Slider : page' = [page EXCEPT ![hook] = x]
    BY <1>1 DEF MoveSlider, Pick, Set
  <2>2. x \in Position
    BY MachineLabsAssumption DEF Position
  <2>3. page.lab = "booth"
    BY <1>1 DEF MoveSlider, Pick, On
  <2>4. QED
    BY <2>1, <2>2, <2>3 DEF BoothInv, On
<1>2. ASSUME ~MoveSlider PROVE page.lab # "booth" /\ page'.lab = page.lab
  BY <1>2, MachineKeepsLab
  DEF MachineStep, EditDivider, DividerResetButton, StepDivider, SelectComparison,
      RunComparison, ReceiveComparison, FailComparison, On
<1>3. QED
  BY <1>1, <1>2 DEF BoothInv, On

\* A lab that has just been opened.
LEMMA FreshHooks == page \in Lab => ArithmeticInv /\ BoothInv
<1> SUFFICES ASSUME page \in Lab PROVE ArithmeticInv /\ BoothInv
  OBVIOUS
<1>1. /\ page.lab = "gates" => page = GatesLab
      /\ page.lab = "adders" => page = AddersLab
      /\ page.lab = "alu" => page = AluLab
      /\ page.lab = "multipliers" => page = MultipliersLab
      /\ page.lab = "telemetry" => page = TelemetryLab
      /\ page.lab = "booth" => page = BoothWallaceVisualizer
  BY DEF Lab, ArithmeticLab, MachineLab, ViewLab, GatesLab, AddersLab, AluLab, MultipliersLab,
         TelemetryLab, SystemLab, IterativeDividerVisualizer, BoothWallaceVisualizer,
         LabCompareCores, Lab1ArchExplorer, Lab6CapabilityPlayground
<1>2. page.lab = "gates" =>
          {"lab", "fredkin", "toffoli"} \subseteq DOMAIN page
          /\ page.fredkin \in Bits /\ page.toffoli \in Bits
  <2>1. <<1, 1, 0>> \in Bits
    BY BitsOf, 0 \in Level, 1 \in Level DEF Level, Row3
  <2>2. QED
    BY <1>1, <2>1 DEF GatesLab
<1>3. 2^(Width \div 2) - 1 \in Word /\ 1 \in Word /\ 42 \in Word /\ 2 \in Word /\ 7 \in Word
      /\ 2^Width - 5 \in Word
  BY Wide DEF Word
<1>4. page.lab = "adders" =>
          {"lab", "a", "b"} \subseteq DOMAIN page /\ page.a \in Word /\ page.b \in Word
          /\ "cin" \in DOMAIN page /\ page.cin \in Level
  BY <1>1, <1>3 DEF AddersLab, Level
<1>5. page.lab = "alu" =>
          {"lab", "a", "b"} \subseteq DOMAIN page /\ page.a \in Word /\ page.b \in Word
          /\ "selectedOpcode" \in DOMAIN page /\ page.selectedOpcode \in 0 .. 10
  BY <1>1, <1>3 DEF AluLab
<1>6. page.lab = "multipliers" =>
          {"lab", "a", "b"} \subseteq DOMAIN page /\ page.a \in Word /\ page.b \in Word
  BY <1>1, <1>3 DEF MultipliersLab
<1>7. page.lab = "telemetry" =>
          {"lab", "selectedAddress", "telemetry", "device", "operations"} \subseteq DOMAIN page
          /\ page.selectedAddress \in Addresses
          /\ Counters(page.device) /\ page.telemetry = Telemetry(page.device)
  <2>1. Counters(TelemetryReset)
    BY DEF Counters, TelemetryReset
  <2>2. QED
    BY <1>1, <2>1 DEF TelemetryLab, Addresses
<1>8. BoothInv
  <2>1. -17 \in Position /\ 25 \in Position
    BY DEF Position
  <2>2. QED
    BY <1>1, <2>1 DEF BoothInv, On, BoothWallaceVisualizer
<1>9. ArithmeticInv
  BY <1>2, <1>4, <1>5, <1>6, <1>7 DEF ArithmeticInv, On
<1>10. QED
  BY <1>8, <1>9

\* With these hooks, every lab shows what the hardware would.
LEMMA ArithmeticInvSuffices == ArithmeticInv => LabsMatchHardware
<1> SUFFICES ASSUME ArithmeticInv PROVE LabsMatchHardware
  OBVIOUS
<1> PICK p : p = page
  OBVIOUS
<1>1. p.lab = "gates" => GatesMatch(p)
  BY GatesShown DEF ArithmeticInv, On
<1>2. p.lab = "adders" => AddersMatch(p)
  BY AddersShown DEF ArithmeticInv, On, Level
<1>3. p.lab = "alu" => AluMatches(p)
  BY AluShown DEF ArithmeticInv, On
<1>4. p.lab = "multipliers" => MultipliersMatch(p)
  BY MultipliersShown DEF ArithmeticInv, On
<1>5. p.lab = "telemetry" => TelemetryMatches(p)
  BY TelemetryShown DEF ArithmeticInv, On, Addresses
<1>6. QED
  BY <1>1, <1>2, <1>3, <1>4, <1>5 DEF LabsMatchHardware, On

\* With the sliders at their positions, the partial products add up.
LEMMA BoothInvSuffices == BoothInv => BoothAddsUp
  BY BoothShown DEF BoothInv, BoothAddsUp, On

-----------------------------------------------------------------------------
(* All labs.                                                               *)

LabsInv ==
    /\ Mounted /\ InspectorInv /\ ExplorerInv /\ CompareInv /\ DividerInv /\ MapInv
    /\ ArithmeticInv /\ BoothInv

\* A lab that has just been opened.
LEMMA FreshLab == page \in Lab => LabsInv
<1> SUFFICES ASSUME page \in Lab PROVE LabsInv
  OBVIOUS
<1>1. Mounted
  BY LabsMounted DEF Mounted
<1>2. page.lab \in ArithmeticNames \union MachineNames \union ViewNames \union {"system"}
      /\ (page.lab = "system" => page = SystemLab)
      /\ (page.lab = "explorer" => page = Lab1ArchExplorer)
      /\ (page.lab = "compare" => page = LabCompareCores)
      /\ (page.lab = "divider" => page = IterativeDividerVisualizer)
      /\ (page.lab = "capabilities" => page = Lab6CapabilityPlayground)
  BY DEF Lab, ArithmeticLab, MachineLab, ViewLab, GatesLab, AddersLab, AluLab, MultipliersLab,
         TelemetryLab, SystemLab, IterativeDividerVisualizer, BoothWallaceVisualizer,
         LabCompareCores, Lab1ArchExplorer, Lab6CapabilityPlayground, ArithmeticNames,
         MachineNames, ViewNames
<1>3. InspectorInv
  BY <1>2, SystemLabFollows DEF On, InspectorInv
<1>4. ExplorerInv
  BY <1>2 DEF On, ExplorerInv, ExplorerHooks, Lab1ArchExplorer, ProbeFollowsClicks,
              MODULE_DETAILS
<1>5. CompareInv
  <2>1. Scenario[1] \in ToSet(Scenario)
    BY MachineLabsAssumption DEF ToSet
  <2>2. QED
    BY <1>2, <2>1 DEF On, CompareInv, CompareHooks, LabCompareCores
<1>6. DividerInv
  BY <1>2, WidthAssumption DEF On, DividerInv, DividerHooks, IterativeDividerVisualizer
<1>7. MapInv
  BY <1>2, ResetFits, MachineViewsAssumption DEF On, MapInv, MapHooks, Lab6CapabilityPlayground
<1>8. QED
  BY <1>1, <1>3, <1>4, <1>5, <1>6, <1>7, FreshHooks DEF LabsInv

\* Each lab's steps keep its own invariant, and the others are about labs not on screen.
LEMMA LabsStep == LabsInv /\ [LabsNext]_page => LabsInv'
<1> SUFFICES ASSUME LabsInv, [LabsNext]_page PROVE LabsInv'
  OBVIOUS
<1>1. /\ Mounted /\ InspectorInv /\ ExplorerInv /\ CompareInv /\ DividerInv /\ MapInv
      /\ ArithmeticInv /\ BoothInv
  BY DEF LabsInv
<1> USE DEF ArithmeticNames, MachineNames, ViewNames
<1>2. CASE OpenLab
  <2>1. PICK lab \in Lab : page' = lab
    BY <1>2 DEF OpenLab
  <2>2. (page \in Lab => LabsInv)'
    BY FreshLab, PTL
  <2>3. QED
    BY <2>1, <2>2
<1> USE DEF InspectorInv, ExplorerInv, CompareInv, DividerInv, MapInv, ArithmeticInv, BoothInv, On
<1>3. CASE ArithmeticStep
  BY <1>1, <1>3, ArithmeticKeepsLab, ArithmeticStepFollows DEF LabsInv
<1>4. CASE InspectorStep
  BY <1>1, <1>4, InspectorKeepsLab, InspectorStepFollows DEF LabsInv
<1>5. CASE MachineStep
  BY <1>1, <1>5, MachineKeepsLab, CompareStepFollows, DividerStepFollows, BoothStepFollows
  DEF LabsInv
<1>6. CASE ViewStep
  BY <1>1, <1>6, ViewKeepsLab, ExplorerStepFollows, MapStepFollows DEF LabsInv
<1>7. CASE UNCHANGED page
  BY <1>1, <1>7 DEF LabsInv, Mounted, InspectorFollowsUser, ProbeFollowsClicks
<1>8. QED
  BY <1>2, <1>3, <1>4, <1>5, <1>6, <1>7 DEF LabsNext

\* Together: an invariant of all labs, opened in any order.
LEMMA LabsInvariance == LabsSpec => []LabsInv
<1>1. LabsInit => LabsInv
  BY FreshLab DEF LabsInit
<1>2. QED
  BY <1>1, LabsStep, PTL DEF LabsSpec

\* The inspector is about the unit that was picked and the canvas follows the pointer, for
\* any places of the pointer, however buttons, wheel and drags alternate.
THEOREM InspectorFollows == LabsSpec => []InspectorFollowsUser
<1>1. LabsInv => InspectorFollowsUser
  BY DEF LabsInv, InspectorInv, InspectorFollowsUser
<1>2. QED
  BY <1>1, LabsInvariance, PTL

\* The drawer of the architecture explorer is of the block whose probe is shown, unless the
\* block has no details or the probe was put back.
THEOREM ProbeFollows == LabsSpec => []ProbeFollowsClicks
<1>1. LabsInv => ProbeFollowsClicks
  BY DEF LabsInv, ExplorerInv, ProbeFollowsClicks
<1>2. QED
  BY <1>1, LabsInvariance, PTL

\* The cards of the race are those of the program selected, for any programs and any
\* measurements, however selections, answers and failures cross.
THEOREM ComparisonFollows == LabsSpec => []ComparisonIsOfSelection
<1>1. LabsInv => ComparisonIsOfSelection
  BY CompareInvSuffices DEF LabsInv
<1>2. QED
  BY <1>1, LabsInvariance, PTL

\* The divider lab shows what DIV and REM return, for all operands that fit a word, and counts
\* the iterations of the operands in its fields.
THEOREM DividerLabDivides == LabsSpec => []DividerShowsQuotient
<1>1. LabsInv => DividerShowsQuotient
  BY DividerInvSuffices DEF LabsInv
<1>2. QED
  BY <1>1, LabsInvariance, PTL

\* The ranges and bars of the capability playground show what the checker of the hardware
\* lets through, after any derivations and for any size of the memory.
THEOREM PlaygroundShowsAuthority == LabsSpec => []MapCoversAuthority
<1>1. LabsInv => MapCoversAuthority
  BY MapInvSuffices DEF LabsInv
<1>2. QED
  BY <1>1, LabsInvariance, PTL

\* The labs that compute in the browser show what the hardware would, for all words typed, all
\* opcodes and wires, and after any operations on the device; each box of the adders' carry
\* chain shows the carry out of its group's lowest bit.
THEOREM LabsMatch == LabsSpec => []LabsMatchHardware
<1>1. LabsInv => LabsMatchHardware
  BY ArithmeticInvSuffices DEF LabsInv
<1>2. QED
  BY <1>1, LabsInvariance, PTL

\* The labs of Objective 2: the quotient is the divider's, the Booth groups of any two
\* positions of the sliders add up to the product, and the map is the checker's.
THEOREM MachineLabsMatch == LabsSpec => []MachineLabsMatchHardware
<1>1. LabsInv => MachineLabsMatchHardware
  BY DividerInvSuffices, BoothInvSuffices, MapInvSuffices DEF LabsInv, MachineLabsMatchHardware
<1>2. QED
  BY <1>1, LabsInvariance, PTL
=============================================================================
