---------------------------- MODULE MachineViews ----------------------------
(***************************************************************************)
(* Two labs of the Objective 2 workbench that look into the machine: the   *)
(* architecture explorer, where a click on a block of the datapath moves   *)
(* both the probe under it and the drawer of module details, and the       *)
(* capability playground, which draws the capability registers of the      *)
(* reply.  Each has two view modes; what only one of them shows unmounts   *)
(* when the other is picked, and starts afresh.                            *)
(***************************************************************************)
EXTENDS ObjectiveOneHardware, LabPage

CONSTANTS
    Ram,                \* bytes of data memory, totalRamSize; 4096 in the design
    Process,            \* the process capability registers shown
    NewLength,          \* register operands of CSETBOUNDS,
    NewPerms,           \*   of CANDPERM,
    Delta               \*   and of CINCOFFSET

NoLogicResult(fn, a, b) == 0
Cap == INSTANCE CapabilityLite WITH
    XLEN <- Width, ByteModulus <- 2^(Width \div 4), LogicAlu <- NoLogicResult,
    NumRegs <- 32, NumCaps <- 8,
    RamSize <- Ram, MmioBase <- 2 * Ram, MmioSize <- Ram \div 2,
    RegisterAt <- <<>>, TrapVectorReset <- 0

ASSUME MachineViewsAssumption ==
    /\ Ram \in Nat \ {0} /\ Ram % 4 = 0 /\ 3 * Ram < 2^Width
    /\ 3 \in Process /\ Process \subseteq 3 .. 7
    /\ NewLength \union NewPerms \union Delta \subseteq Word

-----------------------------------------------------------------------------
(* The architecture explorer.                                              *)

\* The blocks of the drawing, and those with an entry in the drawer.
Block ==
    {"PC_MUX", "PC", "PC_ADDER", "IMEM", "DECODER", "REGFILE", "CAPREGFILE", "IMMGEN",
     "FORWARD_A", "FORWARD_B", "ALU", "MUL", "DIV", "BJU", "DATAMEM", "SYSTEM_MMIO",
     "CAPCHECKER", "TRAP_ENGINE", "WB_MUX", "COMMIT"}
MODULE_DETAILS ==
    {"PC", "IMEM", "DECODER", "REGFILE", "CAPREGFILE", "ALU", "MUL", "DIV", "DATAMEM",
     "CAPCHECKER", "SYSTEM_MMIO"}

Lab1ArchExplorer ==
    [lab |-> "explorer", viewMode |-> "datapath", selectedModule |-> "ALU",
     selectedBlock |-> "ALU",
     \* For the property only: the probe was put back since a block with details was
     \* clicked last.
     putBack |-> FALSE]

\* Fault: the drawer is emptied by a block without an entry.
SelectedModule_Unguarded(p, id) == id

\* handleSelectModuleFromDatapath.
SelectedModule(p, id) == IF id \in MODULE_DETAILS THEN id ELSE p.selectedModule

HandleBlockClick ==
    /\ On("explorer") /\ page.viewMode = "datapath"
    /\ \E id \in Block :
          page' = [page EXCEPT !.selectedBlock = id, !.selectedModule = SelectedModule(page, id),
                               !.putBack = @ /\ id \notin MODULE_DETAILS]

PutBack(p) == [p EXCEPT !.selectedBlock = "ALU", !.putBack = TRUE]

\* The button of the probe leaves the drawer as it is.
ResetProbe ==
    /\ On("explorer") /\ page.viewMode = "datapath"
    /\ page' = PutBack(page)

\* The probe is part of the datapath: it goes with it, and comes back at the ALU.
SwitchExplorer ==
    /\ On("explorer")
    /\ \/ page.viewMode = "datapath" /\ Set("viewMode", "schematic")
       \/ page.viewMode = "schematic" /\ page' = [PutBack(page) EXCEPT !.viewMode = "datapath"]

-----------------------------------------------------------------------------
(* The capability playground.  The registers are those of the reply; the    *)
(* lab is opened on a machine just reset, and any other file is reached by *)
(* steps.  c1 and c2 are the roots, the process                            *)
(* registers change with the steps of the machine.                         *)

Lab6CapabilityPlayground ==
    [lab |-> "capabilities", viewMode |-> "interactive", selectedCapIndex |-> 3,
     capabilities |-> [c \in 0 .. 2 \union Process |-> Cap!CapResetValue(c)]]

\* A reply after the machine has executed one more capability instruction; the
\* registers change on the schematic too.
StepCapability ==
    /\ On("capabilities")
    /\ \E cd \in Process, cs1 \in DOMAIN page.capabilities :
          LET cap == page.capabilities[cs1]
          IN  \E d \in {Cap!SetBounds(cap, n) : n \in NewLength}
                   \union {Cap!AndPerm(cap, n) : n \in NewPerms}
                   \union {Cap!IncOffset(cap, n) : n \in Delta} :
                 d.write /\ page' = [page EXCEPT !.capabilities[cd] = d.cap]

\* The buttons of the memory map.
SelectCapability ==
    /\ On("capabilities") /\ page.viewMode = "interactive"
    /\ Pick("capabilities", "selectedCapIndex", DOMAIN page.capabilities)

SwitchPlayground ==
    /\ On("capabilities")
    /\ \/ page.viewMode = "interactive" /\ Set("viewMode", "schematic")
       \/ /\ page.viewMode = "schematic"
          /\ page' = [page EXCEPT !.viewMode = "interactive", !.selectedCapIndex = 3]

selectedCap(p) == p.capabilities[p.selectedCapIndex]

\* The line "Effective Range" of a card: the addresses from the first one to the last.
EffectiveRange(cap) ==
    IF cap.tag THEN cap.base .. cap.base + cap.length - (IF cap.length > 0 THEN 1 ELSE 0)
    ELSE {}

\* The slice of the memory bar, in hundredths of a byte: never thinner than 2 % of the
\* memory, and never further right than 95 %.
Slice(cap) ==
    LET left  == IF 100 * cap.base < 95 * Ram THEN 100 * cap.base ELSE 95 * Ram
        width == IF 100 * cap.length > 2 * Ram THEN 100 * cap.length ELSE 2 * Ram
    IN  left .. left + width - 1

-----------------------------------------------------------------------------

ViewStep ==
    \/ HandleBlockClick \/ ResetProbe \/ SwitchExplorer
    \/ StepCapability \/ SelectCapability \/ SwitchPlayground

ViewLab == {Lab1ArchExplorer, Lab6CapabilityPlayground}

-----------------------------------------------------------------------------
(* Properties.                                                             *)

\* Whatever blocks are clicked, whenever the probe is put back and the datapath comes and
\* goes: the drawer is never empty, and it is of the probed block unless the block has no
\* details or the probe was put back after the last one that has.
ProbeFollowsClicks ==
    On("explorer") =>
        /\ page.selectedModule \in MODULE_DETAILS
        /\ page.selectedBlock \in MODULE_DETAILS /\ ~page.putBack =>
               page.selectedModule = page.selectedBlock

\* The bytes the checker of the hardware lets a load or a store reach.
Reach(cap) == {a \in Word : \E isWrite \in BOOLEAN : Cap!CheckReason(cap, a, 1, isWrite) = 0}

\* After any derivations: the range on the card of a capability that can be read or written
\* and is not empty is exactly what the checker allows, and the slice drawn for the selected
\* one covers it where the bar reaches, up to 95 % of the memory.
MapCoversAuthority ==
    On("capabilities") =>
        /\ \A c \in DOMAIN page.capabilities :
              LET cap == page.capabilities[c]
              IN  /\ Reach(cap) \subseteq EffectiveRange(cap)
                  /\ Reach(cap) # {} => EffectiveRange(cap) = Reach(cap)
        /\ LET cap == selectedCap(page)
           IN  100 * cap.base <= 95 * Ram =>
                   \A a \in Reach(cap) : 100 * a \in Slice(cap)
=============================================================================
